---------------------------- MODULE StagingProofs ----------------------------
(***************************************************************************)
(* Theorems about Staging.                                                 *)
(***************************************************************************)
EXTENDS Staging, FoldProofs, SequenceTheorems

-------------------------------------------------------------------------------
(* The loops over the lists of files and directories.  A fold takes its operator as a *)
(* parameter, and each is proved to have a value of its own; what they have in common *)
(* is stated of Turn().                                                               *)

ListOne(listed, p) ==
  IF IsDirectory(fs, p) THEN [listed EXCEPT !.directories = Append(@, p)]
  ELSE [listed EXCEPT !.assets = Append(@, p)]

Turn(loop, acc, x) ==
  CASE loop = "gather" -> ListOne(acc, x)
    [] loop = "mkdir"  -> MakeDirectory(acc, x)
    [] loop = "list"   -> EnumerateFile(acc, x)
    [] loop = "copy"   -> TakeNext(acc, x)
    [] loop = "entry"  -> CopyEntry(acc, x)

LEMMA Turns ==
  /\ \A acc, x : Turn("gather", acc, x) = ListOne(acc, x)
  /\ \A acc, x : Turn("mkdir", acc, x) = MakeDirectory(acc, x)
  /\ \A acc, x : Turn("list", acc, x) = EnumerateFile(acc, x)
  /\ \A acc, x : Turn("copy", acc, x) = TakeNext(acc, x)
  /\ \A acc, x : Turn("entry", acc, x) = CopyEntry(acc, x)
BY DEF Turn

\* g makes a turn for every element of a set, the largest one last.
Recurses(g, loop, base, seq, n) ==
  g = [s \in SUBSET (1 .. n) |->
         IF s = {} THEN base ELSE Turn(loop, g[s \ {Max(s)}], seq[Max(s)])]

\* The fold has a value for every set of indices: by induction on its size.
LEMMA TurnsExist ==
  ASSUME NEW loop, NEW base, NEW seq, NEW n \in Nat
  PROVE  \E g : Recurses(g, loop, base, seq, n)
<1> DEFINE S == 1 .. n
           Step(g, s) == IF s = {} THEN base ELSE Turn(loop, g[s \ {Max(s)}], seq[Max(s)])
           Upto(k) == \E g : g = [s \in SUBSET S |-> g[s]] /\
                        \A s \in SUBSET S : Cardinality(s) <= k => g[s] = Step(g, s)
           Sizes == {k \in Nat : Upto(k)}
<1>0. /\ IsFiniteSet(S)
      /\ \A s \in SUBSET S : IsFiniteSet(s) /\ Cardinality(s) \in Nat
                             /\ Cardinality(s) <= Cardinality(S)
  <2>1. IsFiniteSet(S)
    BY FS_Interval
  <2> HIDE DEF S
  <2> QED
    BY <2>1, FS_Subset, FS_CardinalityType
<1>1. 0 \in Sizes
  <2> DEFINE g == [s \in SUBSET S |-> base]
  <2>1. g = [s \in SUBSET S |-> g[s]]
    OBVIOUS
  <2>2. \A s \in SUBSET S : Cardinality(s) <= 0 => s = {}
    <3> HIDE DEF S
    <3> QED
      BY <1>0, FS_EmptySet
  <2>3. \A s \in SUBSET S : s = {} => g[s] = Step(g, s)
    OBVIOUS
  <2> HIDE DEF g, Step
  <2> QED
    BY <2>1, <2>2, <2>3
<1>2. ASSUME NEW k \in Nat, k \in Sizes PROVE k + 1 \in Sizes
  <2>1. PICK g : g = [s \in SUBSET S |-> g[s]] /\
                 \A s \in SUBSET S : Cardinality(s) <= k => g[s] = Step(g, s)
    <3> HIDE DEF Step
    <3> QED
      BY <1>2
  <2> DEFINE h == [s \in SUBSET S |-> Step(g, s)]
  <2>2. h = [s \in SUBSET S |-> h[s]] /\ \A s \in SUBSET S : h[s] = Step(g, s)
    <3> HIDE DEF Step
    <3> QED
      OBVIOUS
  <2> HIDE DEF h
  <2>3. ASSUME NEW s \in SUBSET S, Cardinality(s) <= k + 1, s # {}
        PROVE  h[s \ {Max(s)}] = g[s \ {Max(s)}]
    <3> DEFINE r == s \ {Max(s)}
    <3>1. Max(s) \in s /\ r \in SUBSET S /\ IsFiniteSet(s)
      BY <1>0, <2>3, MaxOfSome
    <3>2. Cardinality(r) = Cardinality(s) - 1 /\ Cardinality(s) \in Nat
      BY <3>1, OneLess
    <3>3. Cardinality(r) <= k
      BY <2>3, <3>2
    <3> HIDE DEF r, Step, S
    <3>4. h[r] = g[r]
      BY <2>1, <2>2, <3>1, <3>3
    <3> QED
      BY <3>4 DEF r
  <2>4. \A s \in SUBSET S : Cardinality(s) <= k + 1 => h[s] = Step(h, s)
    <3> TAKE s \in SUBSET S
    <3> HAVE Cardinality(s) <= k + 1
    <3>1. h[s] = Step(g, s)
      BY <2>2
    <3>2. CASE s = {}
      BY <3>1, <3>2
    <3>3. CASE s # {}
      BY <2>3, <3>1, <3>3
    <3> QED
      BY <3>2, <3>3
  <2>5. Upto(k + 1)
    <3> HIDE DEF Step, S
    <3> QED
      BY <2>2, <2>4
  <2> HIDE DEF Upto
  <2> QED
    BY <2>5
<1>3. Cardinality(S) \in Nat
  BY <1>0, FS_CardinalityType
<1> HIDE DEF Upto
<1>4. Cardinality(S) \in Sizes
  <2> HIDE DEF Sizes, S
  <2>1. Nat \subseteq Sizes
    BY <1>1, <1>2, AllSizes
  <2> QED
    BY <1>3, <2>1
<1>5. PICK g : g = [s \in SUBSET S |-> g[s]] /\
               \A s \in SUBSET S : Cardinality(s) <= Cardinality(S) => g[s] = Step(g, s)
  <2>1. Upto(Cardinality(S))
    BY <1>4
  <2> HIDE DEF Step, S
  <2> QED
    BY <2>1 DEF Upto
<1>6. g = [s \in SUBSET S |-> Step(g, s)]
  <2> HIDE DEF Step, S
  <2> QED
    BY <1>0, <1>5
<1> QED
  BY <1>6 DEF Recurses

\* One after the other: v[i] is what the first i turns make of base.
Steps(v, loop, base, seq, n) ==
  v[0] = base /\ \A i \in 1 .. n : v[i] = Turn(loop, v[i - 1], seq[i])

\* The values of a fold, one after the other.
LEMMA StepsOf ==
  ASSUME NEW loop, NEW base, NEW seq, NEW n \in Nat, NEW h,
         Recurses(h, loop, base, seq, n)
  PROVE  \E v : Steps(v, loop, base, seq, n) /\ v[n] = h[1 .. n]
<1> DEFINE v == [i \in 0 .. n |-> h[1 .. i]]
<1>1. \A s \in SUBSET (1 .. n) :
        h[s] = IF s = {} THEN base ELSE Turn(loop, h[s \ {Max(s)}], seq[Max(s)])
  <2>1. h = [s \in SUBSET (1 .. n) |->
               IF s = {} THEN base ELSE Turn(loop, h[s \ {Max(s)}], seq[Max(s)])]
    BY DEF Recurses
  <2> QED
    BY <2>1
<1>2. v[0] = base
  <2>1. 1 .. 0 = {} /\ 0 \in 0 .. n
    OBVIOUS
  <2> QED
    BY <1>1, <2>1
<1>3. ASSUME NEW i \in 1 .. n PROVE v[i] = Turn(loop, v[i - 1], seq[i])
  <2>1. i \in Nat /\ i > 0 /\ i \in 0 .. n /\ i - 1 \in 0 .. n /\ 1 .. i \in SUBSET (1 .. n)
    OBVIOUS
  <2>2. Max(1 .. i) = i /\ 1 .. i # {} /\ (1 .. i) \ {Max(1 .. i)} = 1 .. i - 1
    BY <2>1, MaxOfFirst
  <2>3. v[i] = h[1 .. i] /\ v[i - 1] = h[1 .. i - 1]
    BY <2>1
  <2> HIDE DEF v
  <2>4. h[1 .. i] = Turn(loop, h[(1 .. i) \ {Max(1 .. i)}], seq[Max(1 .. i)])
    BY <1>1, <2>1, <2>2
  <2> QED
    BY <2>2, <2>3, <2>4
<1>4. v[n] = h[1 .. n]
  OBVIOUS
<1> HIDE DEF v
<1> QED
  BY <1>2, <1>3, <1>4 DEF Steps

LEMMA MakeSteps ==
  ASSUME NEW c, NEW seq, NEW n \in Nat, DOMAIN seq = 1 .. n
  PROVE  \E v : Steps(v, "mkdir", c, seq, n) /\ FoldLeft(MakeDirectory, c, seq) = v[n]
<1> DEFINE Eq(g) == g = [s \in SUBSET (1 .. n) |->
                           IF s = {} THEN c
                           ELSE MakeDirectory(g[s \ {Max(s)}], seq[Max(s)])]
           h == CHOOSE g : Eq(g)
<1>1. FoldLeft(MakeDirectory, c, seq) = h[1 .. n]
  BY DEF FoldLeft, MapThenFoldSet
<1>2. \A g : Recurses(g, "mkdir", c, seq, n) <=> Eq(g)
  <2>1. \A acc, x : Turn("mkdir", acc, x) = MakeDirectory(acc, x)
    BY Turns
  <2> QED
    BY <2>1 DEF Recurses
<1>3. \E g : Eq(g)
  <2> DEFINE loop == "mkdir"
  <2> HIDE DEF loop, Eq
  <2>1. \E g : Recurses(g, loop, c, seq, n)
    BY TurnsExist
  <2> QED
    BY <1>2, <2>1 DEF loop
<1>4. Eq(h)
  BY <1>3
<1> DEFINE loop == "mkdir"
<1> HIDE DEF loop, Eq, h
<1>5. Recurses(h, loop, c, seq, n)
  BY <1>2, <1>4 DEF loop
<1>6. \E v : Steps(v, loop, c, seq, n) /\ v[n] = h[1 .. n]
  BY <1>5, StepsOf
<1> QED
  BY <1>1, <1>6 DEF loop

LEMMA ListSteps ==
  ASSUME NEW c, NEW seq, NEW n \in Nat, DOMAIN seq = 1 .. n
  PROVE  \E v : Steps(v, "list", c, seq, n) /\ FoldLeft(EnumerateFile, c, seq) = v[n]
<1> DEFINE Eq(g) == g = [s \in SUBSET (1 .. n) |->
                           IF s = {} THEN c
                           ELSE EnumerateFile(g[s \ {Max(s)}], seq[Max(s)])]
           h == CHOOSE g : Eq(g)
<1>1. FoldLeft(EnumerateFile, c, seq) = h[1 .. n]
  BY DEF FoldLeft, MapThenFoldSet
<1>2. \A g : Recurses(g, "list", c, seq, n) <=> Eq(g)
  <2>1. \A acc, x : Turn("list", acc, x) = EnumerateFile(acc, x)
    BY Turns
  <2> QED
    BY <2>1 DEF Recurses
<1>3. \E g : Eq(g)
  <2> DEFINE loop == "list"
  <2> HIDE DEF loop, Eq
  <2>1. \E g : Recurses(g, loop, c, seq, n)
    BY TurnsExist
  <2> QED
    BY <1>2, <2>1 DEF loop
<1>4. Eq(h)
  BY <1>3
<1> DEFINE loop == "list"
<1> HIDE DEF loop, Eq, h
<1>5. Recurses(h, loop, c, seq, n)
  BY <1>2, <1>4 DEF loop
<1>6. \E v : Steps(v, loop, c, seq, n) /\ v[n] = h[1 .. n]
  BY <1>5, StepsOf
<1> QED
  BY <1>1, <1>6 DEF loop

LEMMA CopySteps ==
  ASSUME NEW c, NEW seq, NEW n \in Nat, DOMAIN seq = 1 .. n
  PROVE  \E v : Steps(v, "copy", c, seq, n) /\ FoldLeft(TakeNext, c, seq) = v[n]
<1> DEFINE Eq(g) == g = [s \in SUBSET (1 .. n) |->
                           IF s = {} THEN c
                           ELSE TakeNext(g[s \ {Max(s)}], seq[Max(s)])]
           h == CHOOSE g : Eq(g)
<1>1. FoldLeft(TakeNext, c, seq) = h[1 .. n]
  BY DEF FoldLeft, MapThenFoldSet
<1>2. \A g : Recurses(g, "copy", c, seq, n) <=> Eq(g)
  <2>1. \A acc, x : Turn("copy", acc, x) = TakeNext(acc, x)
    BY Turns
  <2> QED
    BY <2>1 DEF Recurses
<1>3. \E g : Eq(g)
  <2> DEFINE loop == "copy"
  <2> HIDE DEF loop, Eq
  <2>1. \E g : Recurses(g, loop, c, seq, n)
    BY TurnsExist
  <2> QED
    BY <1>2, <2>1 DEF loop
<1>4. Eq(h)
  BY <1>3
<1> DEFINE loop == "copy"
<1> HIDE DEF loop, Eq, h
<1>5. Recurses(h, loop, c, seq, n)
  BY <1>2, <1>4 DEF loop
<1>6. \E v : Steps(v, loop, c, seq, n) /\ v[n] = h[1 .. n]
  BY <1>5, StepsOf
<1> QED
  BY <1>1, <1>6 DEF loop

LEMMA EntrySteps ==
  ASSUME NEW c, NEW seq, NEW n \in Nat, DOMAIN seq = 1 .. n
  PROVE  \E v : Steps(v, "entry", c, seq, n) /\ FoldLeft(CopyEntry, c, seq) = v[n]
<1> DEFINE Eq(g) == g = [s \in SUBSET (1 .. n) |->
                           IF s = {} THEN c
                           ELSE CopyEntry(g[s \ {Max(s)}], seq[Max(s)])]
           h == CHOOSE g : Eq(g)
<1>1. FoldLeft(CopyEntry, c, seq) = h[1 .. n]
  BY DEF FoldLeft, MapThenFoldSet
<1>2. \A g : Recurses(g, "entry", c, seq, n) <=> Eq(g)
  <2>1. \A acc, x : Turn("entry", acc, x) = CopyEntry(acc, x)
    BY Turns
  <2> QED
    BY <2>1 DEF Recurses
<1>3. \E g : Eq(g)
  <2> DEFINE loop == "entry"
  <2> HIDE DEF loop, Eq
  <2>1. \E g : Recurses(g, loop, c, seq, n)
    BY TurnsExist
  <2> QED
    BY <1>2, <2>1 DEF loop
<1>4. Eq(h)
  BY <1>3
<1> DEFINE loop == "entry"
<1> HIDE DEF loop, Eq, h
<1>5. Recurses(h, loop, c, seq, n)
  BY <1>2, <1>4 DEF loop
<1>6. \E v : Steps(v, loop, c, seq, n) /\ v[n] = h[1 .. n]
  BY <1>5, StepsOf
<1> QED
  BY <1>1, <1>6 DEF loop

LEMMA GatherSteps ==
  ASSUME NEW d, NEW a, NEW seq, NEW n \in Nat, DOMAIN seq = 1 .. n
  PROVE  \E v : /\ Steps(v, "gather", [directories |-> d, assets |-> a], seq, n)
                /\ Gather(fs, d, a, seq) = v[n]
<1> DEFINE c == [directories |-> d, assets |-> a]
           Eq(g) == g = [s \in SUBSET (1 .. n) |->
                           IF s = {} THEN c
                           ELSE ListOne(g[s \ {Max(s)}], seq[Max(s)])]
           h == CHOOSE g : Eq(g)
<1>1. Gather(fs, d, a, seq) = h[1 .. n]
  BY DEF Gather, ListOne, FoldLeft, MapThenFoldSet
<1>2. \A g : Recurses(g, "gather", c, seq, n) <=> Eq(g)
  <2>1. \A acc, x : Turn("gather", acc, x) = ListOne(acc, x)
    BY Turns
  <2> HIDE DEF c
  <2> QED
    BY <2>1 DEF Recurses
<1>3. \E g : Eq(g)
  <2> DEFINE loop == "gather"
  <2> HIDE DEF loop, Eq, c
  <2>1. \E g : Recurses(g, loop, c, seq, n)
    BY TurnsExist
  <2> QED
    BY <1>2, <2>1 DEF loop
<1>4. Eq(h)
  BY <1>3
<1> DEFINE loop == "gather"
<1> HIDE DEF loop, Eq, h, c
<1>5. Recurses(h, loop, c, seq, n)
  BY <1>2, <1>4 DEF loop
<1>6. \E v : Steps(v, loop, c, seq, n) /\ v[n] = h[1 .. n]
  BY <1>5, StepsOf
<1> QED
  BY <1>1, <1>6 DEF loop, c

-------------------------------------------------------------------------------
(* Paths. *)

\* What is left of a path without its first n names.
After(p, n) == SubSeq(p, n + 1, Len(p))

LEMMA PathsAreEqual ==
  ASSUME NEW p \in Paths, NEW q \in Paths, Len(p) = Len(q),
         \A i \in 1 .. Len(p) : p[i] = q[i]
  PROVE  p = q
BY DEF Paths

LEMMA PathIs ==
  ASSUME NEW p \in Paths
  PROVE  /\ Len(p) \in Nat /\ (p = <<>> <=> Len(p) = 0) /\ DOMAIN p = 1 .. Len(p)
         /\ \A i \in 1 .. Len(p) : p[i] \in Names
         /\ p # <<>> => Last(p) = p[Len(p)] /\ Last(p) \in Names
<1>1. /\ Len(p) \in Nat /\ (p = <<>> <=> Len(p) = 0) /\ DOMAIN p = 1 .. Len(p)
      /\ \A i \in 1 .. Len(p) : p[i] \in Names
  BY DEF Paths
<1>2. p # <<>> => Len(p) \in 1 .. Len(p)
  BY <1>1
<1> QED
  BY <1>1, <1>2 DEF Last

LEMMA EmptyPath == <<>> \in Paths /\ Len(<<>>) = 0
BY DEF Paths

LEMMA UnsetIsNoPath == Unset \notin Paths
<1>1. SUFFICES ASSUME Unset \in Paths PROVE FALSE
  OBVIOUS
<1>2. Unset[1] = <<>> /\ Len(Unset) = 1
  BY DEF Unset
<1>3. Unset[1] \in Names
  BY <1>1, <1>2, PathIs
<1> QED
  BY <1>2, <1>3 DEF Names

LEMMA PrefixIs ==
  ASSUME NEW p \in Paths, NEW q \in Paths
  PROVE  IsPrefix(p, q) <=> Len(p) <= Len(q) /\ \A i \in 1 .. Len(p) : p[i] = q[i]
<1> USE DEF Paths
<1>1. Len(p) \in Nat /\ Len(q) \in Nat
  OBVIOUS
<1>2. ASSUME Len(p) <= Len(q)
      PROVE  SubSeq(p, 1, Len(p)) = SubSeq(q, 1, Len(p)) <=> \A i \in 1 .. Len(p) : p[i] = q[i]
  <2> DEFINE a == SubSeq(p, 1, Len(p))
             b == SubSeq(q, 1, Len(p))
  <2>1. /\ a \in Seq(Names) /\ b \in Seq(Names) /\ Len(a) = Len(p) /\ Len(b) = Len(p)
        /\ \A i \in 1 .. Len(p) : a[i] = p[i] /\ b[i] = q[i]
    BY <1>1, <1>2
  <2> HIDE DEF a, b
  <2>2. a = b <=> \A i \in 1 .. Len(p) : a[i] = b[i]
    BY <2>1
  <2> QED
    BY <2>1, <2>2 DEF a, b
<1> QED
  BY <1>1, <1>2 DEF IsPrefix

LEMMA BelowIs ==
  ASSUME NEW p \in Paths, NEW q \in Paths
  PROVE  Below(p, q) <=> Len(p) < Len(q) /\ \A i \in 1 .. Len(p) : p[i] = q[i]
<1>1. Len(p) \in Nat /\ Len(q) \in Nat
  BY PathIs
<1> QED
  BY <1>1, PrefixIs DEF Below

\* The first names of a path.
LEMMA FirstIs ==
  ASSUME NEW p \in Paths, NEW n \in Nat, n <= Len(p)
  PROVE  /\ SubSeq(p, 1, n) \in Paths /\ Len(SubSeq(p, 1, n)) = n
         /\ \A i \in 1 .. n : SubSeq(p, 1, n)[i] = p[i]
<1> USE DEF Paths
<1>1. Len(p) \in Nat
  OBVIOUS
<1> QED
  BY <1>1

LEMMA ParentIs ==
  ASSUME NEW p \in Paths
  PROVE  /\ Parent(p) \in Paths /\ Parent(<<>>) = <<>>
         /\ p # <<>> => /\ Len(Parent(p)) = Len(p) - 1
                        /\ \A i \in 1 .. Len(p) - 1 : Parent(p)[i] = p[i]
<1>1. CASE p = <<>>
  BY <1>1 DEF Parent
<1>2. CASE p # <<>>
  <2>1. Parent(p) = SubSeq(p, 1, Len(p) - 1)
    BY <1>2 DEF Parent, Front
  <2>2. Len(p) \in Nat /\ Len(p) > 0
    BY <1>2, PathIs
  <2> DEFINE n == Len(p) - 1
  <2>3. n \in Nat /\ n <= Len(p)
    BY <2>2
  <2> HIDE DEF n
  <2>4. SubSeq(p, 1, n) \in Paths /\ Len(SubSeq(p, 1, n)) = n
        /\ \A i \in 1 .. n : SubSeq(p, 1, n)[i] = p[i]
    BY <2>3, FirstIs
  <2>5. Parent(<<>>) = <<>>
    BY DEF Parent
  <2> QED
    BY <1>2, <2>1, <2>4, <2>5 DEF n
<1> QED
  BY <1>1, <1>2

LEMMA ConcatIs ==
  ASSUME NEW p \in Paths, NEW q \in Paths
  PROVE  /\ p \o q \in Paths /\ Len(p \o q) = Len(p) + Len(q)
         /\ \A i \in 1 .. Len(p) : (p \o q)[i] = p[i]
         /\ \A i \in 1 .. Len(q) : (p \o q)[Len(p) + i] = q[i]
<1> USE DEF Paths
<1>1. Len(p) \in Nat /\ Len(q) \in Nat
  OBVIOUS
<1> QED
  BY <1>1

LEMMA AfterIs ==
  ASSUME NEW p \in Paths, NEW n \in Nat, n <= Len(p)
  PROVE  /\ After(p, n) \in Paths /\ Len(After(p, n)) = Len(p) - n
         /\ \A i \in 1 .. Len(p) - n : After(p, n)[i] = p[n + i]
<1> USE DEF Paths
<1>1. Len(p) \in Nat
  OBVIOUS
<1> QED
  BY <1>1 DEF After

LEMMA ParentOfConcat ==
  ASSUME NEW p \in Paths, NEW q \in Paths, q # <<>>
  PROVE  p \o q # <<>> /\ Parent(p \o q) = p \o Parent(q)
<1> DEFINE a == Parent(p \o q)
           b == p \o Parent(q)
           m == Len(p)
           n == Len(q)
<1>1. m \in Nat /\ n \in Nat /\ n > 0
  BY PathIs
<1>2. /\ p \o q \in Paths /\ Len(p \o q) = m + n
      /\ \A i \in 1 .. m : (p \o q)[i] = p[i]
      /\ \A i \in 1 .. n : (p \o q)[m + i] = q[i]
  BY ConcatIs
<1>3. p \o q # <<>>
  BY <1>1, <1>2, PathIs
<1>4. /\ Parent(q) \in Paths /\ Len(Parent(q)) = n - 1
      /\ \A i \in 1 .. n - 1 : Parent(q)[i] = q[i]
  BY ParentIs
<1> DEFINE s == Parent(q)
           t == p \o q
<1> HIDE DEF m, n
<1>5. /\ b \in Paths /\ Len(b) = m + (n - 1)
      /\ \A i \in 1 .. m : b[i] = p[i]
      /\ \A i \in 1 .. n - 1 : b[m + i] = q[i]
  <2>1. /\ s \in Paths /\ Len(s) = n - 1 /\ Len(p) = m
        /\ \A i \in 1 .. n - 1 : s[i] = q[i]
    BY <1>4 DEF m
  <2> HIDE DEF s
  <2>2. /\ p \o s \in Paths /\ Len(p \o s) = Len(p) + Len(s)
        /\ \A i \in 1 .. Len(p) : (p \o s)[i] = p[i]
        /\ \A i \in 1 .. Len(s) : (p \o s)[Len(p) + i] = s[i]
    BY <2>1, ConcatIs
  <2> QED
    BY <1>1, <2>1, <2>2 DEF s
<1>6. /\ a \in Paths /\ Len(a) = m + n - 1
      /\ \A i \in 1 .. m + n - 1 : a[i] = (p \o q)[i]
  <2>1. t \in Paths /\ Len(t) = m + n /\ t # <<>>
    BY <1>2, <1>3
  <2> HIDE DEF t
  <2>2. /\ Parent(t) \in Paths /\ Len(Parent(t)) = (m + n) - 1
        /\ \A i \in 1 .. (m + n) - 1 : Parent(t)[i] = t[i]
    BY <1>1, <2>1, ParentIs
  <2>3. (m + n) - 1 = m + n - 1
    BY <1>1
  <2> QED
    BY <2>2, <2>3 DEF t
<1> HIDE DEF a, b
<1>7. ASSUME NEW i \in 1 .. m + n - 1 PROVE a[i] = b[i]
  <2>1. CASE i <= m
    BY <1>1, <1>2, <1>5, <1>6, <2>1
  <2>2. CASE i > m
    <3>1. i - m \in 1 .. n - 1 /\ i - m \in 1 .. n /\ m + (i - m) = i
      BY <1>1, <2>2
    <3> QED
      BY <1>2, <1>5, <1>6, <3>1
  <2> QED
    BY <1>1, <2>1, <2>2
<1>8. a = b
  BY <1>1, <1>5, <1>6, <1>7, PathsAreEqual
<1> QED
  BY <1>3, <1>8 DEF a, b

LEMMA ParentOfAfter ==
  ASSUME NEW p \in Paths, NEW n \in Nat, n < Len(p)
  PROVE  After(p, n) # <<>> /\ Parent(After(p, n)) = After(Parent(p), n)
<1> DEFINE a == Parent(After(p, n))
           b == After(Parent(p), n)
           m == Len(p)
<1>1. m \in Nat /\ m > 0 /\ p # <<>> /\ n <= m - 1 /\ n <= m
  BY PathIs
<1>2. /\ After(p, n) \in Paths /\ Len(After(p, n)) = m - n
      /\ \A i \in 1 .. m - n : After(p, n)[i] = p[n + i]
  BY <1>1, AfterIs
<1>3. After(p, n) # <<>>
  BY <1>1, <1>2, PathIs
<1>4. /\ Parent(p) \in Paths /\ Len(Parent(p)) = m - 1
      /\ \A i \in 1 .. m - 1 : Parent(p)[i] = p[i]
  BY <1>1, ParentIs
<1>5. /\ b \in Paths /\ Len(b) = (m - 1) - n
      /\ \A i \in 1 .. (m - 1) - n : b[i] = Parent(p)[n + i]
  BY <1>1, <1>4, AfterIs
<1>6. /\ a \in Paths /\ Len(a) = (m - n) - 1
      /\ \A i \in 1 .. (m - n) - 1 : a[i] = After(p, n)[i]
  BY <1>2, <1>3, ParentIs
<1> HIDE DEF a, b, m
<1>7. ASSUME NEW i \in 1 .. (m - n) - 1 PROVE a[i] = b[i]
  <2>1. i \in 1 .. m - n /\ i \in 1 .. (m - 1) - n /\ n + i \in 1 .. m - 1
    BY <1>1
  <2> QED
    BY <1>2, <1>4, <1>5, <1>6, <2>1
<1>8. a = b
  BY <1>1, <1>5, <1>6, <1>7, PathsAreEqual
<1> QED
  BY <1>3, <1>8 DEF a, b

\* The directories that lead to a path, and the path itself.
LEMMA AncestryIs ==
  ASSUME NEW p \in Paths
  PROVE  /\ Ancestry(p) \subseteq Paths /\ IsFiniteSet(Ancestry(p)) /\ <<>> \notin Ancestry(p)
         /\ p # <<>> => p \in Ancestry(p)
         /\ \A q \in Ancestry(p) : Parent(q) \in Ancestry(p) \cup {<<>>}
         /\ p # <<>> => Parent(p) \in Ancestry(p) \cup {<<>>}
<1> DEFINE m == Len(p)
           part(n) == SubSeq(p, 1, n)
<1>1. m \in Nat /\ (p # <<>> => m > 0)
  BY PathIs
<1>2. \A n \in 1 .. m : /\ part(n) \in Paths /\ Len(part(n)) = n
                        /\ \A i \in 1 .. n : part(n)[i] = p[i]
  BY <1>1 DEF Paths
<1>3. Ancestry(p) = {part(n) : n \in 1 .. m}
  BY DEF Ancestry
<1>4. IsFiniteSet(Ancestry(p))
  <2> HIDE DEF part, m
  <2>1. IsFiniteSet(1 .. m)
    BY <1>1, FS_Interval
  <2> DEFINE f == [n \in 1 .. m |-> part(n)]
  <2>2. f \in Surjection(1 .. m, Ancestry(p))
    BY <1>3 DEF Surjection
  <2> QED
    BY <2>1, <2>2, FS_Surjection
<1>5. p # <<>> => p \in Ancestry(p)
  <2>1. ASSUME p # <<>> PROVE part(m) = p
    <3> DEFINE q == part(m)
    <3>1. q \in Paths /\ Len(q) = m /\ \A i \in 1 .. m : q[i] = p[i]
      BY <1>1, <1>2, <2>1
    <3> HIDE DEF q
    <3>2. q = p
      BY <3>1, PathsAreEqual
    <3> QED
      BY <3>2 DEF q
  <2> HIDE DEF part
  <2> QED
    BY <1>1, <1>3, <2>1
<1> HIDE DEF part, m
<1>6. <<>> \notin Ancestry(p)
  BY <1>1, <1>2, <1>3, EmptyPath
<1>7. ASSUME NEW q \in Ancestry(p) PROVE Parent(q) \in Ancestry(p) \cup {<<>>}
  <2>1. PICK n \in 1 .. m : q = part(n)
    BY <1>3
  <2>2. /\ q \in Paths /\ Len(q) = n /\ q # <<>>
        /\ \A i \in 1 .. n : q[i] = p[i]
    BY <1>1, <1>2, <1>6, <2>1
  <2>3. /\ Parent(q) \in Paths /\ Len(Parent(q)) = n - 1
        /\ \A i \in 1 .. n - 1 : Parent(q)[i] = q[i]
    BY <2>2, ParentIs
  <2>4. CASE n = 1
    BY <2>3, <2>4, PathIs
  <2>5. CASE n # 1
    <3>1. n - 1 \in 1 .. m /\ n - 1 \in Nat
      BY <1>1, <2>5
    <3>2. Parent(q) = part(n - 1)
      BY <1>2, <2>2, <2>3, <3>1, PathsAreEqual
    <3> QED
      BY <1>3, <3>1, <3>2
  <2> QED
    BY <2>4, <2>5
<1>8. Ancestry(p) \subseteq Paths
  BY <1>2, <1>3
<1> QED
  BY <1>4, <1>5, <1>6, <1>7, <1>8

-------------------------------------------------------------------------------
(* File systems. *)

\* What there was in f is in g as it was.
Keeps(f, g) == DOMAIN f \subseteq DOMAIN g /\ \A p \in DOMAIN f : g[p] = f[p]

LEMMA KeepsOn ==
  ASSUME NEW f, NEW g, NEW h, Keeps(f, g), Keeps(g, h)
  PROVE  Keeps(f, h)
BY DEF Keeps

LEMMA KeepsDirectories ==
  ASSUME NEW f, NEW g, Keeps(f, g), NEW p, IsDirectory(f, p)
  PROVE  IsDirectory(g, p)
BY DEF Keeps, IsDirectory

\* g has what there was in f, and maybe files at some paths where there was nothing or a
\* dangling link.
Fills(f, g, S) ==
  /\ DOMAIN f \subseteq DOMAIN g
  /\ \A p \in DOMAIN g :
       \/ p \in DOMAIN f /\ g[p] = f[p]
       \/ p \in S /\ g[p].kind = "file" /\ (p \in DOMAIN f => f[p].kind = "dangling")

LEMMA FillsMore ==
  ASSUME NEW f, NEW g, NEW h, NEW S, NEW T, NEW U, S \subseteq U, T \subseteq U,
         Fills(f, g, S), Fills(g, h, T)
  PROVE  Fills(f, h, U)
<1>1. ASSUME NEW p \in DOMAIN h
      PROVE  \/ p \in DOMAIN f /\ h[p] = f[p]
             \/ p \in U /\ h[p].kind = "file" /\ (p \in DOMAIN f => f[p].kind = "dangling")
  <2>1. CASE p \in DOMAIN g /\ h[p] = g[p]
    BY <2>1 DEF Fills
  <2>2. CASE p \in T /\ h[p].kind = "file" /\ (p \in DOMAIN g => g[p].kind = "dangling")
    <3>1. p \in DOMAIN f => g[p] = f[p]
      BY <2>2 DEF Fills
    <3>2. p \in DOMAIN f => p \in DOMAIN g
      BY DEF Fills
    <3> QED
      BY <2>2, <3>1, <3>2
  <2> QED
    BY <2>1, <2>2 DEF Fills
<1> QED
  BY <1>1 DEF Fills

LEMMA FillsDirectories ==
  ASSUME NEW f, NEW g, NEW S, Fills(f, g, S), NEW p, IsDirectory(f, p)
  PROVE  IsDirectory(g, p)
BY DEF Fills, IsDirectory

LEMMA Node ==
  /\ Dir \in Nodes /\ File(0, 0) \in Nodes /\ Placeholders \in Nodes
  /\ \A n \in Nodes : /\ n.kind \in Kinds /\ n.data \in Nat /\ n.size \in Nat
                      /\ n.data = 0 <=> n.size = 0
                      /\ n.size > 0 => n.kind = "file"
                      /\ n.kind = "file" /\ n.size = 0 => n = File(0, 0)
                      /\ n.kind = "broken" => n = Broken
<1>1. Dir \in Nodes /\ File(0, 0) \in Nodes /\ Placeholders \in Nodes
  BY DEF Nodes, Empty, Dir, File, Placeholders, Kinds
<1>2. ASSUME NEW n \in Nodes
      PROVE  /\ n = [kind |-> n.kind, data |-> n.data, size |-> n.size]
             /\ n.kind \in Kinds /\ n.data \in Nat /\ n.size \in Nat
             /\ n.data = 0 <=> n.size = 0
             /\ n.size > 0 => n.kind = "file"
  BY DEF Nodes
<1>3. ASSUME NEW n \in Nodes, n.kind = "broken" PROVE n = Broken
  <2>1. n.size = 0
    BY <1>2, <1>3
  <2> QED
    BY <1>2, <1>3, <2>1 DEF Broken, Empty
<1>4. ASSUME NEW n \in Nodes, n.kind = "file", n.size = 0 PROVE n = File(0, 0)
  BY <1>2, <1>4 DEF File
<1> QED
  BY <1>1, <1>2, <1>3, <1>4

\* What create() adds to a file system, every new path in a directory, makes one.
LEMMA CreateAdds ==
  ASSUME NEW f, NEW paths, NEW node,
         IsFileSystem(f), paths \subseteq Paths, IsFiniteSet(paths), node \in Nodes,
         <<>> \notin paths,
         \A p \in paths : IsDirectory(Create(f, paths, node), Parent(p))
  PROVE  LET g == Create(f, paths, node)
         IN  /\ IsFileSystem(g) /\ Keeps(f, g) /\ DOMAIN g = DOMAIN f \cup paths
             /\ \A p \in paths : p \notin DOMAIN f => g[p] = node
<1> DEFINE g == Create(f, paths, node)
<1>1. /\ g = [p \in DOMAIN f \cup paths |-> IF p \in DOMAIN f THEN f[p] ELSE node]
      /\ DOMAIN g = DOMAIN f \cup paths
  BY DEF Create
<1>2. /\ DOMAIN f \subseteq Paths /\ IsFiniteSet(DOMAIN f) /\ f \in [DOMAIN f -> Nodes]
      /\ \A p \in DOMAIN f : IsDirectory(f, Parent(p))
      /\ <<>> \in DOMAIN f => f[<<>>].kind = "dir"
  BY DEF IsFileSystem
<1>3. Keeps(f, g)
  BY <1>1 DEF Keeps
<1>4. \A p \in DOMAIN g : g[p] \in Nodes
  BY <1>1, <1>2
<1>5. g \in [DOMAIN g -> Nodes]
  BY <1>1, <1>4
<1>6. IsFiniteSet(DOMAIN g) /\ DOMAIN g \subseteq Paths
  BY <1>1, <1>2, FS_Union
<1> HIDE DEF g
<1>7. \A p \in DOMAIN g : IsDirectory(g, Parent(p))
  BY <1>1, <1>2, <1>3, KeepsDirectories DEF g
<1>8. <<>> \in DOMAIN g => g[<<>>].kind = "dir"
  BY <1>1, <1>2
<1>9. IsFileSystem(g)
  BY <1>5, <1>6, <1>7, <1>8 DEF IsFileSystem
<1>10. \A p \in paths : p \notin DOMAIN f => g[p] = node
  BY <1>1
<1> QED
  BY <1>1, <1>3, <1>9, <1>10 DEF g

\* A file or directory in a directory.
LEMMA CreateOne ==
  ASSUME NEW f, NEW to, NEW node,
         IsFileSystem(f), to \in Paths, to # <<>>, node \in Nodes, IsDirectory(f, Parent(to))
  PROVE  LET g == Create(f, {to}, node)
         IN  /\ IsFileSystem(g) /\ Keeps(f, g) /\ DOMAIN g = DOMAIN f \cup {to}
             /\ to \notin DOMAIN f => g[to] = node
<1> DEFINE g == Create(f, {to}, node)
<1>1. Keeps(f, g)
  BY DEF Create, Keeps
<1>2. IsDirectory(g, Parent(to))
  <2> HIDE DEF g
  <2> QED
    BY <1>1, KeepsDirectories
<1>3. IsFiniteSet({to}) /\ {to} \subseteq Paths /\ <<>> \notin {to}
  BY FS_Singleton
<1>4. \A p \in {to} : IsDirectory(g, Parent(p))
  BY <1>2
<1> DEFINE paths == {to}
<1>5. /\ IsFileSystem(Create(f, paths, node)) /\ Keeps(f, Create(f, paths, node))
      /\ DOMAIN Create(f, paths, node) = DOMAIN f \cup paths
      /\ \A p \in paths : p \notin DOMAIN f => Create(f, paths, node)[p] = node
  <2>1. /\ IsFiniteSet(paths) /\ paths \subseteq Paths /\ <<>> \notin paths
        /\ \A p \in paths : IsDirectory(Create(f, paths, node), Parent(p))
    BY <1>3, <1>4
  <2> HIDE DEF paths, g
  <2> QED
    BY <2>1, CreateAdds
<1> QED
  BY <1>5

\* A file is written, or created behind a dangling link.
LEMMA WriteOne ==
  ASSUME NEW f, NEW to, NEW node, IsFileSystem(f), to \in Paths, to # <<>>,
         node \in Nodes, node.kind = "file", IsDirectory(f, Parent(to)),
         to \in DOMAIN f => f[to].kind \in {"file", "dangling"}
  PROVE  LET g == [Create(f, {to}, node) EXCEPT ![to] = node]
         IN  /\ IsFileSystem(g) /\ DOMAIN g = DOMAIN f \cup {to} /\ g[to] = node
             /\ \A p \in DOMAIN f : p # to => g[p] = f[p]
<1> DEFINE new == Create(f, {to}, node)
           g == [new EXCEPT ![to] = node]
<1>1. /\ DOMAIN new = DOMAIN f \cup {to}
      /\ \A p \in DOMAIN new : new[p] = IF p \in DOMAIN f THEN f[p] ELSE node
  BY DEF Create
<1>2. IsFileSystem(new)
  BY CreateOne
<1> HIDE DEF new
<1>3. /\ DOMAIN g = DOMAIN new /\ g[to] = node
      /\ \A p \in DOMAIN new : p # to => g[p] = new[p]
  BY <1>1
<1>4. g = [p \in DOMAIN g |-> g[p]]
  OBVIOUS
<1> HIDE DEF g
<1>5. new[to].kind \in {"file", "dangling"}
  BY <1>1
<1>6. /\ DOMAIN new \subseteq Paths /\ IsFiniteSet(DOMAIN new) /\ new \in [DOMAIN new -> Nodes]
      /\ \A p \in DOMAIN new : IsDirectory(new, Parent(p))
      /\ <<>> \in DOMAIN new => new[<<>>].kind = "dir"
  BY <1>2 DEF IsFileSystem
<1>7. \A p : IsDirectory(new, p) => IsDirectory(g, p)
  BY <1>3, <1>5 DEF IsDirectory
<1>8. g \in [DOMAIN g -> Nodes]
  <2>1. \A p \in DOMAIN g : g[p] \in Nodes
    BY <1>3, <1>6
  <2> QED
    BY <1>4, <2>1
<1>9. <<>> \in DOMAIN g => g[<<>>].kind = "dir"
  BY <1>3, <1>6
<1>10. IsFileSystem(g)
  BY <1>3, <1>6, <1>7, <1>8, <1>9 DEF IsFileSystem
<1> QED
  BY <1>1, <1>3, <1>10 DEF g, new

\* create_directories()
LEMMA CreateLeads ==
  ASSUME NEW f, NEW p, IsFileSystem(f), p \in Paths, ~CannotCreate(f, p)
  PROVE  LET g == CreateDirectories(f, p)
         IN  /\ IsFileSystem(g) /\ Keeps(f, g) /\ DOMAIN g = DOMAIN f \cup Ancestry(p)
             /\ \A q \in Ancestry(p) : IsDirectory(g, q)
             /\ \A q \in DOMAIN g : q \notin DOMAIN f => g[q] = Dir
<1> DEFINE paths == Ancestry(p)
           node == Dir
           g == Create(f, paths, node)
<1>1. /\ paths \subseteq Paths /\ IsFiniteSet(paths) /\ <<>> \notin paths
      /\ \A q \in paths : Parent(q) \in paths \cup {<<>>}
  BY AncestryIs
<1>2. \A q \in paths : q \in DOMAIN f => IsDirectory(f, q)
  BY DEF CannotCreate
<1>3. node.kind = "dir" /\ node \in Nodes
  BY Node DEF Dir, Empty
<1> HIDE DEF paths, node
<1>4. /\ DOMAIN g = DOMAIN f \cup paths
      /\ \A q \in DOMAIN g : g[q] = IF q \in DOMAIN f THEN f[q] ELSE node
  BY DEF Create
<1> HIDE DEF g
<1>5. \A q \in paths : IsDirectory(g, q)
  BY <1>1, <1>2, <1>3, <1>4 DEF IsDirectory
<1>6. \A q \in paths : IsDirectory(g, Parent(q))
  BY <1>1, <1>5 DEF IsDirectory
<1>7. IsFileSystem(g) /\ Keeps(f, g)
  BY <1>1, <1>3, <1>6, CreateAdds DEF g
<1>8. CreateDirectories(f, p) = g
  BY DEF CreateDirectories, g, paths, node
<1> QED
  BY <1>4, <1>5, <1>7, <1>8 DEF paths, node

-------------------------------------------------------------------------------
(* Where a path leads to in the destination. *)

\* Two names that are written after each other.
Glue(d, p) == Front(d) \o <<Last(d) \o Head(p)>> \o Tail(p)

LEMMA NamesGlue ==
  ASSUME NEW a \in Names, NEW b \in Names
  PROVE  a \o b \in Names /\ a \o b # a
<1>1. a \in Seq(STRING) /\ b \in Seq(STRING) /\ Len(a) \in Nat /\ Len(b) \in Nat /\ b # <<>>
  BY DEF Names
<1>2. Len(b) > 0
  BY <1>1
<1>3. a \o b \in Seq(STRING) /\ Len(a \o b) = Len(a) + Len(b)
  BY <1>1
<1>4. Len(a \o b) # Len(a) /\ Len(a \o b) # 0
  BY <1>1, <1>2, <1>3
<1>5. a \o b # <<>> /\ a \o b # a
  BY <1>4
<1> QED
  BY <1>3, <1>5 DEF Names

LEMMA GlueIs ==
  ASSUME NEW d \in Paths, NEW p \in Paths, d # <<>>, p # <<>>
  PROVE  LET m == Len(d)
         IN  /\ Glue(d, p) \in Paths /\ Len(Glue(d, p)) = m + Len(p) - 1
             /\ \A i \in 1 .. m - 1 : Glue(d, p)[i] = d[i]
             /\ Glue(d, p)[m] = d[m] \o p[1]
             /\ \A i \in 1 .. Len(p) - 1 : Glue(d, p)[m + i] = p[1 + i]
<1> DEFINE m == Len(d)
           n == Len(p)
           a == Front(d)
           x == Last(d) \o Head(p)
           b == Tail(p)
<1>1. m \in Nat /\ m > 0 /\ n \in Nat /\ n > 0 /\ m \in 1 .. m /\ 1 \in 1 .. n
  BY PathIs
<1>2. a \in Paths /\ Len(a) = m - 1 /\ \A i \in 1 .. m - 1 : a[i] = d[i]
  BY ParentIs DEF Parent
<1>3. x = d[m] \o p[1] /\ x \in Names
  <2>1. Last(d) = d[m] /\ Last(d) \in Names /\ p[1] \in Names
    BY <1>1, PathIs
  <2>2. Head(p) = p[1]
    BY DEF Paths
  <2> QED
    BY <2>1, <2>2, NamesGlue
<1>4. b \in Paths /\ Len(b) = n - 1 /\ \A i \in 1 .. n - 1 : b[i] = p[1 + i]
  BY <1>1 DEF Paths
<1> HIDE DEF a, b, x, m, n
<1> DEFINE ax == a \o <<x>>
<1>5. /\ ax \in Paths /\ Len(ax) = m /\ ax[m] = x
      /\ \A i \in 1 .. m - 1 : ax[i] = d[i]
  <2> DEFINE name == <<x>>
  <2>1. name \in Paths /\ Len(name) = 1 /\ name[1] = x
    <3>1. x \in Names
      BY <1>3
    <3> QED
      BY <3>1 DEF Paths
  <2> HIDE DEF name
  <2>2. /\ a \o name \in Paths /\ Len(a \o name) = Len(a) + Len(name)
        /\ \A i \in 1 .. Len(a) : (a \o name)[i] = a[i]
        /\ \A i \in 1 .. Len(name) : (a \o name)[Len(a) + i] = name[i]
    BY <1>2, <2>1, ConcatIs
  <2>3. (a \o name)[m] = x
    <3>1. 1 \in 1 .. 1 /\ (m - 1) + 1 = m
      BY <1>1
    <3> QED
      BY <1>1, <1>2, <2>1, <2>2, <3>1
  <2> QED
    BY <1>1, <1>2, <2>1, <2>2, <2>3 DEF name
<1> HIDE DEF ax
<1>6. /\ ax \o b \in Paths /\ Len(ax \o b) = m + (n - 1)
      /\ \A i \in 1 .. m : (ax \o b)[i] = ax[i]
      /\ \A i \in 1 .. n - 1 : (ax \o b)[m + i] = b[i]
  <2>1. /\ ax \o b \in Paths /\ Len(ax \o b) = Len(ax) + Len(b)
        /\ \A i \in 1 .. Len(ax) : (ax \o b)[i] = ax[i]
        /\ \A i \in 1 .. Len(b) : (ax \o b)[Len(ax) + i] = b[i]
    BY <1>4, <1>5, ConcatIs
  <2> QED
    BY <1>1, <1>4, <1>5, <2>1
<1>7. Glue(d, p) = ax \o b
  BY DEF Glue, ax, a, b, x
<1>8. m \in 1 .. m /\ \A i \in 1 .. m - 1 : i \in 1 .. m
  BY <1>1
<1>9. /\ Glue(d, p) \in Paths /\ Len(Glue(d, p)) = m + n - 1
      /\ \A i \in 1 .. m - 1 : Glue(d, p)[i] = d[i]
      /\ Glue(d, p)[m] = d[m] \o p[1]
      /\ \A i \in 1 .. n - 1 : Glue(d, p)[m + i] = p[1 + i]
  BY <1>1, <1>3, <1>4, <1>5, <1>6, <1>7, <1>8
<1> QED
  BY <1>9 DEF m, n

LEMMA AfterNone ==
  ASSUME NEW p \in Paths
  PROVE  After(p, 0) = p
<1>1. Len(p) \in Nat
  BY PathIs
<1>2. /\ After(p, 0) \in Paths /\ Len(After(p, 0)) = Len(p)
      /\ \A i \in 1 .. Len(p) : After(p, 0)[i] = p[i]
  BY <1>1, AfterIs
<1> QED
  BY <1>2, PathsAreEqual

\* The four forms of a destination.
LEMMA DestIs ==
  ASSUME NEW p \in Paths, destination \in Paths \cup {Unset}
  PROVE  /\ destination # Unset =>
              /\ \A n \in Nat : parentPathLength = 2 * n =>
                   GetRelativeDest(p) = destination \o After(p, n)
              /\ parentPathLength = 1 /\ destination = <<>> => GetRelativeDest(p) = p
              /\ parentPathLength = 1 /\ destination # <<>> =>
                   GetRelativeDest(p) = Glue(destination, p)
         /\ destination = Unset =>
              /\ \A n \in Nat : parentPathLength = 2 * n => GetRelativeDest(p) = After(p, n)
              /\ parentPathLength = 1 => GetRelativeDest(p) = WorkingDir \o p
<1> DEFINE rest == SubSeq(p, (parentPathLength \div 2) + 1, Len(p))
<1>1. \A n \in Nat : parentPathLength = 2 * n => parentPathLength \div 2 = n /\ parentPathLength # 1
  BY SMT
<1>2. \A n \in Nat : parentPathLength = 2 * n => rest = After(p, n)
  BY <1>1 DEF After
<1>3. parentPathLength = 1 => rest = p
  <2>1. parentPathLength = 1 => parentPathLength \div 2 = 0
    BY SMT
  <2>2. parentPathLength = 1 => rest = After(p, 0)
    BY <2>1 DEF After
  <2> QED
    BY <2>2, AfterNone
<1>4. GetRelativeDest(p) =
        IF parentPathLength # 1
        THEN (IF destination = Unset THEN <<>> ELSE destination) \o rest
        ELSE IF destination = Unset THEN WorkingDir \o rest
        ELSE IF destination = <<>> THEN rest
        ELSE Front(destination) \o <<Last(destination) \o Head(rest)>> \o Tail(rest)
  BY DEF GetRelativeDest
<1>5. \A n \in Nat : <<>> \o After(p, n) = After(p, n)
  BY DEF After, Paths
<1> HIDE DEF rest
<1> QED
  BY <1>1, <1>2, <1>3, <1>4, <1>5, UnsetIsNoPath DEF Glue

\* What the length of a path's text can be.
IsCut == parentPathLength = 1 \/ \E n \in Nat : parentPathLength = 2 * n

LEMMA MeasureIs ==
  ASSUME NEW p \in Paths
  PROVE  Measure(p) = IF Len(p) <= 1 THEN 1 ELSE 2 * (Len(p) - 1)
<1>1. Len(p) \in Nat
  BY PathIs
<1>2. p = <<>> => Parent(p) = <<>>
  BY DEF Parent
<1>3. p # <<>> => Parent(p) \in Paths /\ Len(Parent(p)) = Len(p) - 1
  BY ParentIs
<1>4. p = <<>> <=> Len(p) = 0
  BY PathIs
<1>5. \A q \in Paths : q = <<>> <=> Len(q) = 0
  BY PathIs
<1> QED
  BY <1>1, <1>2, <1>3, <1>4, <1>5 DEF Measure, TextLength

\* A path that is long enough leads to a path.
LEMMA DestIsPath ==
  ASSUME NEW p \in Paths, p # <<>>, destination \in Paths \cup {Unset}, IsCut, ~CannotStrip(p)
  PROVE  GetRelativeDest(p) \in Paths
<1>1. Len(p) \in Nat /\ Len(p) > 0 /\ TextLength(p) = 2 * Len(p)
  BY PathIs DEF TextLength
<1>2. CASE parentPathLength = 1
  <2>1. destination # <<>> /\ destination # Unset => Glue(destination, p) \in Paths
    BY GlueIs
  <2>2. WorkingDir \o p \in Paths
    BY ConcatIs, StagingAssumption
  <2> QED
    BY <1>2, <2>1, <2>2, DestIs
<1>3. CASE \E n \in Nat : parentPathLength = 2 * n
  <2>1. PICK n \in Nat : parentPathLength = 2 * n
    BY <1>3
  <2>2. n <= Len(p)
    BY <1>1, <2>1 DEF CannotStrip
  <2>3. After(p, n) \in Paths
    BY <2>2, AfterIs
  <2>4. destination # Unset => destination \o After(p, n) \in Paths
    BY <2>3, ConcatIs
  <2> QED
    BY <2>1, <2>3, <2>4, DestIs
<1> QED
  BY <1>2, <1>3 DEF IsCut

\* A TreeSlinger that was set up once.
Placed == source \in Paths /\ destination \in Paths /\ parentPathLength = Measure(source)

LEMMA CutIs ==
  ASSUME source \in Paths, parentPathLength = Measure(source)
  PROVE  /\ IsCut
         /\ Len(source) > 1 => /\ Len(source) - 1 \in Nat
                               /\ parentPathLength = 2 * (Len(source) - 1)
         /\ Len(source) <= 1 => parentPathLength = 1
         /\ \A p \in Paths : Below(source, p) => p # <<>> /\ ~CannotStrip(p)
<1>1. Len(source) \in Nat
  BY PathIs
<1>2. parentPathLength = IF Len(source) <= 1 THEN 1 ELSE 2 * (Len(source) - 1)
  BY MeasureIs
<1>3. ASSUME NEW p \in Paths, Below(source, p) PROVE p # <<>> /\ ~CannotStrip(p)
  <2>1. Len(p) \in Nat /\ Len(source) < Len(p) /\ p # <<>>
    BY <1>1, <1>3, PathIs, BelowIs
  <2>2. TextLength(p) = 2 * Len(p)
    BY <2>1 DEF TextLength
  <2> QED
    BY <1>1, <1>2, <2>1, <2>2 DEF CannotStrip
<1>4. Len(source) > 1 => Len(source) - 1 \in Nat
  BY <1>1
<1>5. IsCut
  <2>1. CASE Len(source) <= 1
    BY <1>2, <2>1 DEF IsCut
  <2>2. CASE ~(Len(source) <= 1)
    <3> DEFINE n == Len(source) - 1
    <3>1. n \in Nat /\ parentPathLength = 2 * n
      BY <1>1, <1>2, <2>2
    <3> HIDE DEF n
    <3> QED
      BY <3>1 DEF IsCut
  <2> QED
    BY <2>1, <2>2
<1> QED
  BY <1>1, <1>2, <1>3, <1>4, <1>5

\* Names and length of what p leads to.
LeadsTo(p, r) ==
  /\ r \in Paths /\ r # <<>>
  /\ Len(source) > 1 =>
       /\ Len(r) = Len(destination) + Len(p) - (Len(source) - 1)
       /\ \A i \in 1 .. Len(destination) : r[i] = destination[i]
       /\ \A i \in 1 .. Len(p) - (Len(source) - 1) :
            r[Len(destination) + i] = p[(Len(source) - 1) + i]
  /\ Len(source) <= 1 /\ destination = <<>> => r = p
  /\ Len(source) <= 1 /\ destination # <<>> =>
       /\ Len(r) = Len(destination) + Len(p) - 1
       /\ \A i \in 1 .. Len(destination) - 1 : r[i] = destination[i]
       /\ r[Len(destination)] = destination[Len(destination)] \o p[1]
       /\ r[Len(destination)] # destination[Len(destination)]
       /\ \A i \in 1 .. Len(p) - 1 : r[Len(destination) + i] = p[1 + i]

\* That of a path below the source, or of the source itself.
LEMMA DestNames ==
  ASSUME Placed, NEW p \in Paths, p # <<>>, Len(source) <= Len(p)
  PROVE  LeadsTo(p, GetRelativeDest(p))
<1> DEFINE d == Len(destination)
           r == GetRelativeDest(p)
           c == Len(source) - 1
<1>1. /\ Len(source) \in Nat /\ d \in Nat /\ Len(p) \in Nat /\ Len(p) > 0
      /\ (destination = <<>> <=> d = 0)
  BY PathIs DEF Placed
<1>2. destination \in Paths /\ destination # Unset /\ source \in Paths
  BY UnsetIsNoPath DEF Placed
<1>3. CASE Len(source) > 1
  <2>1. c \in Nat /\ parentPathLength = 2 * c
    BY <1>2, <1>3, CutIs DEF Placed
  <2>2. r = destination \o After(p, c)
    BY <1>2, <2>1, DestIs
  <2>3. c \in Nat /\ c <= Len(p) /\ Len(source) = c + 1
    BY <1>1, <1>3, <2>1
  <2> DEFINE a == After(p, c)
  <2> HIDE DEF r, c
  <2>4. a \in Paths /\ Len(a) = Len(p) - c /\ \A i \in 1 .. Len(p) - c : a[i] = p[c + i]
    BY <1>1, <2>3, AfterIs
  <2> HIDE DEF a
  <2>5. /\ r \in Paths /\ Len(r) = Len(destination) + Len(a)
        /\ \A i \in 1 .. Len(destination) : r[i] = destination[i]
        /\ \A i \in 1 .. Len(a) : r[Len(destination) + i] = a[i]
    BY <1>2, <2>2, <2>4, ConcatIs DEF a
  <2> HIDE DEF d
  <2>6. /\ Len(r) = d + Len(p) - c
        /\ \A i \in 1 .. d : r[i] = destination[i]
        /\ \A i \in 1 .. Len(p) - c : r[d + i] = p[c + i]
    BY <1>1, <2>3, <2>4, <2>5 DEF d
  <2>7. r # <<>>
    <3>1. Len(r) > 0
      BY <1>1, <2>3, <2>6
    <3> QED
      BY <2>5, <3>1, PathIs
  <2>8. ~(Len(source) <= 1)
    BY <1>1, <1>3
  <2>9. LeadsTo(p, r)
    BY <1>3, <2>5, <2>6, <2>7, <2>8 DEF LeadsTo, c, d
  <2> QED
    BY <2>9 DEF r
<1>4. CASE Len(source) <= 1
  <2>1. parentPathLength = 1
    BY <1>2, <1>4, CutIs DEF Placed
  <2>2. CASE destination = <<>>
    <3>1. r = p
      BY <1>2, <2>1, <2>2, DestIs
    <3>2. ~(Len(source) > 1)
      BY <1>1, <1>4
    <3> HIDE DEF r
    <3>3. LeadsTo(p, r)
      BY <1>1, <2>2, <3>1, <3>2 DEF LeadsTo
    <3> QED
      BY <3>3 DEF r
  <2>3. CASE destination # <<>>
    <3>1. r = Glue(destination, p)
      BY <1>2, <2>1, <2>3, DestIs
    <3> HIDE DEF r
    <3>2. /\ r \in Paths /\ Len(r) = d + Len(p) - 1
          /\ \A i \in 1 .. d - 1 : r[i] = destination[i]
          /\ r[d] = destination[d] \o p[1]
          /\ \A i \in 1 .. Len(p) - 1 : r[d + i] = p[1 + i]
      BY <1>2, <2>3, <3>1, GlueIs
    <3>3. r[d] # destination[d]
      <4>1. d \in 1 .. d /\ 1 \in 1 .. Len(p)
        BY <1>1, <2>3
      <4>2. destination[d] \in Names /\ p[1] \in Names
        BY <1>2, <4>1, PathIs
      <4> QED
        BY <3>2, <4>2, NamesGlue
    <3>4. r # <<>>
      BY <1>1, <2>3, <3>2, PathIs
    <3>5. ~(Len(source) > 1)
      BY <1>1, <1>4
    <3>6. LeadsTo(p, r)
      BY <2>3, <3>2, <3>3, <3>4, <3>5 DEF LeadsTo
    <3> QED
      BY <3>6 DEF r
  <2> QED
    BY <2>2, <2>3
<1>5. Len(source) > 1 \/ Len(source) <= 1
  BY <1>1
<1> QED
  BY <1>3, <1>4, <1>5

\* The directory of a place is the place of the directory.
LEMMA ParentOfDest ==
  ASSUME Placed, NEW p \in Paths, Below(source, p), Len(p) > 1
  PROVE  Parent(GetRelativeDest(p)) = GetRelativeDest(Parent(p))
<1> DEFINE d == Len(destination)
           r == GetRelativeDest(p)
           a == Parent(r)
           b == GetRelativeDest(Parent(p))
           c == Len(source) - 1
<1>1. /\ Len(source) \in Nat /\ d \in Nat /\ Len(p) \in Nat /\ p # <<>>
      /\ (destination = <<>> <=> d = 0)
      /\ Len(source) < Len(p) /\ source \in Paths /\ destination \in Paths
  BY PathIs, BelowIs DEF Placed
<1>2. /\ Parent(p) \in Paths /\ Len(Parent(p)) = Len(p) - 1 /\ Parent(p) # <<>>
      /\ \A i \in 1 .. Len(p) - 1 : Parent(p)[i] = p[i]
  <2>1. /\ Parent(p) \in Paths /\ Len(Parent(p)) = Len(p) - 1
        /\ \A i \in 1 .. Len(p) - 1 : Parent(p)[i] = p[i]
    BY <1>1, ParentIs
  <2> QED
    BY <1>1, <2>1, PathIs
<1>3. LeadsTo(p, r)
  <2>1. Len(source) <= Len(p)
    BY <1>1
  <2> QED
    BY <1>1, <2>1, DestNames
<1>4. LeadsTo(Parent(p), b)
  <2> DEFINE q == Parent(p)
  <2>1. q \in Paths /\ q # <<>> /\ Len(source) <= Len(q)
    BY <1>1, <1>2
  <2> HIDE DEF q
  <2>2. LeadsTo(q, GetRelativeDest(q))
    BY <2>1, DestNames
  <2> QED
    BY <2>2 DEF q
<1> HIDE DEF r, b
<1>5. /\ a \in Paths /\ Len(a) = Len(r) - 1
      /\ \A i \in 1 .. Len(r) - 1 : a[i] = r[i]
  BY <1>3, ParentIs DEF LeadsTo
<1>6. Len(r) \in Nat /\ r \in Paths /\ b \in Paths
  BY <1>3, <1>4, PathIs DEF LeadsTo
<1> HIDE DEF a
<1> DEFINE q == Parent(p)
<1>7. /\ Len(q) = Len(p) - 1 /\ LeadsTo(q, b)
      /\ \A i \in 1 .. Len(p) - 1 : q[i] = p[i]
  BY <1>2, <1>4
<1> HIDE DEF q
<1>8. CASE Len(source) > 1
  <2>1. c \in Nat /\ Len(p) - c \in Nat /\ Len(p) - c > 1
    BY <1>1, <1>8
  <2> HIDE DEF c
  <2>2. /\ Len(r) = d + Len(p) - c
        /\ \A i \in 1 .. d : r[i] = destination[i]
        /\ \A i \in 1 .. Len(p) - c : r[d + i] = p[c + i]
    BY <1>3, <1>8 DEF LeadsTo, c
  <2>3. /\ Len(b) = d + Len(q) - c
        /\ \A i \in 1 .. d : b[i] = destination[i]
        /\ \A i \in 1 .. Len(q) - c : b[d + i] = q[c + i]
    BY <1>7, <1>8 DEF LeadsTo, c
  <2> HIDE DEF d
  <2>4. Len(a) = Len(b) /\ Len(b) = d + (Len(p) - 1) - c
    BY <1>1, <1>5, <1>7, <2>1, <2>2, <2>3
  <2>5. ASSUME NEW i \in 1 .. Len(b) PROVE a[i] = b[i]
    <3>1. i \in 1 .. Len(r) - 1
      BY <1>1, <1>5, <1>6, <2>4
    <3>2. a[i] = r[i]
      BY <1>5, <3>1
    <3>3. CASE i <= d
      <4>1. i \in 1 .. d
        BY <1>1, <3>1, <3>3
      <4> QED
        BY <2>2, <2>3, <3>2, <4>1
    <3>4. CASE i > d
      <4> DEFINE j == i - d
      <4>1. /\ j \in 1 .. Len(q) - c /\ j \in 1 .. Len(p) - c /\ d + j = i
            /\ c + j \in 1 .. Len(p) - 1
        BY <1>1, <1>7, <2>1, <2>4, <3>4
      <4> HIDE DEF j
      <4>2. r[i] = p[c + j] /\ b[i] = q[c + j]
        BY <2>2, <2>3, <4>1
      <4>3. q[c + j] = p[c + j]
        BY <1>7, <4>1
      <4> QED
        BY <3>2, <4>2, <4>3
    <3> QED
      BY <1>1, <3>1, <3>3, <3>4
  <2> QED
    BY <1>5, <1>6, <2>4, <2>5, PathsAreEqual DEF a, b, r
<1>9. CASE Len(source) <= 1 /\ destination = <<>>
  <2>1. r = p /\ b = q
    BY <1>3, <1>7, <1>9 DEF LeadsTo
  <2> QED
    BY <2>1 DEF a, b, q, r
<1>10. CASE Len(source) <= 1 /\ destination # <<>>
  <2>1. d > 0
    BY <1>1, <1>10
  <2>2. /\ Len(r) = d + Len(p) - 1
        /\ \A i \in 1 .. d - 1 : r[i] = destination[i]
        /\ r[d] = destination[d] \o p[1]
        /\ \A i \in 1 .. Len(p) - 1 : r[d + i] = p[1 + i]
    BY <1>3, <1>10 DEF LeadsTo
  <2>3. /\ Len(b) = d + Len(q) - 1
        /\ \A i \in 1 .. d - 1 : b[i] = destination[i]
        /\ b[d] = destination[d] \o q[1]
        /\ \A i \in 1 .. Len(q) - 1 : b[d + i] = q[1 + i]
    BY <1>7, <1>10 DEF LeadsTo
  <2> HIDE DEF d
  <2>4. Len(a) = Len(b) /\ Len(b) = d + (Len(p) - 1) - 1
    BY <1>1, <1>5, <1>7, <2>2, <2>3
  <2>5. q[1] = p[1]
    <3>1. 1 \in 1 .. Len(p) - 1
      BY <1>1
    <3> QED
      BY <1>7, <3>1
  <2>6. ASSUME NEW i \in 1 .. Len(b) PROVE a[i] = b[i]
    <3>1. i \in 1 .. Len(r) - 1
      BY <1>1, <1>5, <1>6, <2>4
    <3>2. a[i] = r[i]
      BY <1>5, <3>1
    <3>3. CASE i < d
      <4>1. i \in 1 .. d - 1
        BY <1>1, <3>1, <3>3
      <4> QED
        BY <2>2, <2>3, <3>2, <4>1
    <3>4. CASE i = d
      BY <2>2, <2>3, <2>5, <3>2, <3>4
    <3>5. CASE i > d
      <4> DEFINE j == i - d
      <4>1. /\ j \in 1 .. Len(q) - 1 /\ j \in 1 .. Len(p) - 1 /\ d + j = i
            /\ 1 + j \in 1 .. Len(p) - 1
        BY <1>1, <1>7, <2>1, <2>4, <3>5
      <4> HIDE DEF j
      <4>2. r[i] = p[1 + j] /\ b[i] = q[1 + j]
        BY <2>2, <2>3, <4>1
      <4>3. q[1 + j] = p[1 + j]
        BY <1>7, <4>1
      <4> QED
        BY <3>2, <4>2, <4>3
    <3> QED
      BY <1>1, <3>1, <3>3, <3>4, <3>5
  <2> QED
    BY <1>5, <1>6, <2>4, <2>6, PathsAreEqual DEF a, b, r
<1>11. Len(source) > 1 \/ Len(source) <= 1
  BY <1>1
<1> QED
  BY <1>8, <1>9, <1>10, <1>11

\* No two paths of the tree lead to one place.
LEMMA DestInjective ==
  ASSUME Placed, source # <<>>, NEW p \in Paths, Below(source, p), NEW q \in Paths,
         Below(source, q), GetRelativeDest(p) = GetRelativeDest(q)
  PROVE  p = q
<1> DEFINE d == Len(destination)
           r == GetRelativeDest(p)
           c == Len(source) - 1
<1>1. /\ Len(source) \in Nat /\ Len(source) > 0 /\ d \in Nat /\ Len(p) \in Nat /\ Len(q) \in Nat
      /\ p # <<>> /\ q # <<>> /\ (destination = <<>> <=> d = 0)
      /\ Len(source) < Len(p) /\ Len(source) < Len(q)
      /\ \A i \in 1 .. Len(source) : p[i] = source[i] /\ q[i] = source[i]
  <2>1. source \in Paths /\ destination \in Paths
    BY DEF Placed
  <2>2. /\ Len(source) < Len(p) /\ \A i \in 1 .. Len(source) : source[i] = p[i]
        /\ Len(source) < Len(q) /\ \A i \in 1 .. Len(source) : source[i] = q[i]
    BY <2>1, BelowIs
  <2> QED
    BY <2>1, <2>2, PathIs
<1>2. /\ Len(source) > 1 =>
           /\ Len(r) = d + Len(p) - c
           /\ \A i \in 1 .. Len(p) - c : r[d + i] = p[c + i]
      /\ Len(source) <= 1 /\ destination = <<>> => r = p
      /\ Len(source) <= 1 /\ destination # <<>> =>
           /\ Len(r) = d + Len(p) - 1
           /\ \A i \in 1 .. Len(p) - 1 : r[d + i] = p[1 + i]
  <2>1. LeadsTo(p, r)
    <3>1. Len(source) <= Len(p)
      BY <1>1
    <3> QED
      BY <1>1, <3>1, DestNames
  <2> QED
    BY <2>1 DEF LeadsTo
<1>3. /\ Len(source) > 1 =>
           /\ Len(r) = d + Len(q) - c
           /\ \A i \in 1 .. Len(q) - c : r[d + i] = q[c + i]
      /\ Len(source) <= 1 /\ destination = <<>> => r = q
      /\ Len(source) <= 1 /\ destination # <<>> =>
           /\ Len(r) = d + Len(q) - 1
           /\ \A i \in 1 .. Len(q) - 1 : r[d + i] = q[1 + i]
  <2> DEFINE s == GetRelativeDest(q)
  <2>1. r = s
    OBVIOUS
  <2> HIDE DEF r
  <2>2. /\ Len(source) > 1 =>
             /\ Len(s) = d + Len(q) - c
             /\ \A i \in 1 .. Len(q) - c : s[d + i] = q[c + i]
        /\ Len(source) <= 1 /\ destination = <<>> => s = q
        /\ Len(source) <= 1 /\ destination # <<>> =>
             /\ Len(s) = d + Len(q) - 1
             /\ \A i \in 1 .. Len(q) - 1 : s[d + i] = q[1 + i]
    <3>1. Len(source) <= Len(q)
      BY <1>1
    <3>2. LeadsTo(q, s)
      BY <1>1, <3>1, DestNames
    <3> QED
      BY <3>2 DEF LeadsTo
  <2> HIDE DEF s
  <2> QED
    BY <2>1, <2>2
<1> HIDE DEF r, d
<1>4. CASE Len(source) > 1
  <2>1. Len(p) = Len(q)
    BY <1>1, <1>2, <1>3, <1>4
  <2>2. ASSUME NEW i \in 1 .. Len(p) PROVE p[i] = q[i]
    <3>1. CASE i <= c
      BY <1>1, <3>1
    <3>2. CASE i > c
      <4> DEFINE j == i - c
      <4>1. j \in 1 .. Len(p) - c /\ c + j = i
        BY <1>1, <1>4, <3>2
      <4> HIDE DEF j
      <4> QED
        BY <1>2, <1>3, <1>4, <2>1, <4>1
    <3> QED
      BY <1>1, <3>1, <3>2
  <2> QED
    BY <2>1, <2>2, PathsAreEqual
<1>5. CASE Len(source) <= 1 /\ destination = <<>>
  BY <1>2, <1>3, <1>5
<1>6. CASE Len(source) <= 1 /\ destination # <<>>
  <2>1. Len(p) = Len(q)
    BY <1>1, <1>2, <1>3, <1>6
  <2>2. ASSUME NEW i \in 1 .. Len(p) PROVE p[i] = q[i]
    <3>1. CASE i = 1
      BY <1>1, <3>1
    <3>2. CASE i > 1
      <4> DEFINE j == i - 1
      <4>1. j \in 1 .. Len(p) - 1 /\ 1 + j = i
        BY <1>1, <3>2
      <4> HIDE DEF j
      <4> QED
        BY <1>2, <1>3, <1>6, <2>1, <4>1
    <3> QED
      BY <1>1, <3>1, <3>2
  <2> QED
    BY <2>1, <2>2, PathsAreEqual
<1> QED
  BY <1>1, <1>4, <1>5, <1>6

\* A mirrored tree is below the destination, under its own name.
LEMMA DestMirrored ==
  ASSUME Placed, source # <<>>, IsMirrored, NEW p \in Paths, Below(source, p)
  PROVE  GetRelativeDest(p) = Mirror(p)
<1> DEFINE d == Len(destination)
           r == GetRelativeDest(p)
           c == Len(source) - 1
           m == Mirror(p)
           name == <<Last(source)>>
           rest == After(p, Len(source))
<1>1. /\ Len(source) \in Nat /\ Len(source) > 0 /\ d \in Nat /\ Len(p) \in Nat
      /\ p # <<>> /\ (destination = <<>> <=> d = 0)
      /\ Len(source) < Len(p)
      /\ \A i \in 1 .. Len(source) : p[i] = source[i]
      /\ source \in Paths /\ destination \in Paths
  <2>1. source \in Paths /\ destination \in Paths
    BY DEF Placed
  <2>2. Len(source) < Len(p) /\ \A i \in 1 .. Len(source) : source[i] = p[i]
    BY <2>1, BelowIs
  <2> QED
    BY <2>1, <2>2, PathIs
<1>2. /\ r \in Paths
      /\ Len(source) > 1 =>
           /\ Len(r) = d + Len(p) - c
           /\ \A i \in 1 .. d : r[i] = destination[i]
           /\ \A i \in 1 .. Len(p) - c : r[d + i] = p[c + i]
      /\ Len(source) <= 1 /\ destination = <<>> => r = p
  <2>1. LeadsTo(p, r)
    <3>1. Len(source) <= Len(p)
      BY <1>1
    <3> QED
      BY <1>1, <3>1, DestNames
  <2> QED
    BY <2>1 DEF LeadsTo
<1>3. name \in Paths /\ Len(name) = 1 /\ name[1] = p[c + 1]
  <2>1. Last(source) = source[Len(source)] /\ Last(source) \in Names
    BY <1>1, PathIs
  <2>2. Len(source) \in 1 .. Len(source)
    BY <1>1
  <2>3. source[Len(source)] = p[Len(source)]
    BY <1>1, <2>2
  <2>4. c + 1 = Len(source)
    BY <1>1
  <2> QED
    BY <2>1, <2>3, <2>4 DEF Paths
<1>4. /\ rest \in Paths /\ Len(rest) = Len(p) - Len(source)
      /\ \A i \in 1 .. Len(p) - Len(source) : rest[i] = p[Len(source) + i]
  <2> DEFINE n == Len(source)
  <2>1. n \in Nat /\ n <= Len(p)
    BY <1>1
  <2> HIDE DEF n
  <2>2. /\ After(p, n) \in Paths /\ Len(After(p, n)) = Len(p) - n
        /\ \A i \in 1 .. Len(p) - n : After(p, n)[i] = p[n + i]
    BY <2>1, AfterIs
  <2> QED
    BY <2>2 DEF n
<1> DEFINE front == destination \o name
<1>5. /\ front \in Paths /\ Len(front) = d + 1
      /\ \A i \in 1 .. d : front[i] = destination[i]
      /\ front[d + 1] = p[c + 1]
  <2> HIDE DEF name
  <2>1. /\ front \in Paths /\ Len(front) = Len(destination) + Len(name)
        /\ \A i \in 1 .. Len(destination) : front[i] = destination[i]
        /\ \A i \in 1 .. Len(name) : front[Len(destination) + i] = name[i]
    BY <1>1, <1>3, ConcatIs
  <2>2. 1 \in 1 .. Len(name)
    BY <1>3
  <2> QED
    BY <1>3, <2>1, <2>2
<1>6. m = front \o rest
  BY DEF Mirror, After
<1> HIDE DEF m, front, rest, r
<1>7. /\ m \in Paths /\ Len(m) = (d + 1) + (Len(p) - Len(source))
      /\ \A i \in 1 .. d : m[i] = destination[i]
      /\ m[d + 1] = p[c + 1]
      /\ \A i \in 1 .. Len(p) - Len(source) : m[(d + 1) + i] = p[Len(source) + i]
  <2>0. /\ m \in Paths /\ Len(m) = Len(front) + Len(rest)
        /\ \A i \in 1 .. Len(front) : m[i] = front[i]
        /\ \A i \in 1 .. Len(rest) : m[Len(front) + i] = rest[i]
    BY <1>4, <1>5, <1>6, ConcatIs
  <2>1. /\ m \in Paths /\ Len(m) = (d + 1) + (Len(p) - Len(source))
        /\ \A i \in 1 .. d + 1 : m[i] = front[i]
        /\ \A i \in 1 .. Len(p) - Len(source) : m[(d + 1) + i] = rest[i]
    BY <1>4, <1>5, <2>0
  <2> QED
    BY <1>1, <1>4, <1>5, <2>1
<1>8. \A i \in 1 .. Len(p) - c : m[d + i] = p[c + i]
  <2> TAKE i \in 1 .. Len(p) - c
  <2>1. CASE i = 1
    BY <1>7, <2>1
  <2>2. CASE i # 1
    <3> DEFINE j == i - 1
    <3>1. /\ j \in 1 .. Len(p) - Len(source) /\ (d + 1) + j = d + i
          /\ Len(source) + j = c + i
      BY <1>1, <2>2
    <3> HIDE DEF j
    <3> QED
      BY <1>7, <3>1
  <2> QED
    BY <2>1, <2>2
<1>9. CASE Len(source) > 1
  <2>1. Len(r) = Len(m) /\ Len(r) = d + Len(p) - c
    BY <1>1, <1>2, <1>7, <1>9
  <2>2. ASSUME NEW i \in 1 .. Len(r) PROVE r[i] = m[i]
    <3>1. CASE i <= d
      BY <1>1, <1>2, <1>7, <1>9, <3>1
    <3>2. CASE i > d
      <4> DEFINE j == i - d
      <4>1. j \in 1 .. Len(p) - c /\ d + j = i
        BY <1>1, <2>1, <3>2
      <4> HIDE DEF j
      <4> QED
        BY <1>2, <1>8, <1>9, <4>1
    <3> QED
      BY <1>1, <2>1, <3>1, <3>2
  <2> QED
    BY <1>2, <1>7, <2>1, <2>2, PathsAreEqual DEF r, m
<1>10. CASE Len(source) <= 1
  <2>1. destination = <<>> /\ d = 0 /\ c = 0
    <3> DEFINE k == Len(source)
    <3>0. k \in Nat /\ k > 0 /\ k <= 1
      BY <1>1, <1>10
    <3>1. ~(k > 1) /\ k = 1
      <4> HIDE DEF k
      <4> QED
        BY <3>0
    <3>2. destination = <<>>
      BY <3>1 DEF IsMirrored
    <3> QED
      BY <1>1, <3>1, <3>2
  <2>2. r = p /\ Len(m) = Len(p)
    BY <1>1, <1>2, <1>7, <1>10, <2>1
  <2>3. \A i \in 1 .. Len(p) : m[i] = p[i]
    <3>1. Len(p) - c = Len(p)
      <4> HIDE DEF c
      <4>1. Len(p) \in Nat
        BY <1>1
      <4> QED
        BY <2>1, <4>1
    <3> QED
      BY <1>1, <1>8, <2>1, <3>1
  <2> QED
    BY <1>7, <2>2, <2>3, PathsAreEqual DEF r, m
<1> QED
  BY <1>1, <1>9, <1>10

\* One that is not is not below the destination.
LEMMA DestBeside ==
  ASSUME Placed, source # <<>>, ~IsMirrored, NEW p \in Paths, Below(source, p)
  PROVE  ~IsPrefix(destination, GetRelativeDest(p))
<1> DEFINE r == GetRelativeDest(p)
           d == Len(destination)
<1>1. /\ Len(source) \in Nat /\ Len(source) <= 1 /\ destination # <<>> /\ destination \in Paths
      /\ d \in Nat /\ d > 0
  BY PathIs DEF Placed, IsMirrored
<1>2. p # <<>> /\ Len(source) <= Len(p)
  BY <1>1, PathIs, BelowIs DEF Placed
<1>3. r \in Paths /\ r[d] # destination[d]
  BY <1>1, <1>2, DestNames DEF LeadsTo
<1>4. d \in 1 .. d
  BY <1>1
<1> HIDE DEF r
<1>5. ~IsPrefix(destination, r)
  BY <1>1, <1>3, <1>4, PrefixIs
<1> QED
  BY <1>5 DEF r

\* What the tree itself leads to leads to all below it.
LEMMA DestLeads ==
  ASSUME Placed, source # <<>>, NEW p \in Paths, Below(source, p)
  PROVE  GetRelativeDest(source) \in Ancestry(GetRelativeDest(p))
<1> DEFINE d == Len(destination)
           r == GetRelativeDest(p)
           s == GetRelativeDest(source)
           c == Len(source) - 1
<1>1. /\ Len(source) \in Nat /\ Len(source) > 0 /\ d \in Nat /\ Len(p) \in Nat
      /\ p # <<>> /\ (destination = <<>> <=> d = 0)
      /\ Len(source) < Len(p)
      /\ \A i \in 1 .. Len(source) : p[i] = source[i]
      /\ source \in Paths /\ destination \in Paths
  <2>1. source \in Paths /\ destination \in Paths
    BY DEF Placed
  <2>2. Len(source) < Len(p) /\ \A i \in 1 .. Len(source) : source[i] = p[i]
    BY <2>1, BelowIs
  <2> QED
    BY <2>1, <2>2, PathIs
<1>2. /\ r \in Paths
      /\ Len(source) > 1 =>
           /\ Len(r) = d + Len(p) - c
           /\ \A i \in 1 .. d : r[i] = destination[i]
           /\ \A i \in 1 .. Len(p) - c : r[d + i] = p[c + i]
      /\ Len(source) <= 1 /\ destination = <<>> => r = p
      /\ Len(source) <= 1 /\ destination # <<>> =>
           /\ Len(r) = d + Len(p) - 1
           /\ \A i \in 1 .. d - 1 : r[i] = destination[i]
           /\ r[d] = destination[d] \o p[1]
  <2>1. LeadsTo(p, r)
    <3>1. Len(source) <= Len(p)
      BY <1>1
    <3> QED
      BY <1>1, <3>1, DestNames
  <2> QED
    BY <2>1 DEF LeadsTo
<1>3. /\ s \in Paths /\ s # <<>>
      /\ Len(source) > 1 =>
           /\ Len(s) = d + Len(source) - c
           /\ \A i \in 1 .. d : s[i] = destination[i]
           /\ \A i \in 1 .. Len(source) - c : s[d + i] = source[c + i]
      /\ Len(source) <= 1 /\ destination = <<>> => s = source
      /\ Len(source) <= 1 /\ destination # <<>> =>
           /\ Len(s) = d + Len(source) - 1
           /\ \A i \in 1 .. d - 1 : s[i] = destination[i]
           /\ s[d] = destination[d] \o source[1]
  <2>1. LeadsTo(source, s)
    BY <1>1, DestNames
  <2> QED
    BY <2>1 DEF LeadsTo
<1> HIDE DEF r, s, d
<1>4. Len(s) \in 1 .. Len(r) /\ \A i \in 1 .. Len(s) : s[i] = r[i]
  <2>1. CASE Len(source) > 1
    <3>1. Len(s) = d + 1 /\ Len(s) \in 1 .. Len(r)
      BY <1>1, <1>2, <1>3, <2>1
    <3>2. s[d + 1] = r[d + 1]
      <4>1. 1 \in 1 .. Len(source) - c /\ 1 \in 1 .. Len(p) - c /\ c + 1 \in 1 .. Len(source)
        BY <1>1
      <4> QED
        BY <1>1, <1>2, <1>3, <2>1, <4>1
    <3>3. ASSUME NEW i \in 1 .. Len(s) PROVE s[i] = r[i]
      <4>1. CASE i <= d
        BY <1>1, <1>2, <1>3, <2>1, <4>1
      <4>2. CASE i = d + 1
        BY <3>2, <4>2
      <4> QED
        BY <1>1, <3>1, <4>1, <4>2
    <3> QED
      BY <3>1, <3>3
  <2>2. CASE Len(source) <= 1 /\ destination = <<>>
    BY <1>1, <1>2, <1>3, <2>2
  <2>3. CASE Len(source) <= 1 /\ destination # <<>>
    <3>1. Len(s) = d /\ Len(s) \in 1 .. Len(r)
      BY <1>1, <1>2, <1>3, <2>3
    <3>2. s[d] = r[d]
      <4>1. 1 \in 1 .. Len(source)
        BY <1>1
      <4> QED
        BY <1>1, <1>2, <1>3, <2>3, <4>1
    <3>3. ASSUME NEW i \in 1 .. Len(s) PROVE s[i] = r[i]
      <4>1. CASE i <= d - 1
        BY <1>1, <1>2, <1>3, <2>3, <4>1
      <4>2. CASE i = d
        BY <3>2, <4>2
      <4> QED
        BY <1>1, <3>1, <4>1, <4>2
    <3> QED
      BY <3>1, <3>3
  <2> QED
    BY <1>1, <2>1, <2>2, <2>3
<1>5. /\ SubSeq(r, 1, Len(s)) \in Paths /\ Len(SubSeq(r, 1, Len(s))) = Len(s)
      /\ \A i \in 1 .. Len(s) : SubSeq(r, 1, Len(s))[i] = r[i]
  <2>1. Len(r) \in Nat
    BY <1>2, PathIs
  <2> QED
    BY <1>2, <1>4, <2>1 DEF Paths
<1>6. SubSeq(r, 1, Len(s)) = s
  BY <1>3, <1>4, <1>5, PathsAreEqual
<1>7. s \in Ancestry(r)
  BY <1>4, <1>6 DEF Ancestry
<1> QED
  BY <1>7 DEF r, s

-------------------------------------------------------------------------------
(* The loop of set(). *)

DirectoriesOf(f) == {p \in DOMAIN f : p # <<>> /\ IsDirectory(f, p)}
FilesOf(f) == {p \in DOMAIN f : p # <<>> /\ ~IsDirectory(f, p)}

\* An order has each path once.
LEMMA OrderIs ==
  ASSUME NEW S, IsFiniteSet(S), NEW order \in Orders(S)
  PROVE  LET n == Cardinality(S)
         IN  /\ n \in Nat /\ DOMAIN order = 1 .. n /\ order \in [1 .. n -> S]
             /\ IsInjective(order) /\ Range(order) = S
             /\ \A i, j \in 1 .. n : Below(order[i], order[j]) => i < j
<1> DEFINE n == Cardinality(S)
           D == 1 .. n
<1>1. n \in Nat
  BY FS_CardinalityType
<1>2. order \in [D -> S] /\ \A i, j \in D : i # j => order[i] # order[j]
  BY DEF Orders, SetToSeqs
<1>3. \A i, j \in DOMAIN order : Below(order[i], order[j]) => i < j
  BY DEF Orders
<1>4. IsFiniteSet(D) /\ Cardinality(D) = n
  <2>1. IsFiniteSet(1 .. n) /\ Cardinality(1 .. n) = IF 1 > n THEN 0 ELSE n - 1 + 1
    BY <1>1, FS_Interval
  <2> QED
    BY <1>1, <2>1
<1> HIDE DEF D, n
<1>5. DOMAIN order = D /\ IsInjective(order)
  BY <1>2 DEF IsInjective
<1>6. order \in Injection(D, S)
  BY <1>2, <1>5 DEF Injection
<1>7. order \in Surjection(D, S)
  BY <1>4, <1>6, FS_Injection DEF n
<1>8. Range(order) = S
  BY <1>2, <1>5, <1>7 DEF Surjection, Range
<1> QED
  BY <1>1, <1>2, <1>3, <1>5, <1>8 DEF D, n

\* A list has all entries of another, at their places.
Extends(s, t) == \A k \in DOMAIN t : k \in DOMAIN s /\ s[k] = t[k]

LEMMA ExtendsMore ==
  ASSUME NEW r, NEW s, NEW t, Extends(r, s), Extends(s, t)
  PROVE  Extends(r, t)
BY DEF Extends

LEMMA AppendIs ==
  ASSUME NEW S, NEW s \in Seq(S), NEW x \in S
  PROVE  /\ Append(s, x) \in Seq(S) /\ Range(Append(s, x)) = Range(s) \cup {x}
         /\ IsInjective(s) /\ x \notin Range(s) => IsInjective(Append(s, x))
         /\ Extends(Append(s, x), s)
<1> DEFINE n == Len(s)
           t == Append(s, x)
<1>1. /\ n \in Nat /\ DOMAIN s = 1 .. n /\ t \in Seq(S) /\ DOMAIN t = 1 .. n + 1
      /\ t[n + 1] = x /\ \A i \in 1 .. n : t[i] = s[i]
  OBVIOUS
<1> HIDE DEF t, n
<1>2. \A i \in 1 .. n + 1 : i \in 1 .. n \/ i = n + 1
  BY <1>1
<1>3. \A i \in 1 .. n : i \in 1 .. n + 1 /\ i # n + 1
  BY <1>1
<1>4. n + 1 \in 1 .. n + 1
  BY <1>1
<1>5. Range(t) = Range(s) \cup {x}
  BY <1>1, <1>2, <1>3, <1>4 DEF Range
<1>6. IsInjective(s) /\ x \notin Range(s) => IsInjective(t)
  BY <1>1, <1>2 DEF Range, IsInjective
<1> QED
  BY <1>1, <1>3, <1>5, <1>6 DEF t, Extends

\* What the lists have after some paths: those there were before, and each path once.
Listed(listed, d, a, paths) ==
  /\ listed = [directories |-> listed.directories, assets |-> listed.assets]
  /\ listed.directories \in Seq(DirectoriesOf(fs)) /\ listed.assets \in Seq(FilesOf(fs))
  /\ Extends(listed.assets, a)
  /\ d = <<>> /\ a = <<>> =>
       /\ Range(listed.directories) = paths \cap DirectoriesOf(fs)
       /\ Range(listed.assets) = paths \cap FilesOf(fs) /\ IsInjective(listed.assets)

LEMMA ListedMore ==
  ASSUME NEW listed, NEW d, NEW a, NEW paths, Listed(listed, d, a, paths),
         NEW x \in DOMAIN fs, x # <<>>, x \notin paths
  PROVE  Listed(ListOne(listed, x), d, a, paths \cup {x})
<1> DEFINE new == ListOne(listed, x)
           D == DirectoriesOf(fs)
           F == FilesOf(fs)
<1>1. /\ listed = [directories |-> listed.directories, assets |-> listed.assets]
      /\ listed.directories \in Seq(D) /\ listed.assets \in Seq(F)
      /\ Extends(listed.assets, a)
      /\ d = <<>> /\ a = <<>> =>
           /\ Range(listed.directories) = paths \cap D
           /\ Range(listed.assets) = paths \cap F /\ IsInjective(listed.assets)
  BY DEF Listed
<1>2. new = IF IsDirectory(fs, x) THEN [listed EXCEPT !.directories = Append(@, x)]
            ELSE [listed EXCEPT !.assets = Append(@, x)]
  BY DEF ListOne
<1>3. CASE IsDirectory(fs, x)
  <2>1. x \in D /\ x \notin F
    BY <1>3 DEF DirectoriesOf, FilesOf
  <2> HIDE DEF new, D, F
  <2>2. new = [directories |-> Append(listed.directories, x), assets |-> listed.assets]
    BY <1>1, <1>2, <1>3
  <2>3. /\ Append(listed.directories, x) \in Seq(D)
        /\ Range(Append(listed.directories, x)) = Range(listed.directories) \cup {x}
    BY <1>1, <2>1, AppendIs
  <2>4. (paths \cup {x}) \cap D = (paths \cap D) \cup {x} /\ (paths \cup {x}) \cap F = paths \cap F
    BY <2>1
  <2>5. Listed(new, d, a, paths \cup {x})
    BY <1>1, <2>2, <2>3, <2>4 DEF Listed, D, F
  <2> QED
    BY <2>5 DEF new
<1>4. CASE ~IsDirectory(fs, x)
  <2>1. x \in F /\ x \notin D
    BY <1>4 DEF DirectoriesOf, FilesOf
  <2> HIDE DEF new, D, F
  <2>2. new = [directories |-> listed.directories, assets |-> Append(listed.assets, x)]
    BY <1>1, <1>2, <1>4
  <2>3. /\ Append(listed.assets, x) \in Seq(F)
        /\ Range(Append(listed.assets, x)) = Range(listed.assets) \cup {x}
        /\ IsInjective(listed.assets) /\ x \notin Range(listed.assets) =>
             IsInjective(Append(listed.assets, x))
        /\ Extends(Append(listed.assets, x), listed.assets)
    BY <1>1, <2>1, AppendIs
  <2>4. (paths \cup {x}) \cap F = (paths \cap F) \cup {x} /\ (paths \cup {x}) \cap D = paths \cap D
    BY <2>1
  <2>5. d = <<>> /\ a = <<>> => x \notin Range(listed.assets)
    BY <1>1
  <2>6. Extends(Append(listed.assets, x), a)
    BY <1>1, <2>3, ExtendsMore
  <2>7. Listed(new, d, a, paths \cup {x})
    BY <1>1, <2>2, <2>3, <2>4, <2>5, <2>6 DEF Listed, D, F
  <2> QED
    BY <2>7 DEF new
<1> QED
  BY <1>3, <1>4

LEMMA GatherIs ==
  ASSUME NEW d \in Seq(DirectoriesOf(fs)), NEW a \in Seq(FilesOf(fs)), NEW n \in Nat,
         NEW order, DOMAIN order = 1 .. n, IsInjective(order),
         \A i \in 1 .. n : order[i] \in DOMAIN fs /\ order[i] # <<>>
  PROVE  Listed(Gather(fs, d, a, order), d, a, Range(order))
<1>1. PICK v : /\ Steps(v, "gather", [directories |-> d, assets |-> a], order, n)
               /\ Gather(fs, d, a, order) = v[n]
  BY GatherSteps
<1> DEFINE Seen(i) == {order[j] : j \in 1 .. i}
           Good == {i \in Nat : i <= n => Listed(v[i], d, a, Seen(i))}
<1>2. v[0] = [directories |-> d, assets |-> a]
      /\ \A i \in 1 .. n : v[i] = ListOne(v[i - 1], order[i])
  BY <1>1, Turns DEF Steps
<1>3. 0 \in Good
  <2>1. Seen(0) = {}
    OBVIOUS
  <2>2. /\ v[0].directories = d /\ v[0].assets = a
        /\ v[0] = [directories |-> v[0].directories, assets |-> v[0].assets]
    BY <1>2
  <2>3. Range(<<>>) = {} /\ IsInjective(<<>>) /\ Extends(a, a)
    BY DEF Range, IsInjective, Extends
  <2> HIDE DEF Seen
  <2>4. Listed(v[0], d, a, Seen(0))
    BY <2>1, <2>2, <2>3 DEF Listed
  <2> QED
    BY <2>4
<1>4. ASSUME NEW i \in Nat, i \in Good PROVE i + 1 \in Good
  <2>1. SUFFICES ASSUME i + 1 <= n PROVE Listed(v[i + 1], d, a, Seen(i + 1))
    <3> HIDE DEF Seen
    <3> QED
      OBVIOUS
  <2>2. i <= n /\ i + 1 \in 1 .. n /\ (i + 1) - 1 = i
    BY <2>1
  <2> DEFINE x == order[i + 1]
  <2>3. x \in DOMAIN fs /\ x # <<>>
    BY <2>2
  <2>4. x \notin Seen(i)
    <3>1. SUFFICES ASSUME NEW j \in 1 .. i, order[j] = x PROVE FALSE
      OBVIOUS
    <3>2. j \in 1 .. n /\ j # i + 1
      BY <2>2
    <3> QED
      BY <2>2, <3>1, <3>2 DEF IsInjective
  <2>5. Seen(i + 1) = Seen(i) \cup {x}
    <3>1. 1 .. i + 1 = (1 .. i) \cup {i + 1}
      OBVIOUS
    <3> QED
      BY <3>1
  <2>6. Listed(v[i], d, a, Seen(i)) /\ v[i + 1] = ListOne(v[i], x)
    BY <1>2, <1>4, <2>2
  <2> HIDE DEF Seen, x
  <2>7. Listed(ListOne(v[i], x), d, a, Seen(i) \cup {x})
    BY <2>3, <2>4, <2>6, ListedMore
  <2> QED
    BY <2>5, <2>6, <2>7
<1>5. n \in Good
  <2> HIDE DEF Good
  <2> QED
    BY <1>3, <1>4, AllSizes
<1>6. Seen(n) = Range(order)
  BY DEF Range
<1> HIDE DEF Seen
<1> QED
  BY <1>1, <1>5, <1>6

\* What set_source() leaves in the lists.
LEMMA SourceIsListed ==
  ASSUME IsFileSystem(fs), NEW p \in Paths,
         NEW d \in Seq(DirectoriesOf(fs)), NEW a \in Seq(FilesOf(fs)),
         NEW order \in IF IsDirectory(fs, p) THEN Orders(Visited(fs, p)) ELSE {<<>>}
  PROVE  LET gathered == Gather(fs, d, a, order)
         IN  /\ gathered.directories \in Seq(DirectoriesOf(fs))
             /\ gathered.assets \in Seq(FilesOf(fs)) /\ Extends(gathered.assets, a)
             /\ IsDirectory(fs, p) /\ d = <<>> /\ a = <<>> =>
                  /\ Range(gathered.directories) = Visited(fs, p) \cap DirectoriesOf(fs)
                  /\ Range(gathered.assets) = Visited(fs, p) \cap FilesOf(fs)
                  /\ IsInjective(gathered.assets)
<1> DEFINE S == Visited(fs, p)
<1>1. CASE IsDirectory(fs, p)
  <2>1. IsFiniteSet(DOMAIN fs) /\ DOMAIN fs \subseteq Paths
    BY DEF IsFileSystem
  <2>2. S \subseteq DOMAIN fs /\ \A q \in S : Below(p, q)
    BY DEF Visited
  <2>3. IsFiniteSet(S)
    BY <2>1, <2>2, FS_Subset
  <2>4. order \in Orders(S)
    BY <1>1
  <2> HIDE DEF S
  <2>5. \A q \in S : q # <<>>
    <3> TAKE q \in S
    <3>1. q \in Paths
      BY <2>1, <2>2
    <3>2. Len(p) \in Nat /\ Len(p) < Len(q)
      BY <2>2, <3>1, PathIs, BelowIs
    <3> QED
      BY <3>2, EmptyPath
  <2> DEFINE n == Cardinality(S)
  <2>6. /\ n \in Nat /\ DOMAIN order = 1 .. n /\ order \in [1 .. n -> S]
        /\ IsInjective(order) /\ Range(order) = S
    BY <2>3, <2>4, OrderIs
  <2> HIDE DEF n
  <2>7. \A i \in 1 .. n : order[i] \in DOMAIN fs /\ order[i] # <<>>
    BY <2>2, <2>5, <2>6
  <2>8. Listed(Gather(fs, d, a, order), d, a, S)
    BY <2>6, <2>7, GatherIs
  <2> QED
    BY <2>8 DEF Listed, S
<1>2. CASE ~IsDirectory(fs, p)
  <2>1. order = <<>>
    BY <1>2
  <2>2. DOMAIN order = 1 .. 0 /\ IsInjective(order)
    BY <2>1 DEF IsInjective
  <2>3. \A i \in 1 .. 0 : order[i] \in DOMAIN fs /\ order[i] # <<>>
    OBVIOUS
  <2>4. Listed(Gather(fs, d, a, order), d, a, Range(order))
    <3> DEFINE n == 0
    <3>1. /\ n \in Nat /\ DOMAIN order = 1 .. n
          /\ \A i \in 1 .. n : order[i] \in DOMAIN fs /\ order[i] # <<>>
      BY <2>2, <2>3
    <3> HIDE DEF n
    <3> QED
      BY <2>2, <3>1, GatherIs
  <2> QED
    BY <1>2, <2>4 DEF Listed
<1> QED
  BY <1>1, <1>2

-------------------------------------------------------------------------------
(* The loops of _stage(). *)

\* What a loop has made of the directories of the first paths in the list.
Made(acc, n) ==
  /\ acc = [fs |-> acc.fs, threw |-> acc.threw] /\ acc.threw \in BOOLEAN
  /\ IsFileSystem(acc.fs) /\ Keeps(fs, acc.fs)
  /\ \A p \in DOMAIN acc.fs : p \notin DOMAIN fs => acc.fs[p] = Dir
  /\ ~acc.threw =>
       \A k \in 1 .. n : \A p \in Ancestry(GetRelativeDest(directories[k])) :
         IsDirectory(acc.fs, p)

LEMMA MadeMore ==
  ASSUME NEW acc, NEW i \in Nat, Made(acc, i), destination \in Paths \cup {Unset}, IsCut,
         directories[i + 1] \in Paths, directories[i + 1] # <<>>
  PROVE  Made(MakeDirectory(acc, directories[i + 1]), i + 1)
<1> DEFINE p == directories[i + 1]
           new == MakeDirectory(acc, p)
           to == GetRelativeDest(p)
           f == acc.fs
           g == CreateDirectories(f, to)
<1>1. /\ acc = [fs |-> f, threw |-> acc.threw] /\ acc.threw \in BOOLEAN
      /\ IsFileSystem(f) /\ Keeps(fs, f)
      /\ \A q \in DOMAIN f : q \notin DOMAIN fs => f[q] = Dir
      /\ ~acc.threw =>
           \A k \in 1 .. i : \A q \in Ancestry(GetRelativeDest(directories[k])) :
             IsDirectory(f, q)
  BY DEF Made
<1>2. new = IF acc.threw \/ CannotStrip(p) \/ CannotCreate(f, to)
            THEN [acc EXCEPT !.threw = TRUE] ELSE [acc EXCEPT !.fs = g]
  BY DEF MakeDirectory
<1>3. CASE acc.threw \/ CannotStrip(p) \/ CannotCreate(f, to)
  <2>0. new = [acc EXCEPT !.threw = TRUE]
    BY <1>2, <1>3
  <2> HIDE DEF new
  <2>1. new = [fs |-> f, threw |-> TRUE]
    BY <1>1, <2>0
  <2> HIDE DEF f
  <2>2. Made(new, i + 1)
    BY <1>1, <2>1 DEF Made
  <2> QED
    BY <2>2 DEF new
<1>4. CASE ~(acc.threw \/ CannotStrip(p) \/ CannotCreate(f, to))
  <2>1. to \in Paths
    BY <1>4, DestIsPath
  <2> HIDE DEF new, f, to
  <2>2. /\ IsFileSystem(g) /\ Keeps(f, g) /\ DOMAIN g = DOMAIN f \cup Ancestry(to)
        /\ \A q \in Ancestry(to) : IsDirectory(g, q)
        /\ \A q \in DOMAIN g : q \notin DOMAIN f => g[q] = Dir
    BY <1>1, <1>4, <2>1, CreateLeads
  <2> HIDE DEF g
  <2>3. new = [fs |-> g, threw |-> FALSE]
    BY <1>1, <1>2, <1>4
  <2>4. Keeps(fs, g)
    BY <1>1, <2>2, KeepsOn
  <2>5. ASSUME NEW q \in DOMAIN g, q \notin DOMAIN fs PROVE g[q] = Dir
    <3>1. CASE q \in DOMAIN f
      BY <1>1, <2>2, <2>5, <3>1 DEF Keeps
    <3>2. CASE q \notin DOMAIN f
      BY <2>2, <3>2
    <3> QED
      BY <3>1, <3>2
  <2>6. ASSUME NEW k \in 1 .. i + 1, NEW q \in Ancestry(GetRelativeDest(directories[k]))
        PROVE  IsDirectory(g, q)
    <3>1. CASE k = i + 1
      BY <2>2, <2>6, <3>1 DEF to, p
    <3>2. CASE k # i + 1
      <4>1. k \in 1 .. i
        BY <3>2
      <4>2. IsDirectory(f, q)
        BY <1>1, <1>4, <2>6, <4>1
      <4> QED
        BY <2>2, <4>2, KeepsDirectories
    <3> QED
      BY <3>1, <3>2
  <2>7. Made(new, i + 1)
    BY <2>2, <2>3, <2>4, <2>5, <2>6 DEF Made
  <2> QED
    BY <2>7 DEF new
<1> QED
  BY <1>3, <1>4

\* A list of some paths of a file system.
LEMMA ListIs ==
  ASSUME NEW f, IsFileSystem(f), NEW list, list \in Seq(DirectoriesOf(f)) \/ list \in Seq(FilesOf(f))
  PROVE  /\ Len(list) \in Nat /\ DOMAIN list = 1 .. Len(list)
         /\ \A k \in 1 .. Len(list) : list[k] \in DOMAIN f /\ list[k] \in Paths /\ list[k] # <<>>
<1>1. /\ DOMAIN f \subseteq Paths
      /\ \A p \in DirectoriesOf(f) \cup FilesOf(f) : p \in DOMAIN f /\ p # <<>>
  BY DEF IsFileSystem, DirectoriesOf, FilesOf
<1>2. /\ Len(list) \in Nat /\ DOMAIN list = 1 .. Len(list)
      /\ \A k \in 1 .. Len(list) : list[k] \in DirectoriesOf(f) \cup FilesOf(f)
  OBVIOUS
<1> QED
  BY <1>1, <1>2

LEMMA DirectoriesMade ==
  ASSUME IsFileSystem(fs), directories \in Seq(DirectoriesOf(fs)),
         destination \in Paths \cup {Unset}, IsCut
  PROVE  Made(CreateDestDirStructure, Len(directories))
<1> DEFINE n == Len(directories)
           c == [fs |-> fs, threw |-> FALSE]
<1>1. /\ n \in Nat /\ DOMAIN directories = 1 .. n
      /\ \A k \in 1 .. n : directories[k] \in Paths /\ directories[k] # <<>>
  BY ListIs
<1> HIDE DEF n, c
<1>2. PICK v : Steps(v, "mkdir", c, directories, n) /\ FoldLeft(MakeDirectory, c, directories) = v[n]
  BY <1>1, MakeSteps
<1>3. v[0] = c /\ \A i \in 1 .. n : v[i] = MakeDirectory(v[i - 1], directories[i])
  BY <1>2, Turns DEF Steps
<1> DEFINE Good == {i \in Nat : i <= n => Made(v[i], i)}
<1>4. 0 \in Good
  <2>1. Keeps(fs, fs)
    BY DEF Keeps
  <2>2. Made(c, 0)
    BY <2>1 DEF Made, c
  <2> QED
    BY <1>3, <2>2
<1>5. ASSUME NEW i \in Nat, i \in Good PROVE i + 1 \in Good
  <2>1. SUFFICES ASSUME i + 1 <= n PROVE Made(v[i + 1], i + 1)
    OBVIOUS
  <2>2. i <= n /\ i + 1 \in 1 .. n /\ (i + 1) - 1 = i
    BY <1>1, <2>1
  <2>3. Made(v[i], i)
    BY <1>5, <2>2
  <2>4. v[i + 1] = MakeDirectory(v[i], directories[i + 1])
    BY <1>3, <2>2
  <2>5. Made(MakeDirectory(v[i], directories[i + 1]), i + 1)
    BY <1>1, <2>2, <2>3, MadeMore
  <2> QED
    BY <2>4, <2>5
<1>6. n \in Good
  <2> HIDE DEF Good
  <2> QED
    BY <1>1, <1>4, <1>5, AllSizes
<1>7. Made(v[n], n)
  BY <1>1, <1>6
<1> QED
  BY <1>2, <1>7 DEF CreateDestDirStructure, n, c

\* What the loop over the files has listed after the first n of them.
Enumerated(acc, n) ==
  /\ acc = [files |-> acc.files, threw |-> acc.threw] /\ acc.threw \in BOOLEAN
  /\ acc.files \in Seq(Paths) /\ Extends(acc.files, destFiles)
  /\ ~acc.threw /\ destFiles = <<>> =>
       Len(acc.files) = n /\ \A k \in 1 .. n : acc.files[k] = GetRelativeDest(assets[k])

LEMMA EnumeratedMore ==
  ASSUME NEW acc, NEW i \in Nat, Enumerated(acc, i), destination \in Paths \cup {Unset}, IsCut,
         assets[i + 1] \in Paths, assets[i + 1] # <<>>
  PROVE  Enumerated(EnumerateFile(acc, assets[i + 1]), i + 1)
<1> DEFINE p == assets[i + 1]
           new == EnumerateFile(acc, p)
           to == GetRelativeDest(p)
           s == acc.files
<1>1. /\ acc = [files |-> s, threw |-> acc.threw] /\ acc.threw \in BOOLEAN
      /\ s \in Seq(Paths) /\ Extends(s, destFiles)
      /\ ~acc.threw /\ destFiles = <<>> =>
           Len(s) = i /\ \A k \in 1 .. i : s[k] = GetRelativeDest(assets[k])
  BY DEF Enumerated
<1>2. new = IF acc.threw \/ CannotStrip(p) THEN [acc EXCEPT !.threw = TRUE]
            ELSE [acc EXCEPT !.files = Append(@, to)]
  BY DEF EnumerateFile
<1>3. CASE acc.threw \/ CannotStrip(p)
  <2>0. new = [acc EXCEPT !.threw = TRUE]
    BY <1>2, <1>3
  <2> HIDE DEF new
  <2>1. new = [files |-> s, threw |-> TRUE]
    BY <1>1, <2>0
  <2> HIDE DEF s
  <2>2. Enumerated(new, i + 1)
    BY <1>1, <2>1 DEF Enumerated
  <2> QED
    BY <2>2 DEF new
<1>4. CASE ~(acc.threw \/ CannotStrip(p))
  <2>1. to \in Paths
    BY <1>4, DestIsPath
  <2> DEFINE t == Append(s, to)
  <2>0. new = [acc EXCEPT !.files = t]
    BY <1>2, <1>4
  <2> HIDE DEF new
  <2>2. new = [files |-> t, threw |-> FALSE]
    <3>1. acc.threw = FALSE
      BY <1>1, <1>4
    <3> HIDE DEF t
    <3> QED
      BY <1>1, <2>0, <3>1
  <2> HIDE DEF s
  <2>3. to = GetRelativeDest(assets[i + 1])
    OBVIOUS
  <2> HIDE DEF to
  <2>4. /\ t \in Seq(Paths) /\ Len(t) = Len(s) + 1 /\ t[Len(s) + 1] = to
        /\ \A k \in 1 .. Len(s) : t[k] = s[k]
    BY <1>1, <2>1
  <2> HIDE DEF t
  <2>5. ASSUME destFiles = <<>>
        PROVE  Len(t) = i + 1 /\ \A k \in 1 .. i + 1 : t[k] = GetRelativeDest(assets[k])
    <3>1. Len(s) = i /\ \A k \in 1 .. i : s[k] = GetRelativeDest(assets[k])
      BY <1>1, <1>4, <2>5
    <3>2. \A k \in 1 .. i + 1 : k \in 1 .. i \/ k = i + 1
      OBVIOUS
    <3> QED
      BY <2>3, <2>4, <3>1, <3>2
  <2>6. Extends(t, destFiles)
    <3>1. DOMAIN s = 1 .. Len(s) /\ DOMAIN t = 1 .. Len(s) + 1 /\ Len(s) \in Nat
      BY <1>1, <2>4
    <3>2. Extends(t, s)
      BY <2>4, <3>1 DEF Extends
    <3> QED
      BY <1>1, <3>2, ExtendsMore
  <2>7. Enumerated(new, i + 1)
    BY <2>2, <2>4, <2>5, <2>6 DEF Enumerated
  <2> QED
    BY <2>7 DEF new
<1> QED
  BY <1>3, <1>4

LEMMA FilesEnumerated ==
  ASSUME IsFileSystem(fs), assets \in Seq(FilesOf(fs)), destFiles \in Seq(Paths),
         destination \in Paths \cup {Unset}, IsCut
  PROVE  Enumerated(EnumerateDestFiles, Len(assets))
<1> DEFINE n == Len(assets)
           c == [files |-> destFiles, threw |-> FALSE]
<1>1. /\ n \in Nat /\ DOMAIN assets = 1 .. n
      /\ \A k \in 1 .. n : assets[k] \in Paths /\ assets[k] # <<>>
  BY ListIs
<1> HIDE DEF n, c
<1>2. PICK v : Steps(v, "list", c, assets, n) /\ FoldLeft(EnumerateFile, c, assets) = v[n]
  BY <1>1, ListSteps
<1>3. v[0] = c /\ \A i \in 1 .. n : v[i] = EnumerateFile(v[i - 1], assets[i])
  BY <1>2, Turns DEF Steps
<1> DEFINE Good == {i \in Nat : i <= n => Enumerated(v[i], i)}
<1>4. 0 \in Good
  <2>1. Enumerated(c, 0)
    BY DEF Enumerated, Extends, c
  <2> QED
    BY <1>3, <2>1
<1>5. ASSUME NEW i \in Nat, i \in Good PROVE i + 1 \in Good
  <2>1. SUFFICES ASSUME i + 1 <= n PROVE Enumerated(v[i + 1], i + 1)
    OBVIOUS
  <2>2. i <= n /\ i + 1 \in 1 .. n /\ (i + 1) - 1 = i
    BY <1>1, <2>1
  <2>3. Enumerated(v[i], i)
    BY <1>5, <2>2
  <2>4. v[i + 1] = EnumerateFile(v[i], assets[i + 1])
    BY <1>3, <2>2
  <2>5. Enumerated(EnumerateFile(v[i], assets[i + 1]), i + 1)
    BY <1>1, <2>2, <2>3, EnumeratedMore
  <2> QED
    BY <2>4, <2>5
<1>6. n \in Good
  <2> HIDE DEF Good
  <2> QED
    BY <1>1, <1>4, <1>5, AllSizes
<1>7. Enumerated(v[n], n)
  BY <1>1, <1>6
<1> QED
  BY <1>2, <1>7 DEF EnumerateDestFiles, n, c

-------------------------------------------------------------------------------
(* Copying. *)

\* A copy adds a file at most, and returns only with one that has as many bytes as it
\* says, in a debug build those of the source.
LEMMA CopyIs ==
  ASSUME NEW f, IsFileSystem(f), NEW from \in DOMAIN f, NEW to \in Paths
  PROVE  LET one == CopyOne(f, from, to)
         IN  /\ IsFileSystem(one.fs) /\ Fills(f, one.fs, {to})
             /\ one.bytes \in Nat /\ one.outcome \in {"ok", "threw", "stuck"}
             /\ one.outcome = "ok" =>
                  /\ f[from].kind = "file"
                  /\ to \in DOMAIN one.fs /\ one.fs[to].kind = "file"
                  /\ one.bytes = one.fs[to].size
                  /\ debug => one.bytes = f[from].size
             /\ one.outcome = "stuck" =>
                  /\ f[from].kind = "file" /\ f[from].size > 0
                  /\ \/ ~IsDirectory(f, Parent(to))
                     \/ to \in DOMAIN one.fs /\ one.fs[to] \in {File(0, 0), Broken}
<1> DEFINE one == CopyOne(f, from, to)
           size == f[from].size
           end(o) == [fs |-> f, bytes |-> 0, outcome |-> o]
           unwritten == end(IF size > 0 THEN "stuck" ELSE IF Exists(f, to) THEN "ok" ELSE "threw")
           created(node) == [Create(f, {to}, node) EXCEPT ![to] = node]
           opens == IF to \in DOMAIN f THEN f[to].kind = "dangling" ELSE IsDirectory(f, Parent(to))
           Right(o) ==
             /\ IsFileSystem(o.fs) /\ Fills(f, o.fs, {to})
             /\ o.bytes \in Nat /\ o.outcome \in {"ok", "threw", "stuck"}
             /\ o.outcome = "ok" =>
                  /\ f[from].kind = "file"
                  /\ to \in DOMAIN o.fs /\ o.fs[to].kind = "file"
                  /\ o.bytes = o.fs[to].size
                  /\ debug => o.bytes = f[from].size
             /\ o.outcome = "stuck" =>
                  /\ f[from].kind = "file" /\ f[from].size > 0
                  /\ \/ ~IsDirectory(f, Parent(to))
                     \/ to \in DOMAIN o.fs /\ o.fs[to] \in {File(0, 0), Broken}
<1>1. /\ f[from] \in Nodes /\ size \in Nat
      /\ \A p \in DOMAIN f : f[p] \in Nodes
      /\ to \in DOMAIN f => f[to].size \in Nat /\ f[to].kind \in Kinds
  <2>1. \A p \in DOMAIN f : f[p] \in Nodes
    BY DEF IsFileSystem
  <2> QED
    BY <2>1, Node
<1>2. Fills(f, f, {to})
  BY DEF Fills
<1>3. one =
        IF f[from].kind # "file" \/ IsDirectory(f, to) THEN end("threw")
        ELSE IF Exists(f, to)
        THEN IF f[to].kind = "other" THEN end("threw")
             ELSE IF f[to].size = 0 THEN unwritten
             ELSE IF debug /\ f[to].size # size THEN end("threw")
             ELSE [end("ok") EXCEPT !.bytes = f[to].size]
        ELSE IF ~opens THEN unwritten
        ELSE IF size \in HangingSizes THEN [end("stuck") EXCEPT !.fs = created(File(0, 0))]
        ELSE [fs |-> created(f[from]), bytes |-> size, outcome |-> "ok"]
  BY DEF CopyOne
<1>4. Right(end("threw"))
  BY <1>2
<1> HIDE DEF one
<1>5. SUFFICES Right(one)
  BY DEF one
<1>6. CASE f[from].kind # "file" \/ IsDirectory(f, to)
  <2>1. one = end("threw")
    BY <1>3, <1>6
  <2> HIDE DEF Right
  <2> QED
    BY <1>4, <2>1
<1>7. CASE f[from].kind = "file" /\ ~IsDirectory(f, to) /\ Exists(f, to)
  <2>1. to \in DOMAIN f
    BY <1>7 DEF Exists
  <2>2. f[to].kind \in {"file", "other"}
    BY <1>1, <1>7, <2>1 DEF Exists, IsDirectory, Kinds
  <2>3. CASE f[to].kind = "other"
    <3>1. one = end("threw")
      BY <1>3, <1>7, <2>3
    <3> HIDE DEF Right
    <3> QED
      BY <1>4, <3>1
  <2>4. CASE f[to].kind = "file" /\ f[to].size = 0
    <3>1. one = unwritten
      BY <1>3, <1>7, <2>4
    <3>2. /\ one.fs = f /\ one.bytes = 0
          /\ one.outcome = IF size > 0 THEN "stuck" ELSE "ok"
      BY <1>7, <3>1
    <3>3. f[to] = File(0, 0)
      BY <1>1, <2>1, <2>4, Node
    <3>4. ~(size > 0) => size = 0
      BY <1>1
    <3> QED
      BY <1>2, <1>7, <2>1, <2>4, <3>2, <3>3, <3>4
  <2>5. CASE f[to].kind = "file" /\ f[to].size # 0 /\ debug /\ f[to].size # size
    <3>1. one = end("threw")
      BY <1>3, <1>7, <2>5
    <3> HIDE DEF Right
    <3> QED
      BY <1>4, <3>1
  <2>6. CASE f[to].kind = "file" /\ f[to].size # 0 /\ ~(debug /\ f[to].size # size)
    <3>1. one = [end("ok") EXCEPT !.bytes = f[to].size]
      BY <1>3, <1>7, <2>6
    <3>2. one.fs = f /\ one.bytes = f[to].size /\ one.outcome = "ok"
      BY <3>1
    <3> QED
      BY <1>1, <1>2, <1>7, <2>1, <2>6, <3>2
  <2> QED
    BY <2>2, <2>3, <2>4, <2>5, <2>6
<1>8. CASE f[from].kind = "file" /\ ~IsDirectory(f, to) /\ ~Exists(f, to)
  <2>1. to # <<>>
    BY <1>8 DEF IsDirectory
  <2>2. CASE ~opens
    <3>1. one = unwritten
      BY <1>3, <1>8, <2>2
    <3>2. /\ one.fs = f /\ one.bytes = 0
          /\ one.outcome = IF size > 0 THEN "stuck" ELSE "threw"
      BY <1>8, <3>1
    <3>3. to \in DOMAIN f => f[to] = Broken
      <4>1. to \in DOMAIN f => f[to].kind = "broken"
        BY <1>8, <2>2 DEF Exists
      <4> QED
        BY <1>1, <4>1, Node
    <3> QED
      BY <1>2, <1>8, <2>2, <3>2, <3>3
  <2>3. opens => IsDirectory(f, Parent(to)) /\ (to \in DOMAIN f => f[to].kind \in {"file", "dangling"})
    BY DEF IsFileSystem
  <2>4. ASSUME opens, NEW node \in Nodes, node.kind = "file"
        PROVE  LET g == created(node)
               IN  /\ IsFileSystem(g) /\ Fills(f, g, {to}) /\ to \in DOMAIN g /\ g[to] = node
    <3> DEFINE g == created(node)
    <3>1. /\ IsFileSystem(g) /\ DOMAIN g = DOMAIN f \cup {to} /\ g[to] = node
          /\ \A p \in DOMAIN f : p # to => g[p] = f[p]
      BY <2>1, <2>3, <2>4, WriteOne
    <3>2. to \in DOMAIN f => f[to].kind = "dangling"
      BY <2>4
    <3> HIDE DEF g
    <3>3. Fills(f, g, {to})
      BY <2>4, <3>1, <3>2 DEF Fills
    <3> QED
      BY <3>1, <3>3 DEF g
  <2>5. CASE opens /\ size \in HangingSizes
    <3> DEFINE node == File(0, 0)
               g == created(node)
    <3>1. node \in Nodes /\ node.kind = "file"
      BY Node DEF File
    <3> HIDE DEF node
    <3>2. IsFileSystem(g) /\ Fills(f, g, {to}) /\ to \in DOMAIN g /\ g[to] = node
      BY <2>4, <2>5, <3>1
    <3>3. one = [end("stuck") EXCEPT !.fs = g]
      BY <1>3, <1>8, <2>5 DEF node
    <3> HIDE DEF g
    <3>4. one.fs = g /\ one.bytes = 0 /\ one.outcome = "stuck"
      BY <3>3
    <3>5. size > 0
      <4>1. HangingSizes \subseteq Nat \ {0}
        BY StagingAssumption
      <4> HIDE DEF size
      <4>2. size \in Nat /\ size # 0
        BY <2>5, <4>1
      <4> QED
        BY <4>2
    <3> QED
      BY <1>8, <3>2, <3>4, <3>5 DEF node
  <2>6. CASE opens /\ size \notin HangingSizes
    <3> DEFINE node == f[from]
               g == created(node)
    <3>1. IsFileSystem(g) /\ Fills(f, g, {to}) /\ to \in DOMAIN g /\ g[to] = node
      BY <1>1, <1>8, <2>4, <2>6
    <3>2. one = [fs |-> g, bytes |-> size, outcome |-> "ok"]
      BY <1>3, <1>8, <2>6
    <3> HIDE DEF g
    <3>3. one.fs = g /\ one.bytes = size /\ one.outcome = "ok"
      BY <3>2
    <3> QED
      BY <1>1, <1>8, <3>1, <3>3
  <2> HIDE DEF Right
  <2> QED
    BY <2>2, <2>5, <2>6
<1> HIDE DEF Right
<1> QED
  BY <1>6, <1>7, <1>8

\* A copy that never ends, and why it does not.
Hangs(f, k) ==
  /\ k \in DOMAIN assets /\ k \in DOMAIN destFiles
  /\ f[assets[k]].size > 0
  /\ \/ ~IsDirectory(fs, Parent(destFiles[k]))
     \/ destFiles[k] \in DOMAIN f /\ f[destFiles[k]] \in {File(0, 0), Broken}

\* What _run_copier() has done after the first n files left in the queue.
Copied(acc, n) ==
  /\ acc = [fs |-> acc.fs, outcome |-> acc.outcome, index |-> acc.index, state |-> acc.state]
  /\ IsFileSystem(acc.fs) /\ Fills(fs, acc.fs, Range(destFiles))
  /\ acc.outcome \in {"ok", "threw", "stuck"} /\ acc.index \in Nat /\ acc.state \in Nat
  /\ acc.outcome = "ok" =>
       \A j \in 1 .. n : /\ sourceQueueIndex + j \in DOMAIN destFiles
                         /\ destFiles[sourceQueueIndex + j] \in DOMAIN acc.fs
  /\ acc.outcome = "stuck" => \E k \in DOMAIN assets : Hangs(acc.fs, k)

LEMMA CopiedMore ==
  ASSUME IsFileSystem(fs), assets \in Seq(FilesOf(fs)), destFiles \in Seq(Paths),
         sourceQueueIndex \in Nat, NEW i \in Nat, NEW acc, Copied(acc, i),
         NEW k \in 1 .. Len(assets), k = sourceQueueIndex + (i + 1)
  PROVE  Copied(TakeNext(acc, k), i + 1)
<1> DEFINE f == acc.fs
           one == CopyOne(f, assets[k], destFiles[k])
           new == TakeNext(acc, k)
<1>1. /\ acc = [fs |-> f, outcome |-> acc.outcome, index |-> acc.index, state |-> acc.state]
      /\ IsFileSystem(f) /\ Fills(fs, f, Range(destFiles))
      /\ acc.outcome \in {"ok", "threw", "stuck"} /\ acc.index \in Nat /\ acc.state \in Nat
      /\ acc.outcome = "ok" =>
           \A j \in 1 .. i : /\ sourceQueueIndex + j \in DOMAIN destFiles
                             /\ destFiles[sourceQueueIndex + j] \in DOMAIN f
      /\ acc.outcome = "stuck" => \E x \in DOMAIN assets : Hangs(f, x)
  BY DEF Copied
<1>2. new = IF acc.outcome # "ok" THEN acc
            ELSE IF k > Len(destFiles) THEN [acc EXCEPT !.outcome = "threw", !.index = k]
            ELSE [fs |-> one.fs, outcome |-> one.outcome, index |-> k,
                  state |-> acc.state + one.bytes]
  BY DEF TakeNext
<1>3. k \in Nat /\ k \in DOMAIN assets
  <2>1. DOMAIN assets = 1 .. Len(assets)
    BY ListIs
  <2> QED
    BY <2>1
<1>4. CASE acc.outcome # "ok"
  <2>1. new = acc
    BY <1>2, <1>4
  <2> HIDE DEF new
  <2>2. Copied(new, i + 1)
    BY <1>1, <1>4, <2>1 DEF Copied
  <2> QED
    BY <2>2 DEF new
<1>5. CASE acc.outcome = "ok" /\ k > Len(destFiles)
  <2> HIDE DEF new
  <2>1. new = [fs |-> f, outcome |-> "threw", index |-> k, state |-> acc.state]
    BY <1>1, <1>2, <1>5
  <2>2. Copied(new, i + 1)
    BY <1>1, <1>3, <2>1 DEF Copied
  <2> QED
    BY <2>2 DEF new
<1>6. CASE acc.outcome = "ok" /\ ~(k > Len(destFiles))
  <2> DEFINE from == assets[k]
             to == destFiles[k]
  <2>1. k \in DOMAIN destFiles /\ to \in Paths /\ to \in Range(destFiles)
    <3>1. k \in 1 .. Len(destFiles)
      BY <1>3, <1>6
    <3> QED
      BY <3>1 DEF Range
  <2>2. from \in DOMAIN f
    <3>1. from \in DOMAIN fs
      BY ListIs
    <3> QED
      BY <1>1, <3>1 DEF Fills
  <2>3. /\ IsFileSystem(one.fs) /\ Fills(f, one.fs, {to})
        /\ one.bytes \in Nat /\ one.outcome \in {"ok", "threw", "stuck"}
        /\ one.outcome = "ok" => to \in DOMAIN one.fs
        /\ one.outcome = "stuck" =>
             /\ f[from].kind = "file" /\ f[from].size > 0
             /\ \/ ~IsDirectory(f, Parent(to))
                \/ to \in DOMAIN one.fs /\ one.fs[to] \in {File(0, 0), Broken}
    <3> HIDE DEF f, from, to
    <3>1. CopyOne(f, from, to) = one
      BY DEF from, to
    <3> HIDE DEF one
    <3> QED
      BY <1>1, <2>1, <2>2, <3>1, CopyIs
  <2> DEFINE g == one.fs
  <2> HIDE DEF new, f, one
  <2>4. new = [fs |-> g, outcome |-> one.outcome, index |-> k, state |-> acc.state + one.bytes]
    BY <1>2, <1>6
  <2>5. Fills(fs, g, Range(destFiles))
    <3> DEFINE S == Range(destFiles)
               T == {to}
    <3>1. T \subseteq S /\ S \subseteq S /\ Fills(fs, f, S) /\ Fills(f, g, T)
      BY <1>1, <2>1, <2>3
    <3> HIDE DEF S, T
    <3> QED
      BY <3>1, FillsMore DEF S
  <2>6. acc.state + one.bytes \in Nat
    BY <1>1, <2>3
  <2>7. ASSUME one.outcome = "ok", NEW j \in 1 .. i + 1
        PROVE  /\ sourceQueueIndex + j \in DOMAIN destFiles
               /\ destFiles[sourceQueueIndex + j] \in DOMAIN g
    <3>1. CASE j = i + 1
      BY <2>1, <2>3, <2>7, <3>1
    <3>2. CASE j # i + 1
      <4>1. j \in 1 .. i
        BY <3>2
      <4> QED
        BY <1>1, <1>6, <2>3, <4>1 DEF Fills
    <3> QED
      BY <3>1, <3>2
  <2>8. ASSUME one.outcome = "stuck" PROVE Hangs(g, k)
    <3>1. IsDirectory(fs, Parent(to)) => IsDirectory(f, Parent(to))
      BY <1>1, FillsDirectories
    <3>2. g[from] = f[from]
      BY <2>2, <2>3, <2>8 DEF Fills
    <3> QED
      BY <1>3, <2>1, <2>3, <2>8, <3>1, <3>2 DEF Hangs
  <2> HIDE DEF g
  <2>9. Copied(new, i + 1)
    <3>1. /\ new.fs = g /\ new.outcome = one.outcome /\ new.index = k
          /\ new.state = acc.state + one.bytes
          /\ new = [fs |-> new.fs, outcome |-> new.outcome, index |-> new.index,
                    state |-> new.state]
      BY <2>4
    <3>2. IsFileSystem(g)
      BY <2>3 DEF g
    <3>3. one.outcome = "stuck" => \E x \in DOMAIN assets : Hangs(g, x)
      BY <1>3, <2>8
    <3> QED
      BY <1>3, <2>3, <2>5, <2>6, <2>7, <3>1, <3>2, <3>3 DEF Copied
  <2> QED
    BY <2>9 DEF new
<1> QED
  BY <1>4, <1>5, <1>6

LEMMA FilesCopied ==
  ASSUME IsFileSystem(fs), assets \in Seq(FilesOf(fs)), destFiles \in Seq(Paths),
         sourceQueueIndex \in Nat, progress.state \in Nat
  PROVE  LET all == FoldLeft(TakeNext, [fs |-> fs, outcome |-> "ok", index |-> sourceQueueIndex,
                                        state |-> progress.state], QueueLeft)
         IN  /\ Copied(all, 0)
             /\ sourceQueueIndex = 0 => Copied(all, Len(assets))
<1> DEFINE m == Len(assets) - sourceQueueIndex
           n == IF m > 0 THEN m ELSE 0
           c == [fs |-> fs, outcome |-> "ok", index |-> sourceQueueIndex,
                 state |-> progress.state]
<1>1. Len(assets) \in Nat
  BY ListIs
<1>2. /\ n \in Nat /\ 1 .. m = 1 .. n /\ (sourceQueueIndex = 0 => n = Len(assets))
      /\ \A j \in 1 .. n : sourceQueueIndex + j \in 1 .. Len(assets)
  BY <1>1
<1>3. QueueLeft = [j \in 1 .. m |-> sourceQueueIndex + j]
  BY DEF QueueLeft
<1> HIDE DEF n, c, m
<1>4. DOMAIN QueueLeft = 1 .. n /\ \A j \in 1 .. n : QueueLeft[j] = sourceQueueIndex + j
  BY <1>2, <1>3
<1>5. PICK v : Steps(v, "copy", c, QueueLeft, n) /\ FoldLeft(TakeNext, c, QueueLeft) = v[n]
  BY <1>2, <1>4, CopySteps
<1>6. v[0] = c /\ \A i \in 1 .. n : v[i] = TakeNext(v[i - 1], QueueLeft[i])
  BY <1>5, Turns DEF Steps
<1> DEFINE Good == {i \in Nat : i <= n => Copied(v[i], i)}
<1>7. 0 \in Good
  <2>1. Fills(fs, fs, Range(destFiles))
    BY DEF Fills
  <2>2. Copied(c, 0)
    BY <2>1 DEF Copied, c
  <2> QED
    BY <1>6, <2>2
<1>8. ASSUME NEW i \in Nat, i \in Good PROVE i + 1 \in Good
  <2>1. SUFFICES ASSUME i + 1 <= n PROVE Copied(v[i + 1], i + 1)
    OBVIOUS
  <2>2. i <= n /\ i + 1 \in 1 .. n /\ (i + 1) - 1 = i
    BY <1>2, <2>1
  <2>3. Copied(v[i], i)
    BY <1>8, <2>2
  <2> DEFINE k == sourceQueueIndex + (i + 1)
  <2>4. v[i + 1] = TakeNext(v[i], k)
    BY <1>4, <1>6, <2>2
  <2>5. k \in 1 .. Len(assets)
    BY <1>2, <2>2
  <2> HIDE DEF k
  <2>6. Copied(TakeNext(v[i], k), i + 1)
    BY <2>3, <2>5, CopiedMore DEF k
  <2> QED
    BY <2>4, <2>6
<1>9. n \in Good
  <2> HIDE DEF Good
  <2> QED
    BY <1>2, <1>7, <1>8, AllSizes
<1>10. Copied(v[n], n)
  BY <1>2, <1>9
<1>11. Copied(v[n], 0)
  BY <1>10 DEF Copied
<1> QED
  BY <1>2, <1>5, <1>10, <1>11 DEF c

\* Where _sys_file_copy() puts an entry.
Under(p) == destination \o After(p, Len(source))

LEMMA UnderIs ==
  ASSUME source \in Paths, destination \in Paths, NEW p \in Paths, Below(source, p)
  PROVE  /\ Under(p) \in Paths /\ Under(p) # <<>> /\ IsPrefix(destination, Under(p))
         /\ Parent(Under(p)) = IF Parent(p) = source THEN destination ELSE Under(Parent(p))
         /\ Parent(p) = source \/ Below(source, Parent(p))
         /\ LET in == Append(Under(p), Last(p))
            IN  /\ in \in Paths /\ in # <<>> /\ IsPrefix(destination, in)
                /\ Parent(in) = Under(p)
<1> DEFINE n == Len(source)
           d == Len(destination)
           a == After(p, n)
           u == Under(p)
<1>1. /\ n \in Nat /\ d \in Nat /\ Len(p) \in Nat /\ n < Len(p) /\ p # <<>>
      /\ \A i \in 1 .. n : source[i] = p[i]
      /\ Last(p) \in Names
  <2>1. n < Len(p) /\ \A i \in 1 .. n : source[i] = p[i]
    BY BelowIs
  <2> QED
    BY <2>1, PathIs
<1>2. a \in Paths /\ a # <<>> /\ Parent(a) = After(Parent(p), n) /\ Len(a) = Len(p) - n
  BY <1>1, AfterIs, ParentOfAfter
<1>3. /\ Parent(p) \in Paths /\ Len(Parent(p)) = Len(p) - 1
      /\ \A i \in 1 .. Len(p) - 1 : Parent(p)[i] = p[i]
  BY <1>1, ParentIs
<1>4. Parent(p) = source \/ Below(source, Parent(p))
  <2> DEFINE q == Parent(p)
  <2>1. \A i \in 1 .. n : source[i] = q[i]
    BY <1>1, <1>3
  <2> HIDE DEF q
  <2>2. CASE n = Len(p) - 1
    <3>1. q = source
      BY <1>3, <2>1, <2>2, PathsAreEqual DEF q
    <3> QED
      BY <3>1 DEF q
  <2>3. CASE n # Len(p) - 1
    <3>1. n < Len(q) /\ q \in Paths
      BY <1>1, <1>3, <2>3 DEF q
    <3>2. Below(source, q)
      BY <2>1, <3>1, BelowIs
    <3> QED
      BY <3>2 DEF q
  <2> QED
    BY <2>2, <2>3
<1>5. /\ u \in Paths /\ Len(u) = d + Len(a)
      /\ \A i \in 1 .. d : u[i] = destination[i]
  BY <1>2, ConcatIs DEF Under
<1>6. u # <<>> /\ Parent(u) = destination \o After(Parent(p), n)
  BY <1>2, ParentOfConcat DEF Under
<1>7. Parent(p) = source => destination \o After(Parent(p), n) = destination
  <2>1. After(source, n) = <<>>
    <3>1. After(source, n) \in Paths /\ Len(After(source, n)) = 0
      BY <1>1, AfterIs
    <3> QED
      BY <3>1, PathIs
  <2>2. destination \o <<>> = destination
    BY DEF Paths
  <2> QED
    BY <2>1, <2>2
<1>8. Parent(u) = IF Parent(p) = source THEN destination ELSE Under(Parent(p))
  BY <1>6, <1>7 DEF Under
<1> HIDE DEF u, a, d
<1>9. IsPrefix(destination, u)
  BY <1>1, <1>2, <1>5, PrefixIs, PathIs DEF d
<1> DEFINE name == <<Last(p)>>
           in == Append(u, Last(p))
<1>10. name \in Paths /\ Len(name) = 1 /\ name # <<>> /\ Parent(name) = <<>>
  <2>1. name \in Paths /\ Len(name) = 1 /\ name # <<>>
    BY <1>1 DEF Paths
  <2> HIDE DEF name
  <2>2. Parent(name) \in Paths /\ Len(Parent(name)) = Len(name) - 1
    BY <2>1, ParentIs
  <2> QED
    BY <2>1, <2>2, PathIs
<1>11. in = u \o name
  BY <1>1, <1>5 DEF Paths
<1> HIDE DEF name, in
<1>12. u \o <<>> = u
  BY <1>5 DEF Paths
<1>13. in # <<>> /\ Parent(in) = u
  <2>1. u \o name # <<>> /\ Parent(u \o name) = u \o Parent(name)
    BY <1>5, <1>10, ParentOfConcat
  <2> QED
    BY <1>10, <1>11, <1>12, <2>1
<1>14. /\ in \in Paths /\ Len(in) = Len(u) + 1 /\ Len(u) \in Nat
       /\ \A i \in 1 .. Len(u) : in[i] = u[i]
  <2>1. u \in Paths /\ name \in Paths /\ Len(name) = 1
    BY <1>5, <1>10
  <2>2. /\ u \o name \in Paths /\ Len(u \o name) = Len(u) + Len(name) /\ Len(u) \in Nat
        /\ \A i \in 1 .. Len(u) : (u \o name)[i] = u[i]
    BY <2>1, ConcatIs, PathIs
  <2> QED
    BY <1>11, <2>1, <2>2
<1>15. IsPrefix(destination, in)
  <2>1. Len(a) \in Nat /\ Len(destination) = d /\ d \in Nat
    BY <1>2, PathIs DEF d
  <2>2. d <= Len(in) /\ \A i \in 1 .. d : destination[i] = in[i]
    BY <1>5, <1>14, <2>1
  <2> QED
    BY <1>14, <2>1, <2>2, PrefixIs
<1> QED
  BY <1>4, <1>5, <1>6, <1>8, <1>9, <1>13, <1>14, <1>15 DEF u, in

\* What _sys_file_copy() has made of the first n entries.
Entered(acc, order, n) ==
  /\ acc = [fs |-> acc.fs, threw |-> acc.threw] /\ acc.threw \in BOOLEAN
  /\ IsFileSystem(acc.fs) /\ Keeps(fs, acc.fs)
  /\ \A p \in DOMAIN acc.fs : p \in DOMAIN fs \/ IsPrefix(destination, p)
  /\ ~acc.threw =>
       /\ IsDirectory(acc.fs, destination)
       /\ \A k \in 1 .. n : IsDirectory(fs, order[k]) => IsDirectory(acc.fs, Under(order[k]))

LEMMA EnteredMore ==
  ASSUME IsFileSystem(fs), source \in Paths, destination \in Paths,
         NEW order, NEW i \in Nat, NEW acc, Entered(acc, order, i),
         order[i + 1] \in DOMAIN fs, Below(source, order[i + 1]),
         \/ Parent(order[i + 1]) = source
         \/ \E j \in 1 .. i : Parent(order[i + 1]) = order[j]
  PROVE  Entered(CopyEntry(acc, order[i + 1]), order, i + 1)
<1> DEFINE p == order[i + 1]
           f == acc.fs
           under == Under(p)
           to == IF fs[p].kind = "file" /\ IsDirectory(f, under) THEN Append(under, Last(p))
                 ELSE under
           node == IF IsDirectory(fs, p) THEN Dir ELSE fs[p]
           g == Create(f, {to}, node)
           new == CopyEntry(acc, p)
           Fails == \/ acc.threw
                    \/ fs[p].kind \notin {"dir", "link", "file"}
                    \/ fs[p].kind = "file" /\ to \in DOMAIN f
                    \/ IsDirectory(fs, p) /\ CannotCreate(f, to)
<1>1. /\ acc = [fs |-> f, threw |-> acc.threw] /\ acc.threw \in BOOLEAN
      /\ IsFileSystem(f) /\ Keeps(fs, f)
      /\ \A q \in DOMAIN f : q \in DOMAIN fs \/ IsPrefix(destination, q)
      /\ ~acc.threw =>
           /\ IsDirectory(f, destination)
           /\ \A k \in 1 .. i : IsDirectory(fs, order[k]) => IsDirectory(f, Under(order[k]))
  BY DEF Entered
<1>2. new = IF Fails THEN [acc EXCEPT !.threw = TRUE] ELSE [acc EXCEPT !.fs = g]
  BY DEF CopyEntry, Under, After
<1>3. p \in Paths /\ p \in DOMAIN fs /\ Below(source, p) /\ IsDirectory(fs, Parent(p))
      /\ fs[p] \in Nodes
  BY DEF IsFileSystem
<1>4. /\ under \in Paths /\ under # <<>> /\ IsPrefix(destination, under)
      /\ Parent(under) = IF Parent(p) = source THEN destination ELSE Under(Parent(p))
      /\ Append(under, Last(p)) \in Paths /\ Append(under, Last(p)) # <<>>
      /\ IsPrefix(destination, Append(under, Last(p)))
      /\ Parent(Append(under, Last(p))) = under
  BY <1>3, UnderIs
<1>5. CASE Fails
  <2>0. new = [acc EXCEPT !.threw = TRUE]
    BY <1>2, <1>5
  <2> HIDE DEF new
  <2>1. new = [fs |-> f, threw |-> TRUE]
    BY <1>1, <2>0
  <2> HIDE DEF f
  <2>2. Entered(new, order, i + 1)
    BY <1>1, <2>1 DEF Entered
  <2> QED
    BY <2>2 DEF new
<1>6. CASE ~Fails
  <2>1. ~acc.threw
    BY <1>6
  <2>2. IsDirectory(f, Parent(under))
    <3>1. CASE Parent(p) = source
      BY <1>1, <1>4, <2>1, <3>1
    <3>2. CASE Parent(p) # source
      <4>1. PICK j \in 1 .. i : Parent(p) = order[j]
        BY <3>2
      <4>2. IsDirectory(f, Under(order[j]))
        BY <1>1, <1>3, <2>1, <4>1
      <4> QED
        BY <1>4, <3>2, <4>1, <4>2
    <3> QED
      BY <3>1, <3>2
  <2>3. to \in Paths /\ to # <<>> /\ IsPrefix(destination, to) /\ IsDirectory(f, Parent(to))
    <3>1. CASE fs[p].kind = "file" /\ IsDirectory(f, under)
      <4>1. to = Append(under, Last(p))
        BY <3>1
      <4> HIDE DEF to
      <4> QED
        BY <1>4, <3>1, <4>1
    <3>2. CASE ~(fs[p].kind = "file" /\ IsDirectory(f, under))
      <4>1. to = under
        BY <3>2
      <4> HIDE DEF to
      <4> QED
        BY <1>4, <2>2, <4>1
    <3> QED
      BY <3>1, <3>2
  <2>4. IsDirectory(fs, p) => to = under /\ (to \in DOMAIN f => IsDirectory(f, to))
    <3>1. ASSUME IsDirectory(fs, p) PROVE to = under
      <4>1. p # <<>>
        BY <1>3, UnderIs, BelowIs, PathIs, EmptyPath
      <4>2. fs[p].kind # "file"
        BY <3>1, <4>1 DEF IsDirectory
      <4> QED
        BY <4>2
    <3>2. ASSUME IsDirectory(fs, p), to \in DOMAIN f PROVE IsDirectory(f, to)
      <4>1. ~CannotCreate(f, to)
        BY <1>6, <3>2
      <4>2. to \in Ancestry(to)
        <5> HIDE DEF to
        <5> QED
          BY <2>3, AncestryIs
      <4> HIDE DEF to
      <4> QED
        BY <3>2, <4>1, <4>2 DEF CannotCreate
    <3> QED
      BY <3>1, <3>2
  <2>5. node \in Nodes /\ (IsDirectory(fs, p) => node = Dir)
    BY <1>3, Node
  <2> HIDE DEF new, f, Fails, to, node, under
  <2>6. /\ IsFileSystem(g) /\ Keeps(f, g) /\ DOMAIN g = DOMAIN f \cup {to}
        /\ to \notin DOMAIN f => g[to] = node
    BY <1>1, <2>3, <2>5, CreateOne
  <2> HIDE DEF g
  <2>7. new = [fs |-> g, threw |-> FALSE]
    BY <1>1, <1>2, <1>6, <2>1
  <2>8. Keeps(fs, g)
    BY <1>1, <2>6, KeepsOn
  <2>9. \A q \in DOMAIN g : q \in DOMAIN fs \/ IsPrefix(destination, q)
    BY <1>1, <2>3, <2>6
  <2>10. IsDirectory(g, destination)
    BY <1>1, <2>1, <2>6, KeepsDirectories
  <2>11. ASSUME NEW k \in 1 .. i + 1, IsDirectory(fs, order[k])
         PROVE  IsDirectory(g, Under(order[k]))
    <3>1. CASE k = i + 1
      <4>1. IsDirectory(fs, p) /\ Under(order[k]) = to
        BY <2>4, <2>11, <3>1 DEF under
      <4>2. CASE to \in DOMAIN f
        <5>1. IsDirectory(f, to)
          BY <2>4, <4>1, <4>2
        <5> QED
          BY <2>6, <4>1, <5>1, KeepsDirectories
      <4>3. CASE to \notin DOMAIN f
        <5>1. g[to].kind = "dir" /\ to \in DOMAIN g
          BY <2>5, <2>6, <4>1, <4>3 DEF Dir, Empty
        <5> QED
          BY <4>1, <5>1 DEF IsDirectory
      <4> QED
        BY <4>2, <4>3
    <3>2. CASE k # i + 1
      <4>1. k \in 1 .. i
        BY <3>2
      <4>2. IsDirectory(f, Under(order[k]))
        BY <1>1, <2>1, <2>11, <4>1
      <4> QED
        BY <2>6, <4>2, KeepsDirectories
    <3> QED
      BY <3>1, <3>2
  <2>12. Entered(new, order, i + 1)
    BY <2>6, <2>7, <2>8, <2>9, <2>10, <2>11 DEF Entered
  <2> QED
    BY <2>12 DEF new
<1> QED
  BY <1>5, <1>6

LEMMA EntriesCopied ==
  ASSUME IsFileSystem(fs), source \in Paths, destination \in Paths, IsDirectory(fs, source),
         NEW order \in Orders({p \in DOMAIN fs : Below(source, p)})
  PROVE  Entered(FoldLeft(CopyEntry, [fs |-> fs, threw |-> ~IsDirectory(fs, destination)], order),
                 order, 0)
<1> DEFINE S == {p \in DOMAIN fs : Below(source, p)}
           n == Cardinality(S)
           c == [fs |-> fs, threw |-> ~IsDirectory(fs, destination)]
<1>1. IsFiniteSet(S) /\ \A p \in S : p \in DOMAIN fs /\ p \in Paths /\ Below(source, p)
  <2>1. IsFiniteSet(DOMAIN fs) /\ DOMAIN fs \subseteq Paths /\ S \subseteq DOMAIN fs
    BY DEF IsFileSystem
  <2> QED
    BY <2>1, FS_Subset
<1>2. order \in Orders(S)
  OBVIOUS
<1>3. \A p \in DOMAIN fs : Below(source, p) => p \in S
  OBVIOUS
<1> HIDE DEF S
<1>4. /\ n \in Nat /\ DOMAIN order = 1 .. n /\ order \in [1 .. n -> S]
      /\ Range(order) = S
      /\ \A i, j \in 1 .. n : Below(order[i], order[j]) => i < j
  BY <1>1, <1>2, OrderIs
<1> HIDE DEF n, c
<1>5. PICK v : Steps(v, "entry", c, order, n) /\ FoldLeft(CopyEntry, c, order) = v[n]
  BY <1>4, EntrySteps
<1>6. v[0] = c /\ \A i \in 1 .. n : v[i] = CopyEntry(v[i - 1], order[i])
  BY <1>5, Turns DEF Steps
<1> DEFINE Good == {i \in Nat : i <= n => Entered(v[i], order, i)}
<1>7. 0 \in Good
  <2>1. Keeps(fs, fs)
    BY DEF Keeps
  <2> DEFINE t == ~IsDirectory(fs, destination)
  <2>2. t \in BOOLEAN /\ (~t => IsDirectory(fs, destination)) /\ c = [fs |-> fs, threw |-> t]
    BY DEF c
  <2> HIDE DEF t
  <2>3. /\ c.fs = fs /\ c.threw = t /\ c = [fs |-> c.fs, threw |-> c.threw]
    BY <2>2
  <2>4. Entered(c, order, 0)
    BY <2>1, <2>2, <2>3 DEF Entered
  <2> QED
    BY <1>6, <2>4
<1>8. ASSUME NEW i \in Nat, i \in Good PROVE i + 1 \in Good
  <2>1. SUFFICES ASSUME i + 1 <= n PROVE Entered(v[i + 1], order, i + 1)
    OBVIOUS
  <2>2. i <= n /\ i + 1 \in 1 .. n /\ (i + 1) - 1 = i
    BY <1>4, <2>1
  <2>3. Entered(v[i], order, i)
    BY <1>8, <2>2
  <2>4. v[i + 1] = CopyEntry(v[i], order[i + 1])
    BY <1>6, <2>2
  <2>5. order[i + 1] \in DOMAIN fs /\ order[i + 1] \in Paths /\ Below(source, order[i + 1])
    BY <1>1, <1>4, <2>2
  <2>6. \/ Parent(order[i + 1]) = source
        \/ \E j \in 1 .. i : Parent(order[i + 1]) = order[j]
    <3> DEFINE p == order[i + 1]
               q == Parent(p)
    <3>1. SUFFICES ASSUME q # source PROVE \E j \in 1 .. i : q = order[j]
      OBVIOUS
    <3>2. Below(source, q)
      BY <2>5, <3>1, UnderIs
    <3>3. q \in Paths /\ Len(p) \in Nat /\ p # <<>> /\ Len(q) = Len(p) - 1
          /\ \A k \in 1 .. Len(p) - 1 : q[k] = p[k]
      <4>1. p # <<>> /\ Len(p) \in Nat
        BY <2>5, PathIs, BelowIs
      <4> QED
        BY <2>5, <4>1, ParentIs
    <3>4. q \in DOMAIN fs
      <4>1. IsDirectory(fs, q)
        BY <2>5 DEF IsFileSystem
      <4>2. q # <<>>
        <5>1. Len(source) \in Nat /\ Len(source) < Len(q)
          BY <3>2, <3>3, PathIs, BelowIs
        <5> QED
          BY <5>1, EmptyPath
      <4> QED
        BY <4>1, <4>2 DEF IsDirectory
    <3>5. Below(q, p)
      <4>1. Len(q) < Len(p) /\ \A k \in 1 .. Len(q) : q[k] = p[k]
        BY <3>3
      <4> QED
        BY <2>5, <3>3, <4>1, BelowIs
    <3>6. q \in Range(order)
      BY <1>3, <1>4, <3>2, <3>4
    <3>7. PICK j \in 1 .. n : q = order[j]
      BY <1>4, <3>6 DEF Range
    <3>8. j < i + 1
      BY <1>4, <2>2, <3>5, <3>7
    <3> HIDE DEF q
    <3> QED
      BY <3>7, <3>8
  <2>7. Entered(CopyEntry(v[i], order[i + 1]), order, i + 1)
    BY <2>3, <2>5, <2>6, EnteredMore
  <2> QED
    BY <2>4, <2>7
<1>9. n \in Good
  <2> HIDE DEF Good
  <2> QED
    BY <1>4, <1>7, <1>8, AllSizes
<1>10. Entered(v[n], order, n)
  BY <1>4, <1>9
<1>11. Entered(v[n], order, 0)
  BY <1>10 DEF Entered
<1> QED
  BY <1>5, <1>11 DEF c

-------------------------------------------------------------------------------
(* The inductive invariant. *)

\* What a step may do to a file system: only a report is ever written again, and a file
\* may come behind a dangling link.
Grows(f, g) ==
  /\ DOMAIN f \subseteq DOMAIN g
  /\ \A p \in DOMAIN f :
       \/ g[p] = f[p]
       \/ IsReport(p) /\ f[p].kind = "file" /\ g[p].kind = "file"
       \/ f[p].kind = "dangling" /\ g[p].kind = "file"

Types ==
  /\ IsFileSystem(fs) /\ debug \in BOOLEAN
  /\ source \in Paths \cup {Unset} /\ destination \in Paths \cup {Unset}
  /\ parentPathLength \in Nat /\ IsCut
  /\ destination # Unset => IsDirectory(fs, Parent(destination))
  /\ directories \in Seq(DirectoriesOf(fs)) /\ assets \in Seq(FilesOf(fs))
  /\ destFiles \in Seq(Paths)
  /\ sourceChecksums \in Seq(Nat) /\ destChecksums \in Seq(Nat)
  /\ Len(sourceChecksums) = Len(destChecksums)
  /\ sourceQueueIndex \in Nat /\ transferred \in Nat
  /\ progress \in [maximum : Nat, state : Nat]
  /\ outcome \in Outcomes /\ repeats \in Nat

\* What a tree has that was gathered once.
Gathered ==
  /\ source \in Paths /\ IsDirectory(fs, source) /\ parentPathLength = Measure(source)
  /\ \A k \in DOMAIN directories : Below(source, directories[k])
  /\ IsInjective(assets)
  /\ \A k \in DOMAIN assets :
       /\ Below(source, assets[k])
       /\ Parent(assets[k]) = source \/ Parent(assets[k]) \in Range(directories)

\* Which files are below the source besides the gathered ones.
Accounted ==
  source # <<>> =>
    \A p \in DOMAIN fs : fs[p].kind = "file" /\ Below(source, p) =>
      \/ p \in Range(assets) \cup Range(destFiles)
      \/ destination # Unset /\ p = destination \o <<Report>>
      \/ \E q \in DOMAIN fs : fs[q].kind = "link" /\ Below(q, p)
      \/ "_sys_file_copy" \in copied /\ destination # Unset /\ IsPrefix(destination, source)

\* What _stage() has done for it.
Prepared ==
  /\ source # Unset /\ destination # Unset /\ Len(destFiles) = Len(assets)
  /\ \A k \in 1 .. Len(assets) : destFiles[k] = GetRelativeDest(assets[k])
  /\ \A k \in DOMAIN directories : \A q \in Ancestry(GetRelativeDest(directories[k])) :
       IsDirectory(fs, q)

\* The sizes of the gathered files, and of those at their destinations.
Sizes == [k \in DOMAIN assets |-> fs[assets[k]].size]
DestSizes == [k \in DOMAIN destFiles |-> fs[destFiles[k]].size]
NoReport == \A p \in Range(assets) \cup Range(destFiles) : ~IsReport(p)

\* A file that was counted, and the one that was found or left for it.
Paired(k) ==
  /\ k \in DOMAIN assets /\ k \in DOMAIN destFiles
  /\ fs[assets[k]].kind = "file"
  /\ destFiles[k] \in DOMAIN fs /\ fs[destFiles[k]].kind = "file"
  /\ debug => fs[destFiles[k]].size = fs[assets[k]].size

\* What the progress says of the files, whatever was called before: the bytes that were
\* counted are those of the files that were found or left at the destinations.
Counted ==
  /\ measured \in BOOLEAN /\ recounted \in BOOLEAN
  /\ counted \subseteq DOMAIN assets \cap DOMAIN destFiles
  /\ "_run_copier" \notin copied => progress.state <= transferred
  /\ measured => \A k \in DOMAIN assets : fs[assets[k]].kind = "file"
  /\ NoReport =>
       /\ measured => progress.maximum = SumFunctionOnSet(Sizes, DOMAIN assets)
       /\ \A k \in counted : Paired(k)
       /\ ~recounted => transferred = SumFunctionOnSet(DestSizes, counted)

Nothing == directories = <<>> /\ assets = <<>> /\ destFiles = <<>>

Once ==
  Fresh =>
    /\ source = Unset => Nothing
    /\ source # Unset => Gathered /\ Accounted
    /\ destFiles # <<>> => Prepared

\* How the last call ended.
Ended ==
  /\ Fresh /\ outcome = "stuck" /\ directories # <<>> =>
       \E k \in DOMAIN assets : /\ fs[assets[k]].size > 0
                               /\ destFiles[k] \in DOMAIN fs
                               /\ fs[destFiles[k]] \in {File(0, 0), Broken}
  /\ outcome = "match" =>
       \A k \in DOMAIN assets :
         k \in DOMAIN destFiles /\ Checksum(destFiles[k]) = fs[assets[k]].data

IInv == Types /\ Once /\ Ended /\ Counted

-------------------------------------------------------------------------------
(* What a step leaves as it was. *)

LEMMA KeepsGrows ==
  ASSUME NEW f, NEW g, Keeps(f, g)
  PROVE  Grows(f, g)
BY DEF Keeps, Grows

LEMMA FillsGrows ==
  ASSUME NEW f, NEW g, NEW S, Fills(f, g, S)
  PROVE  Grows(f, g)
BY DEF Fills, Grows

LEMMA GrowsMore ==
  ASSUME NEW f, NEW g, Grows(f, g)
  PROVE  /\ DOMAIN f \subseteq DOMAIN g
         /\ \A p : IsDirectory(f, p) => IsDirectory(g, p)
         /\ \A p \in DOMAIN f : f[p].kind = "file" => g[p].kind = "file"
         /\ \A p \in DOMAIN f : f[p].kind = "file" /\ ~IsReport(p) => g[p] = f[p]
         /\ \A p \in DOMAIN f : f[p].kind \notin {"file", "dangling"} => g[p] = f[p]
         /\ DirectoriesOf(f) \subseteq DirectoriesOf(g) /\ FilesOf(f) \subseteq FilesOf(g)
<1>1. /\ \A p \in DOMAIN f : f[p].kind = "file" => g[p].kind = "file"
      /\ \A p \in DOMAIN f : f[p].kind = "file" /\ ~IsReport(p) => g[p] = f[p]
  BY DEF Grows
<1>2. \A p \in DOMAIN f : f[p].kind \notin {"file", "dangling"} => g[p] = f[p]
  BY DEF Grows
<1>3. \A p : IsDirectory(f, p) => IsDirectory(g, p)
  BY <1>2 DEF IsDirectory, Grows
<1>4. DirectoriesOf(f) \subseteq DirectoriesOf(g)
  BY <1>3 DEF DirectoriesOf, Grows
<1>5. ASSUME NEW p \in FilesOf(f) PROVE p \in FilesOf(g)
  <2>1. p \in DOMAIN f /\ p # <<>> /\ ~IsDirectory(f, p) /\ p \in DOMAIN g
    BY DEF FilesOf, Grows
  <2>2. f[p].kind \notin {"dir", "link"}
    BY <2>1 DEF IsDirectory
  <2>3. g[p] = f[p] \/ g[p].kind = "file"
    BY <2>1 DEF Grows
  <2>4. g[p].kind \notin {"dir", "link"}
    BY <2>2, <2>3
  <2> QED
    BY <2>1, <2>4 DEF FilesOf, IsDirectory
<1>6. DOMAIN f \subseteq DOMAIN g
  BY DEF Grows
<1> QED
  BY <1>1, <1>2, <1>3, <1>4, <1>5, <1>6

\* The types of what depends on the file system.
LEMMA TypesKept ==
  ASSUME Types, IsFileSystem(fs'), Grows(fs, fs'), UNCHANGED <<setup, lists>>
  PROVE  /\ source' \in Paths \cup {Unset} /\ destination' \in Paths \cup {Unset}
         /\ parentPathLength' \in Nat /\ IsCut'
         /\ (destination # Unset => IsDirectory(fs, Parent(destination)))'
         /\ directories' \in Seq(DirectoriesOf(fs')) /\ assets' \in Seq(FilesOf(fs'))
<1>1. /\ source' = source /\ destination' = destination /\ parentPathLength' = parentPathLength
      /\ directories' = directories /\ assets' = assets
  BY DEF setup, lists
<1>2. /\ source \in Paths \cup {Unset} /\ destination \in Paths \cup {Unset}
      /\ parentPathLength \in Nat /\ IsCut
      /\ destination # Unset => IsDirectory(fs, Parent(destination))
      /\ directories \in Seq(DirectoriesOf(fs)) /\ assets \in Seq(FilesOf(fs))
  BY DEF Types
<1>3. /\ \A p : IsDirectory(fs, p) => IsDirectory(fs', p)
      /\ DirectoriesOf(fs) \subseteq DirectoriesOf(fs') /\ FilesOf(fs) \subseteq FilesOf(fs')
  BY GrowsMore
<1>4. \A S, T : S \subseteq T => Seq(S) \subseteq Seq(T)
  OBVIOUS
<1>5. directories' \in Seq(DirectoriesOf(fs')) /\ assets' \in Seq(FilesOf(fs'))
  BY <1>1, <1>2, <1>3, <1>4
<1>6. IsCut'
  BY <1>1, <1>2 DEF IsCut
<1>7. (destination # Unset => IsDirectory(fs, Parent(destination)))'
  BY <1>1, <1>2, <1>3
<1> QED
  BY <1>1, <1>2, <1>5, <1>6, <1>7

-------------------------------------------------------------------------------
(* Sizes and checksums. *)

LEMMA SizeIs ==
  ASSUME NEW f, IsFileSystem(f), NEW list \in Seq(FilesOf(f))
  PROVE  LET sizes == [k \in DOMAIN list |-> f[list[k]].size]
         IN  /\ SizeOf(f, list) = SumFunctionOnSet(sizes, DOMAIN list)
             /\ SizeOf(f, list) \in Nat
             /\ IsFiniteSet(DOMAIN list) /\ \A k \in DOMAIN list : sizes[k] \in Nat
<1> DEFINE sizes == [k \in DOMAIN list |-> f[list[k]].size]
           D == DOMAIN list
<1>1. /\ Len(list) \in Nat /\ D = 1 .. Len(list)
      /\ \A k \in 1 .. Len(list) : list[k] \in DOMAIN f
  BY ListIs
<1>2. IsFiniteSet(D)
  BY <1>1, FS_Interval
<1>3. f \in [DOMAIN f -> Nodes]
  BY DEF IsFileSystem
<1>4. \A k \in D : sizes[k] \in Nat
  BY <1>1, <1>3, Node
<1>5. DOMAIN sizes = D
  OBVIOUS
<1>6. SizeOf(f, list) = SumFunctionOnSet(sizes, D)
  BY <1>5 DEF SizeOf, SumFunction
<1> HIDE DEF sizes, D
<1>7. SumFunctionOnSet(sizes, D) \in Nat
  BY <1>2, <1>4, SumIsNatural
<1> QED
  BY <1>2, <1>4, <1>6, <1>7 DEF sizes, D

\* The loops that compute checksums.
LEMMA HashIs ==
  ASSUME Types, NEW files \in Seq(Paths), NEW sums \in Seq(Nat)
  PROVE  LET all == HashFiles(files, sums)
         IN  /\ all.sums \in Seq(Nat) /\ Len(all.sums) = Len(sums) /\ all.threw \in BOOLEAN
             /\ ~all.threw => \A k \in DOMAIN assets :
                  k \in DOMAIN files /\ all.sums[k] = Checksum(files[k])
<1> DEFINE Fails(k) == k > Len(files) \/ k > Len(sums) \/ CannotHash(files[k])
           Hashed(k) == ~\E j \in 1 .. k : Fails(j)
           all == HashFiles(files, sums)
           new == [k \in DOMAIN sums |-> IF k \in DOMAIN assets /\ Hashed(k)
                                        THEN Checksum(files[k]) ELSE sums[k]]
<1>1. /\ all.sums = new /\ all.threw = (\E k \in DOMAIN assets : Fails(k))
  BY DEF HashFiles
<1>2. /\ Len(files) \in Nat /\ DOMAIN files = 1 .. Len(files)
      /\ Len(sums) \in Nat /\ DOMAIN sums = 1 .. Len(sums)
      /\ \A k \in 1 .. Len(sums) : sums[k] \in Nat
  OBVIOUS
<1>3. Len(assets) \in Nat /\ DOMAIN assets = 1 .. Len(assets)
  BY ListIs DEF Types
<1>4. fs \in [DOMAIN fs -> Nodes]
  BY DEF Types, IsFileSystem
<1>5. ASSUME NEW k \in DOMAIN sums, Hashed(k) PROVE Checksum(files[k]) \in Nat
  <2>1. ~CannotHash(files[k])
    BY <1>2, <1>5
  <2>2. IsDirectory(fs, files[k]) \/ files[k] \in DOMAIN fs
    BY <2>1 DEF CannotHash, IsDirectory, Exists
  <2> QED
    BY <1>4, <2>2, Node DEF Checksum
<1>6. new \in Seq(Nat) /\ Len(new) = Len(sums)
  <2>1. \A k \in 1 .. Len(sums) : new[k] \in Nat
    BY <1>2, <1>5
  <2>2. DOMAIN new = 1 .. Len(sums)
    BY <1>2
  <2>3. new \in [1 .. Len(sums) -> Nat]
    <3> HIDE DEF Hashed, Fails
    <3> QED
      BY <1>2, <2>1
  <2> HIDE DEF new
  <2> QED
    BY <1>2, <2>2, <2>3
<1>7. ASSUME \A j \in DOMAIN assets : ~Fails(j), NEW k \in DOMAIN assets
      PROVE  k \in DOMAIN files /\ new[k] = Checksum(files[k])
  <2>1. k \in Nat /\ 1 <= k /\ k <= Len(files) /\ k <= Len(sums)
    BY <1>2, <1>3, <1>7
  <2>2. \A j \in 1 .. k : j \in DOMAIN assets
    BY <1>3, <2>1
  <2>3. Hashed(k)
    BY <1>7, <2>2
  <2> HIDE DEF Hashed, Fails
  <2> QED
    BY <1>2, <1>7, <2>1, <2>3
<1> QED
  BY <1>1, <1>6, <1>7

LEMMA ProgressIs ==
  ASSUME NEW bar \in [maximum : Nat, state : Nat], NEW m \in Nat, NEW s \in Nat
  PROVE  /\ SetProgress(bar, s) = [maximum |-> bar.maximum, state |-> s]
         /\ SetProgress(bar, s) \in [maximum : Nat, state : Nat]
         /\ SetProgress(SetMaximum(bar, m), s) = [maximum |-> m, state |-> s]
         /\ SetProgress(SetMaximum(bar, m), s) \in [maximum : Nat, state : Nat]
<1>1. bar = [maximum |-> bar.maximum, state |-> bar.state] /\ bar.maximum \in Nat
  OBVIOUS
<1>2. SetProgress(bar, s) = [maximum |-> bar.maximum, state |-> s]
  BY <1>1 DEF SetProgress
<1>3. SetMaximum(bar, m) = [maximum |-> m, state |-> bar.state]
  BY <1>1 DEF SetMaximum
<1> DEFINE new == SetMaximum(bar, m)
<1> HIDE DEF new
<1>4. SetProgress(new, s) = [maximum |-> m, state |-> s]
  BY <1>3 DEF SetProgress, new
<1> QED
  BY <1>1, <1>2, <1>4 DEF new

-------------------------------------------------------------------------------
(* Types, and how file systems change. *)

LEMMA SetSourceTypes ==
  ASSUME Types, NEW p \in Paths, SetSource(p)
  PROVE  Types' /\ fs' = fs /\ Extends(assets', assets)
<1>1. /\ source' = p /\ parentPathLength' = Measure(p) /\ fs' = fs /\ debug' = debug
      /\ destination' = destination /\ sourceQueueIndex' = sourceQueueIndex
      /\ transferred' = transferred /\ destFiles' = destFiles
      /\ sourceChecksums' = sourceChecksums /\ destChecksums' = destChecksums
      /\ repeats' = IF source # Unset \/ outcome' # "ok" THEN repeats + 1 ELSE repeats
  BY DEF SetSource, Repeat, staging
<1>2. PICK order \in IF IsDirectory(fs, p) THEN Orders(Visited(fs, p)) ELSE {<<>>} :
        /\ directories' = Gather(fs, directories, assets, order).directories
        /\ assets' = Gather(fs, directories, assets, order).assets
  BY DEF SetSource
<1>3. /\ IsFileSystem(fs) /\ directories \in Seq(DirectoriesOf(fs)) /\ assets \in Seq(FilesOf(fs))
      /\ debug \in BOOLEAN /\ destination \in Paths \cup {Unset}
      /\ destination # Unset => IsDirectory(fs, Parent(destination))
      /\ destFiles \in Seq(Paths)
      /\ sourceChecksums \in Seq(Nat) /\ destChecksums \in Seq(Nat)
      /\ Len(sourceChecksums) = Len(destChecksums)
      /\ sourceQueueIndex \in Nat /\ transferred \in Nat
      /\ progress \in [maximum : Nat, state : Nat]
      /\ outcome \in Outcomes /\ repeats \in Nat
  BY DEF Types
<1>4. /\ directories' \in Seq(DirectoriesOf(fs)) /\ assets' \in Seq(FilesOf(fs))
      /\ Extends(assets', assets)
  BY <1>2, <1>3, SourceIsListed
<1>5. Measure(p) \in Nat /\ IsCut'
  <2>1. Measure(p) = IF Len(p) <= 1 THEN 1 ELSE 2 * (Len(p) - 1)
    BY MeasureIs
  <2>2. Len(p) \in Nat
    BY PathIs
  <2>3. CASE Len(p) <= 1
    BY <1>1, <2>1, <2>3 DEF IsCut
  <2>4. CASE ~(Len(p) <= 1)
    <3> DEFINE n == Len(p) - 1
    <3>1. n \in Nat /\ Measure(p) = 2 * n
      BY <2>1, <2>2, <2>4
    <3> HIDE DEF n
    <3> QED
      BY <1>1, <3>1 DEF IsCut
  <2> QED
    BY <2>3, <2>4
<1>6. progress' \in [maximum : Nat, state : Nat] /\ outcome' \in Outcomes
  <2>1. \/ progress' = SetProgress(SetMaximum(progress, SizeOf(fs, assets')), 0) /\ outcome' = "ok"
        \/ outcome' = "threw" /\ progress' = progress
    BY DEF SetSource
  <2>2. SizeOf(fs, assets') \in Nat
    BY <1>3, <1>4, SizeIs
  <2>3. SetProgress(SetMaximum(progress, SizeOf(fs, assets')), 0) \in [maximum : Nat, state : Nat]
    BY <1>3, <2>2, ProgressIs
  <2> QED
    BY <1>3, <2>1, <2>3 DEF Outcomes
<1>7. repeats' \in Nat
  BY <1>1, <1>3
<1>8. (destination # Unset => IsDirectory(fs, Parent(destination)))'
  BY <1>1, <1>3
<1> QED
  BY <1>1, <1>3, <1>4, <1>5, <1>6, <1>7, <1>8 DEF Types

LEMMA SetDestinationTypes ==
  ASSUME Types, NEW p \in DOMAIN fs, SetDestination(p)
  PROVE  Types' /\ fs' = fs
<1>1. /\ destination' = p /\ fs' = fs /\ debug' = debug /\ source' = source
      /\ parentPathLength' = parentPathLength /\ directories' = directories
      /\ assets' = assets /\ destFiles' = destFiles
      /\ sourceChecksums' = sourceChecksums /\ destChecksums' = destChecksums
      /\ sourceQueueIndex' = sourceQueueIndex /\ progress' = progress
      /\ transferred' = transferred /\ outcome' = "ok"
      /\ repeats' = IF destination # Unset THEN repeats + 1 ELSE repeats
  BY DEF SetDestination, Repeat, staging, counters, lists
<1>2. p \in Paths /\ IsDirectory(fs, Parent(p))
  BY DEF Types, IsFileSystem
<1>3. repeats' \in Nat /\ outcome' \in Outcomes
  BY <1>1 DEF Types, Outcomes
<1>4. (destination # Unset => IsDirectory(fs, Parent(destination)))'
  BY <1>1, <1>2
<1>5. IsCut'
  BY <1>1 DEF Types, IsCut
<1> QED
  BY <1>1, <1>2, <1>3, <1>4, <1>5 DEF Types

LEMMA ResetTypes ==
  ASSUME Types, Reset
  PROVE  Types' /\ fs' = fs /\ ~Fresh'
<1>1. /\ source' = Unset /\ destination' = Unset /\ parentPathLength' = 0
      /\ destFiles' = <<>> /\ sourceQueueIndex' = 0 /\ transferred' = 0
      /\ sourceChecksums' = [k \in DOMAIN sourceChecksums |-> 0]
      /\ destChecksums' = [k \in DOMAIN destChecksums |-> 0]
      /\ progress' = SetProgress(SetMaximum(progress, 0), 0)
      /\ outcome' = "ok" /\ repeats' = repeats + 1
      /\ fs' = fs /\ debug' = debug /\ directories' = directories /\ assets' = assets
  BY DEF Reset, Repeat, lists
<1>2. /\ IsFileSystem(fs) /\ directories \in Seq(DirectoriesOf(fs)) /\ assets \in Seq(FilesOf(fs))
      /\ debug \in BOOLEAN
      /\ sourceChecksums \in Seq(Nat) /\ destChecksums \in Seq(Nat)
      /\ Len(sourceChecksums) = Len(destChecksums)
      /\ progress \in [maximum : Nat, state : Nat] /\ repeats \in Nat
  BY DEF Types
<1>3. /\ sourceChecksums' \in Seq(Nat) /\ destChecksums' \in Seq(Nat)
      /\ Len(sourceChecksums') = Len(destChecksums')
  BY <1>1, <1>2
<1>4. progress' \in [maximum : Nat, state : Nat] /\ outcome' \in Outcomes
  BY <1>1, <1>2 DEF SetProgress, SetMaximum, Outcomes
<1>5. repeats' \in Nat /\ repeats' # 0 /\ destFiles' \in Seq(Paths)
  BY <1>1, <1>2
<1>6. IsCut' /\ parentPathLength' \in Nat
  <2>1. 0 = 2 * 0
    OBVIOUS
  <2> QED
    BY <1>1, <2>1 DEF IsCut
<1>7. (destination # Unset => IsDirectory(fs, Parent(destination)))'
  BY <1>1
<1>8. ~Fresh'
  BY <1>5 DEF Fresh
<1> QED
  BY <1>1, <1>2, <1>3, <1>4, <1>5, <1>6, <1>7, <1>8 DEF Types

\* The lists of checksums.
LEMMA AllocatedIs ==
  ASSUME Types
  PROVE  /\ Allocated(sourceChecksums) \in Seq(Nat) /\ Allocated(destChecksums) \in Seq(Nat)
         /\ Len(Allocated(sourceChecksums)) = Len(Allocated(destChecksums))
<1> DEFINE zeros == [k \in DOMAIN assets |-> 0]
<1>1. /\ sourceChecksums \in Seq(Nat) /\ destChecksums \in Seq(Nat)
      /\ Len(sourceChecksums) = Len(destChecksums)
  BY DEF Types
<1>2. Len(assets) \in Nat /\ DOMAIN assets = 1 .. Len(assets)
  BY ListIs DEF Types
<1>3. zeros \in Seq(Nat)
  BY <1>2
<1> HIDE DEF zeros
<1>6. CASE debug /\ sourceChecksums # <<>> /\ destChecksums # <<>>
  BY <1>1, <1>6 DEF Allocated
<1>7. CASE ~(debug /\ sourceChecksums # <<>> /\ destChecksums # <<>>)
  <2>1. /\ Allocated(sourceChecksums) = sourceChecksums \o zeros
        /\ Allocated(destChecksums) = destChecksums \o zeros
    BY <1>7 DEF Allocated, zeros
  <2>2. \A sums \in Seq(Nat) : sums \o zeros \in Seq(Nat) /\ Len(sums \o zeros) = Len(sums) + Len(zeros)
    BY <1>3
  <2> QED
    BY <1>1, <2>1, <2>2
<1> QED
  BY <1>6, <1>7

LEMMA StageTypes ==
  ASSUME Types, Stage
  PROVE  /\ Types' /\ Keeps(fs, fs') /\ Extends(destFiles', destFiles)
         /\ \A p \in DOMAIN fs' : p \notin DOMAIN fs => fs'[p].kind = "dir"
         /\ destFiles = <<>> /\ outcome' = "ok" /\ source # Unset /\ destination # Unset =>
              /\ Len(destFiles') = Len(assets)
              /\ \A k \in 1 .. Len(assets) : destFiles'[k] = GetRelativeDest(assets[k])
              /\ \A k \in DOMAIN directories :
                   \A q \in Ancestry(GetRelativeDest(directories[k])) : IsDirectory(fs', q)
<1> DEFINE made == CreateDestDirStructure
           listed == EnumerateDestFiles
<1>1. /\ UNCHANGED <<setup, lists>> /\ debug' = debug /\ sourceQueueIndex' = sourceQueueIndex
      /\ progress' = progress /\ transferred' = transferred
      /\ repeats' \in {repeats, repeats + 1}
  BY DEF Stage, Repeat, counters
<1>2. \/ StageThrows /\ fs' = fs /\ destFiles' = destFiles
      \/ /\ fs' = made.fs
         /\ destFiles' = IF made.threw THEN destFiles ELSE listed.files
         /\ \/ StageThrows
            \/ /\ ~made.threw /\ ~listed.threw
               /\ sourceChecksums' = Allocated(sourceChecksums)
               /\ destChecksums' = Allocated(destChecksums)
               /\ outcome' = "ok"
  BY DEF Stage
<1>3. /\ IsFileSystem(fs) /\ directories \in Seq(DirectoriesOf(fs)) /\ assets \in Seq(FilesOf(fs))
      /\ debug \in BOOLEAN /\ destination \in Paths \cup {Unset} /\ IsCut
      /\ destFiles \in Seq(Paths)
      /\ sourceChecksums \in Seq(Nat) /\ destChecksums \in Seq(Nat)
      /\ Len(sourceChecksums) = Len(destChecksums)
      /\ sourceQueueIndex \in Nat /\ transferred \in Nat
      /\ progress \in [maximum : Nat, state : Nat] /\ repeats \in Nat
  BY DEF Types
<1>4. Made(made, Len(directories))
  BY <1>3, DirectoriesMade
<1>5. Enumerated(listed, Len(assets))
  BY <1>3, FilesEnumerated
<1>6. /\ IsFileSystem(made.fs) /\ Keeps(fs, made.fs) /\ made.threw \in BOOLEAN
      /\ \A p \in DOMAIN made.fs : p \notin DOMAIN fs => made.fs[p] = Dir
      /\ ~made.threw =>
           \A k \in 1 .. Len(directories) :
             \A p \in Ancestry(GetRelativeDest(directories[k])) : IsDirectory(made.fs, p)
  BY <1>4 DEF Made
<1>7. /\ listed.files \in Seq(Paths) /\ listed.threw \in BOOLEAN
      /\ Extends(listed.files, destFiles)
      /\ ~listed.threw /\ destFiles = <<>> =>
           /\ Len(listed.files) = Len(assets)
           /\ \A k \in 1 .. Len(assets) : listed.files[k] = GetRelativeDest(assets[k])
  BY <1>5 DEF Enumerated
<1>8. Len(directories) \in Nat /\ DOMAIN directories = 1 .. Len(directories)
  BY <1>3, ListIs
<1> HIDE DEF made, listed
<1>9. /\ IsFileSystem(fs') /\ Keeps(fs, fs')
      /\ \A p \in DOMAIN fs' : p \notin DOMAIN fs => fs'[p].kind = "dir"
  <2>1. Keeps(fs, fs)
    BY DEF Keeps
  <2> QED
    BY <1>2, <1>3, <1>6, <2>1 DEF Dir, Empty
<1>10. /\ sourceChecksums' \in Seq(Nat) /\ destChecksums' \in Seq(Nat)
       /\ Len(sourceChecksums') = Len(destChecksums')
       /\ outcome' \in Outcomes
  BY <1>2, <1>3, AllocatedIs DEF StageThrows, Outcomes
<1>11. destFiles' \in Seq(Paths) /\ Extends(destFiles', destFiles)
  <2>1. Extends(destFiles, destFiles)
    BY DEF Extends
  <2> QED
    BY <1>2, <1>3, <1>7, <2>1
<1>12. Grows(fs, fs')
  BY <1>9, KeepsGrows
<1>13. Types'
  BY <1>1, <1>3, <1>9, <1>10, <1>11, <1>12, TypesKept DEF Types
<1>14. ASSUME destFiles = <<>>, outcome' = "ok"
       PROVE  /\ Len(destFiles') = Len(assets)
              /\ \A k \in 1 .. Len(assets) : destFiles'[k] = GetRelativeDest(assets[k])
              /\ \A k \in DOMAIN directories :
                   \A q \in Ancestry(GetRelativeDest(directories[k])) : IsDirectory(fs', q)
  <2>1. ~StageThrows
    BY <1>14 DEF StageThrows
  <2>2. /\ fs' = made.fs /\ ~made.threw /\ ~listed.threw /\ destFiles' = listed.files
    BY <1>2, <2>1
  <2> QED
    BY <1>6, <1>7, <1>8, <1>14, <2>2
<1> QED
  BY <1>9, <1>11, <1>13, <1>14

\* Where a copier may add to the file system.
LEMMA RunCopierTypes ==
  ASSUME Types, RunCopier
  PROVE  /\ Types' /\ Fills(fs, fs', Range(destFiles))
         /\ outcome' \in {"ok", "threw", "stuck"}
         /\ outcome' = "stuck" => \E k \in DOMAIN assets : Hangs(fs', k)
         /\ sourceQueueIndex = 0 /\ outcome' = "ok" =>
              \A k \in 1 .. Len(assets) : k \in DOMAIN destFiles /\ destFiles[k] \in DOMAIN fs'
         /\ progress'.maximum = progress.maximum
<1> DEFINE all == FoldLeft(TakeNext, [fs |-> fs, outcome |-> "ok", index |-> sourceQueueIndex,
                                      state |-> progress.state], QueueLeft)
<1>1. /\ fs' = all.fs /\ outcome' = all.outcome
      /\ progress' = SetProgress(progress, all.state)
      /\ sourceQueueIndex' = IF all.outcome = "ok" THEN all.index + 1 ELSE all.index
  BY DEF RunCopier
<1>2. /\ UNCHANGED <<setup, lists>> /\ debug' = debug /\ destFiles' = destFiles
      /\ sourceChecksums' = sourceChecksums /\ destChecksums' = destChecksums
      /\ transferred' = transferred /\ repeats' = repeats
  BY DEF RunCopier, Use, staging
<1>3. /\ IsFileSystem(fs) /\ assets \in Seq(FilesOf(fs)) /\ destFiles \in Seq(Paths)
      /\ sourceQueueIndex \in Nat /\ progress \in [maximum : Nat, state : Nat]
  BY DEF Types
<1>4. Copied(all, 0) /\ (sourceQueueIndex = 0 => Copied(all, Len(assets)))
  BY <1>3, FilesCopied
<1> HIDE DEF all
<1>5. /\ IsFileSystem(all.fs) /\ Fills(fs, all.fs, Range(destFiles))
      /\ all.outcome \in {"ok", "threw", "stuck"} /\ all.index \in Nat /\ all.state \in Nat
      /\ all.outcome = "stuck" => \E k \in DOMAIN assets : Hangs(all.fs, k)
  BY <1>4 DEF Copied
<1>6. ASSUME sourceQueueIndex = 0, all.outcome = "ok", NEW k \in 1 .. Len(assets)
      PROVE  k \in DOMAIN destFiles /\ destFiles[k] \in DOMAIN all.fs
  <2>1. 0 + k = k
    BY <1>3, ListIs
  <2> QED
    BY <1>4, <1>6, <2>1 DEF Copied
<1>7. Grows(fs, fs') /\ IsFileSystem(fs')
  BY <1>1, <1>5, FillsGrows
<1>8. /\ progress' = [maximum |-> progress.maximum, state |-> all.state]
      /\ progress' \in [maximum : Nat, state : Nat]
  <2>1. 0 \in Nat
    OBVIOUS
  <2> QED
    BY <1>1, <1>3, <1>5, <2>1, ProgressIs
<1>9. sourceQueueIndex' \in Nat /\ outcome' \in Outcomes
  BY <1>1, <1>5 DEF Outcomes
<1>10. Types'
  BY <1>2, <1>7, <1>8, <1>9, TypesKept DEF Types
<1> QED
  BY <1>1, <1>5, <1>6, <1>8, <1>10

LEMMA CopyFileTypes ==
  ASSUME Types, NEW k \in DOMAIN assets \cap DOMAIN destFiles, CopyFile(k)
  PROVE  /\ Types' /\ Fills(fs, fs', {destFiles[k]})
         /\ outcome' \in {"ok", "threw", "stuck"}
         /\ outcome' = "stuck" => Hangs(fs', k)
         /\ outcome' = "ok" =>
              /\ fs[assets[k]].kind = "file"
              /\ destFiles[k] \in DOMAIN fs' /\ fs'[destFiles[k]].kind = "file"
              /\ debug => fs'[destFiles[k]].size = fs[assets[k]].size
              /\ transferred' = transferred + fs'[destFiles[k]].size
              /\ progress' = [maximum |-> progress.maximum, state |-> transferred']
              /\ counted' = counted \cup {k} /\ recounted' = (recounted \/ k \in counted)
         /\ outcome' # "ok" => UNCHANGED <<transferred, progress, counted, recounted>>
<1> DEFINE from == assets[k]
           to == destFiles[k]
           one == CopyOne(fs, from, to)
<1>1. /\ fs' = one.fs /\ outcome' = one.outcome
      /\ one.outcome = "ok" =>
           /\ transferred' = transferred + one.bytes
           /\ progress' = SetProgress(progress, transferred')
           /\ counted' = counted \cup {k} /\ recounted' = (recounted \/ k \in counted)
      /\ one.outcome # "ok" => UNCHANGED <<transferred, progress, counted, recounted>>
  BY DEF CopyFile, CountTransferred
<1>2. /\ UNCHANGED <<setup, lists>> /\ debug' = debug /\ destFiles' = destFiles
      /\ sourceChecksums' = sourceChecksums /\ destChecksums' = destChecksums
      /\ sourceQueueIndex' = sourceQueueIndex /\ repeats' = repeats
  BY DEF CopyFile, Use, staging
<1>3. /\ IsFileSystem(fs) /\ assets \in Seq(FilesOf(fs)) /\ destFiles \in Seq(Paths)
      /\ transferred \in Nat /\ progress \in [maximum : Nat, state : Nat]
  BY DEF Types
<1>4. from \in DOMAIN fs /\ to \in Paths
  BY <1>3, ListIs
<1>5. /\ IsFileSystem(one.fs) /\ Fills(fs, one.fs, {to})
      /\ one.bytes \in Nat /\ one.outcome \in {"ok", "threw", "stuck"}
      /\ one.outcome = "ok" =>
           /\ fs[from].kind = "file"
           /\ to \in DOMAIN one.fs /\ one.fs[to].kind = "file"
           /\ one.bytes = one.fs[to].size
           /\ debug => one.bytes = fs[from].size
      /\ one.outcome = "stuck" =>
           /\ fs[from].kind = "file" /\ fs[from].size > 0
           /\ \/ ~IsDirectory(fs, Parent(to))
              \/ to \in DOMAIN one.fs /\ one.fs[to] \in {File(0, 0), Broken}
  <2> HIDE DEF from, to
  <2> QED
    BY <1>3, <1>4, CopyIs
<1>6. one.outcome = "stuck" => Hangs(one.fs, k)
  <2>1. one.outcome = "stuck" => one.fs[from] = fs[from]
    <3> HIDE DEF one
    <3> QED
      BY <1>4, <1>5 DEF Fills
  <2> HIDE DEF one
  <2> QED
    BY <1>5, <2>1 DEF Hangs
<1> HIDE DEF one
<1>7. one.outcome = "ok" =>
        /\ transferred' \in Nat
        /\ progress' = [maximum |-> progress.maximum, state |-> transferred']
        /\ progress' \in [maximum : Nat, state : Nat]
  <2> DEFINE t == transferred'
  <2>1. SUFFICES ASSUME one.outcome = "ok"
                 PROVE  /\ t \in Nat
                        /\ progress' = [maximum |-> progress.maximum, state |-> t]
                        /\ progress' \in [maximum : Nat, state : Nat]
    OBVIOUS
  <2>2. t \in Nat /\ progress' = SetProgress(progress, t) /\ 0 \in Nat
    BY <1>1, <1>3, <1>5, <2>1
  <2> HIDE DEF t
  <2> QED
    BY <1>3, <2>2, ProgressIs
<1>8. transferred' \in Nat /\ progress' \in [maximum : Nat, state : Nat] /\ outcome' \in Outcomes
  <2>1. outcome' \in Outcomes
    BY <1>1, <1>5 DEF Outcomes
  <2> QED
    BY <1>1, <1>3, <1>7, <2>1
<1>9. Grows(fs, fs') /\ IsFileSystem(fs')
  BY <1>1, <1>5, FillsGrows
<1>10. Types'
  BY <1>2, <1>8, <1>9, TypesKept DEF Types
<1> QED
  BY <1>1, <1>5, <1>6, <1>7, <1>10

LEMMA SysFileCopyTypes ==
  ASSUME Types, SysFileCopy
  PROVE  /\ Types' /\ Keeps(fs, fs')
         /\ source \in Paths /\ destination \in Paths /\ ~IsPrefix(source, destination)
         /\ \A p \in DOMAIN fs' : p \in DOMAIN fs \/ IsPrefix(destination, p)
         /\ outcome' \in {"ok", "threw"}
<1>1. /\ source # Unset /\ destination # Unset /\ IsDirectory(fs, source)
      /\ ~IsPrefix(source, destination)
  BY DEF SysFileCopy
<1>2. /\ UNCHANGED <<setup, lists>> /\ debug' = debug /\ destFiles' = destFiles
      /\ sourceChecksums' = sourceChecksums /\ destChecksums' = destChecksums
      /\ sourceQueueIndex' = sourceQueueIndex /\ progress' = progress
      /\ transferred' = transferred /\ repeats' = repeats
  BY DEF SysFileCopy, Use, staging, counters
<1>3. IsFileSystem(fs) /\ source \in Paths /\ destination \in Paths
  BY <1>1 DEF Types
<1>4. PICK order \in Orders({p \in DOMAIN fs : Below(source, p)}) :
        LET all == FoldLeft(CopyEntry, [fs |-> fs, threw |-> ~IsDirectory(fs, destination)], order)
        IN  fs' = all.fs /\ outcome' = IF all.threw THEN "threw" ELSE "ok"
  BY DEF SysFileCopy
<1> DEFINE all == FoldLeft(CopyEntry, [fs |-> fs, threw |-> ~IsDirectory(fs, destination)], order)
<1>5. Entered(all, order, 0)
  BY <1>1, <1>3, EntriesCopied
<1>6. fs' = all.fs /\ outcome' = IF all.threw THEN "threw" ELSE "ok"
  BY <1>4
<1> HIDE DEF all
<1>7. /\ IsFileSystem(all.fs) /\ Keeps(fs, all.fs)
      /\ \A p \in DOMAIN all.fs : p \in DOMAIN fs \/ IsPrefix(destination, p)
  BY <1>5 DEF Entered
<1>8. Grows(fs, fs') /\ IsFileSystem(fs')
  BY <1>6, <1>7, KeepsGrows
<1>9. outcome' \in Outcomes /\ outcome' \in {"ok", "threw"}
  BY <1>6 DEF Outcomes
<1>10. Types'
  BY <1>2, <1>8, <1>9, TypesKept DEF Types
<1> QED
  BY <1>1, <1>3, <1>6, <1>7, <1>9, <1>10

\* If the checksums are compared and match, all could be computed.
Compared ==
  \A k \in DOMAIN assets :
    k \in DOMAIN destFiles /\ Checksum(assets[k]) = Checksum(destFiles[k])

LEMMA VerdictIs ==
  ASSUME Types, ~HashFiles(assets, sourceChecksums).threw, ~HashFiles(destFiles, destChecksums).threw,
         Verdict(HashFiles(assets, sourceChecksums).sums,
                 HashFiles(destFiles, destChecksums).sums) = "match"
  PROVE  Compared
<1>1. /\ assets \in Seq(Paths) /\ destFiles \in Seq(Paths)
      /\ sourceChecksums \in Seq(Nat) /\ destChecksums \in Seq(Nat)
  <2>1. assets \in Seq(FilesOf(fs)) /\ FilesOf(fs) \subseteq Paths
    BY DEF Types, FilesOf, IsFileSystem
  <2> QED
    BY <2>1 DEF Types
<1>2. \A k \in DOMAIN assets : HashFiles(assets, sourceChecksums).sums[k] = Checksum(assets[k])
  BY <1>1, HashIs
<1>3. \A k \in DOMAIN assets :
        k \in DOMAIN destFiles /\ HashFiles(destFiles, destChecksums).sums[k] = Checksum(destFiles[k])
  BY <1>1, HashIs
<1>4. \A k \in DOMAIN assets :
        HashFiles(assets, sourceChecksums).sums[k] = HashFiles(destFiles, destChecksums).sums[k]
  BY DEF Verdict
<1> QED
  BY <1>2, <1>3, <1>4 DEF Compared

\* Both members that verify change the same variables but for the queue and the threads.
LEMMA VerifyTypes ==
  ASSUME Types, Verify \/ VerifyThreaded
  PROVE  /\ Types' /\ fs' = fs
         /\ outcome' \in Outcomes \ {"stuck"} /\ (outcome' = "match" => Compared)
<1> DEFINE ofSource == HashFiles(assets, sourceChecksums)
           ofDest == HashFiles(destFiles, destChecksums)
<1>1. /\ UNCHANGED <<setup, lists>> /\ debug' = debug /\ destFiles' = destFiles /\ fs' = fs
      /\ progress' = progress /\ transferred' = transferred /\ repeats' = repeats
  BY DEF Verify, VerifyThreaded, Use, staging, counters
<1>2. /\ IsFileSystem(fs) /\ destFiles \in Seq(Paths)
      /\ sourceChecksums \in Seq(Nat) /\ destChecksums \in Seq(Nat)
      /\ Len(sourceChecksums) = Len(destChecksums) /\ sourceQueueIndex \in Nat
      /\ Len(assets) \in Nat
  BY ListIs DEF Types
<1>3. assets \in Seq(Paths)
  <2>1. assets \in Seq(FilesOf(fs)) /\ FilesOf(fs) \subseteq Paths
    BY DEF Types, FilesOf, IsFileSystem
  <2> QED
    BY <2>1
<1>4. /\ ofSource.sums \in Seq(Nat) /\ Len(ofSource.sums) = Len(sourceChecksums)
      /\ ofDest.sums \in Seq(Nat) /\ Len(ofDest.sums) = Len(destChecksums)
  BY <1>2, <1>3, HashIs
<1>5. /\ sourceChecksums' \in {sourceChecksums, ofSource.sums}
      /\ destChecksums' \in {destChecksums, ofDest.sums}
      /\ \/ outcome' \in {"threw", "aborted"}
         \/ ~ofSource.threw /\ ~ofDest.threw /\ outcome' = Verdict(ofSource.sums, ofDest.sums)
      /\ sourceQueueIndex' = sourceQueueIndex \/ sourceQueueIndex' = Len(assets) + NumThreads
  BY DEF Verify, VerifyThreaded, counters
<1>6. Verdict(ofSource.sums, ofDest.sums) \in {"match", "mismatch"}
  BY DEF Verdict
<1>7. outcome' = "match" => Compared
  BY <1>5, VerdictIs
<1> HIDE DEF ofSource, ofDest
<1>8. outcome' \in Outcomes \ {"stuck"}
  BY <1>5, <1>6 DEF Outcomes
<1>9. /\ sourceChecksums' \in Seq(Nat) /\ destChecksums' \in Seq(Nat)
      /\ Len(sourceChecksums') = Len(destChecksums')
  BY <1>2, <1>4, <1>5
<1>10. sourceQueueIndex' \in Nat
  BY <1>2, <1>5, StagingAssumption
<1>11. Grows(fs, fs')
  BY <1>1 DEF Grows
<1>12. Types'
  BY <1>1, <1>2, <1>8, <1>9, <1>10, <1>11, TypesKept DEF Types
<1> QED
  BY <1>1, <1>7, <1>8, <1>12

\* Where _create_csv() writes.
TheReport == (IF destination = Unset THEN <<>> ELSE destination) \o <<Report>>

LEMMA ReportIs ==
  ASSUME destination \in Paths \cup {Unset}
  PROVE  TheReport \in Paths /\ TheReport # <<>> /\ Last(TheReport) = Report
<1> DEFINE d == IF destination = Unset THEN <<>> ELSE destination
           name == <<Report>>
           r == d \o name
<1>1. d \in Paths
  BY EmptyPath
<1>2. name \in Paths /\ Len(name) = 1 /\ name[1] = Report
  <2>1. Report \in Names
    BY StagingAssumption
  <2> QED
    BY <2>1 DEF Paths
<1> HIDE DEF d, name
<1>3. r \in Paths /\ Len(r) = Len(d) + 1 /\ r[Len(d) + 1] = Report
  <2>1. /\ d \o name \in Paths /\ Len(d \o name) = Len(d) + Len(name)
        /\ \A i \in 1 .. Len(name) : (d \o name)[Len(d) + i] = name[i]
    BY <1>1, <1>2, ConcatIs
  <2> QED
    BY <1>2, <2>1
<1> HIDE DEF r
<1>4. Len(d) \in Nat
  BY <1>1, PathIs
<1>5. r # <<>>
  BY <1>3, <1>4, PathIs
<1>6. Last(r) = Report
  BY <1>3, <1>5, PathIs
<1> QED
  BY <1>3, <1>5, <1>6 DEF r, d, name, TheReport

LEMMA CreateCsvTypes ==
  ASSUME Types, CreateCsv
  PROVE  /\ Types' /\ Grows(fs, fs') /\ outcome' \in {"ok", "threw"}
         /\ \A p \in DOMAIN fs' : p = TheReport \/ (p \in DOMAIN fs /\ fs'[p] = fs[p])
<1> DEFINE r == TheReport
           g == [Create(fs, {r}, Placeholders) EXCEPT ![r] = Placeholders]
           opens == /\ IsDirectory(fs, Parent(r))
                    /\ r \in DOMAIN fs => fs[r].kind \in {"file", "dangling"}
<1>1. /\ fs' = IF opens THEN g ELSE fs
      /\ outcome' = IF Len(destFiles) < Len(assets) THEN "threw" ELSE "ok"
  BY DEF CreateCsv, TheReport
<1>2. /\ UNCHANGED <<setup, lists>> /\ debug' = debug /\ destFiles' = destFiles
      /\ sourceChecksums' = sourceChecksums /\ destChecksums' = destChecksums
      /\ sourceQueueIndex' = sourceQueueIndex /\ progress' = progress
      /\ transferred' = transferred /\ repeats' = repeats
  BY DEF CreateCsv, Use, staging, counters
<1>3. IsFileSystem(fs) /\ destination \in Paths \cup {Unset}
  BY DEF Types
<1>4. r \in Paths /\ r # <<>> /\ IsReport(r)
  BY <1>3, ReportIs DEF IsReport
<1>5. Placeholders.kind = "file" /\ Placeholders \in Nodes
  BY Node DEF Placeholders, File
<1>6. /\ IsFileSystem(fs') /\ Grows(fs, fs')
      /\ \A p \in DOMAIN fs' : p = r \/ (p \in DOMAIN fs /\ fs'[p] = fs[p])
  <2>1. CASE ~opens
    <3>1. fs' = fs /\ Grows(fs, fs)
      BY <1>1, <2>1 DEF Grows
    <3> QED
      BY <1>3, <3>1
  <2>2. CASE opens
    <3> DEFINE node == Placeholders
               h == [Create(fs, {r}, node) EXCEPT ![r] = node]
    <3>1. /\ IsDirectory(fs, Parent(r)) /\ node \in Nodes /\ node.kind = "file"
          /\ r \in DOMAIN fs => fs[r].kind \in {"file", "dangling"}
      BY <1>5, <2>2
    <3>2. fs' = h
      BY <1>1, <2>2
    <3> HIDE DEF node, r
    <3>3. /\ IsFileSystem(h) /\ DOMAIN h = DOMAIN fs \cup {r} /\ h[r] = node
          /\ \A p \in DOMAIN fs : p # r => h[p] = fs[p]
      BY <1>3, <1>4, <3>1, WriteOne
    <3> HIDE DEF h
    <3>4. Grows(fs, h)
      BY <1>4, <3>1, <3>3 DEF Grows
    <3>5. \A p \in DOMAIN h : p = r \/ (p \in DOMAIN fs /\ h[p] = fs[p])
      BY <3>3
    <3> QED
      BY <3>2, <3>3, <3>4, <3>5
  <2> QED
    BY <2>1, <2>2
<1>7. outcome' \in Outcomes /\ outcome' \in {"ok", "threw"}
  BY <1>1 DEF Outcomes
<1>8. Types'
  BY <1>2, <1>6, <1>7, TypesKept DEF Types
<1> QED
  BY <1>6, <1>7, <1>8

-------------------------------------------------------------------------------
(* What stays true of a tree that was gathered once. *)

LEMMA GatheredKept ==
  ASSUME Gathered, Grows(fs, fs'), source' = source, parentPathLength' = parentPathLength,
         UNCHANGED lists
  PROVE  Gathered'
<1>1. directories' = directories /\ assets' = assets
  BY DEF lists
<1>2. IsDirectory(fs', source)
  BY GrowsMore DEF Gathered
<1> QED
  BY <1>1, <1>2 DEF Gathered

LEMMA PreparedKept ==
  ASSUME Prepared, Grows(fs, fs'), UNCHANGED <<setup, lists, destFiles>>
  PROVE  Prepared'
<1>1. /\ source' = source /\ destination' = destination /\ parentPathLength' = parentPathLength
      /\ directories' = directories /\ assets' = assets /\ destFiles' = destFiles
  BY DEF setup, lists
<1>2. \A p : GetRelativeDest(p)' = GetRelativeDest(p)
  BY <1>1 DEF GetRelativeDest
<1>3. \A p : IsDirectory(fs, p) => IsDirectory(fs', p)
  BY GrowsMore
<1> QED
  BY <1>1, <1>2, <1>3 DEF Prepared

LEMMA AccountedKept ==
  ASSUME Accounted, Grows(fs, fs'), source' = source, assets' = assets,
         destination' = destination \/ destination = Unset,
         Range(destFiles) \subseteq Range(destFiles'), copied \subseteq copied',
         \A p \in DOMAIN fs' : fs'[p].kind = "file" =>
           \/ p \in DOMAIN fs /\ fs[p].kind = "file"
           \/ p \in Range(destFiles')
           \/ ~Below(source, p)
           \/ destination' # Unset /\ p = destination' \o <<Report>>
           \/ "_sys_file_copy" \in copied' /\ destination' # Unset /\ IsPrefix(destination', source)
  PROVE  Accounted'
<1>1. SUFFICES ASSUME source # <<>>, NEW p \in DOMAIN fs', fs'[p].kind = "file", Below(source, p)
               PROVE  \/ p \in Range(assets) \cup Range(destFiles')
                      \/ destination' # Unset /\ p = destination' \o <<Report>>
                      \/ \E q \in DOMAIN fs' : fs'[q].kind = "link" /\ Below(q, p)
                      \/ "_sys_file_copy" \in copied' /\ destination' # Unset
                           /\ IsPrefix(destination', source)
  BY DEF Accounted
<1>2. CASE ~(p \in DOMAIN fs /\ fs[p].kind = "file")
  BY <1>1, <1>2
<1>3. CASE p \in DOMAIN fs /\ fs[p].kind = "file"
  <2>1. \/ p \in Range(assets) \cup Range(destFiles)
        \/ destination # Unset /\ p = destination \o <<Report>>
        \/ \E q \in DOMAIN fs : fs[q].kind = "link" /\ Below(q, p)
        \/ "_sys_file_copy" \in copied /\ destination # Unset /\ IsPrefix(destination, source)
    BY <1>1, <1>3 DEF Accounted
  <2>2. \A q \in DOMAIN fs : fs[q].kind = "link" => q \in DOMAIN fs' /\ fs'[q].kind = "link"
    <3>1. DOMAIN fs \subseteq DOMAIN fs'
      BY GrowsMore
    <3>2. \A q \in DOMAIN fs : fs[q].kind \notin {"file", "dangling"} => fs'[q] = fs[q]
      BY GrowsMore
    <3>3. \A q \in DOMAIN fs : fs[q].kind = "link" => fs[q].kind \notin {"file", "dangling"}
      OBVIOUS
    <3> QED
      BY <3>1, <3>2, <3>3
  <2> QED
    BY <1>1, <2>1, <2>2
<1> QED
  BY <1>2, <1>3

LEMMA SizesKept ==
  ASSUME Types, Grows(fs, fs'), assets' = assets, NoReport,
         \A k \in DOMAIN assets : fs[assets[k]].kind = "file"
  PROVE  /\ Sizes' = Sizes
         /\ \A k \in DOMAIN assets : fs'[assets[k]].kind = "file"
<1>1. ASSUME NEW k \in DOMAIN assets PROVE fs'[assets[k]] = fs[assets[k]]
  <2>1. assets[k] \in DOMAIN fs
    BY ListIs DEF Types
  <2>2. ~IsReport(assets[k])
    BY DEF NoReport, Range
  <2> QED
    BY <2>1, <2>2, GrowsMore
<1> QED
  BY <1>1 DEF Sizes

\* The files that were counted stay, and so do their bytes.
LEMMA SumKept ==
  ASSUME Types, Types', Grows(fs, fs'), Extends(assets', assets), Extends(destFiles', destFiles),
         debug' = debug, Counted, NoReport'
  PROVE  /\ NoReport /\ IsFiniteSet(counted)
         /\ \A k \in counted : Paired(k)' /\ DestSizes'[k] \in Nat
         /\ SumFunctionOnSet(DestSizes', counted) = SumFunctionOnSet(DestSizes, counted)
<1>1. NoReport
  <2>1. Range(assets) \subseteq Range(assets') /\ Range(destFiles) \subseteq Range(destFiles')
    BY DEF Extends, Range
  <2> QED
    BY <2>1 DEF NoReport
<1>2. /\ counted \subseteq DOMAIN assets \cap DOMAIN destFiles
      /\ \A k \in counted : Paired(k)
  BY <1>1 DEF Counted
<1>3. IsFiniteSet(counted)
  <2>1. IsFiniteSet(DOMAIN assets)
    BY SizeIs DEF Types
  <2> QED
    BY <1>2, <2>1, FS_Subset
<1>4. ASSUME NEW k \in counted
      PROVE  Paired(k)' /\ DestSizes'[k] = DestSizes[k] /\ DestSizes[k] \in Nat
  <2>1. /\ k \in DOMAIN assets /\ k \in DOMAIN destFiles
        /\ fs[assets[k]].kind = "file"
        /\ destFiles[k] \in DOMAIN fs /\ fs[destFiles[k]].kind = "file"
        /\ debug => fs[destFiles[k]].size = fs[assets[k]].size
    BY <1>2 DEF Paired
  <2>2. /\ k \in DOMAIN assets' /\ assets'[k] = assets[k]
        /\ k \in DOMAIN destFiles' /\ destFiles'[k] = destFiles[k]
    BY <2>1 DEF Extends
  <2>3. assets[k] \in DOMAIN fs
    BY <2>1, ListIs DEF Types
  <2>4. ~IsReport(assets[k]) /\ ~IsReport(destFiles[k])
    BY <1>1, <2>1 DEF NoReport, Range
  <2>5. /\ fs'[assets[k]] = fs[assets[k]]
        /\ destFiles[k] \in DOMAIN fs' /\ fs'[destFiles[k]] = fs[destFiles[k]]
    BY <2>1, <2>3, <2>4, GrowsMore
  <2>6. Paired(k)'
    BY <2>1, <2>2, <2>5 DEF Paired
  <2>7. DestSizes'[k] = DestSizes[k]
    BY <2>1, <2>2, <2>5 DEF DestSizes
  <2>8. DestSizes[k] \in Nat
    <3>1. fs[destFiles[k]] \in Nodes
      BY <2>1 DEF Types, IsFileSystem
    <3> QED
      BY <2>1, <3>1, Node DEF DestSizes
  <2> QED
    BY <2>6, <2>7, <2>8
<1>5. SumFunctionOnSet(DestSizes', counted) = SumFunctionOnSet(DestSizes, counted)
  <2> DEFINE new == DestSizes'
             old == DestSizes
  <2>1. \A k \in counted : new[k] \in Nat /\ new[k] = old[k]
    BY <1>4
  <2> HIDE DEF new, old
  <2>2. SumFunctionOnSet(new, counted) = SumFunctionOnSet(old, counted)
    BY <1>3, <2>1, SumAgrees
  <2> QED
    BY <2>2 DEF new, old
<1> QED
  BY <1>1, <1>3, <1>4, <1>5

\* Calls that count nothing.
LEMMA CountedKept ==
  ASSUME Types, Types', Counted, Grows(fs, fs'), assets' = assets, Extends(destFiles', destFiles),
         debug' = debug, UNCHANGED account, transferred' = transferred,
         progress'.maximum = progress.maximum, copied \subseteq copied',
         "_run_copier" \in copied' \/ progress'.state = progress.state
  PROVE  Counted'
<1>1. measured' = measured /\ counted' = counted /\ recounted' = recounted
  BY DEF account
<1>2. /\ measured \in BOOLEAN /\ recounted \in BOOLEAN
      /\ counted \subseteq DOMAIN assets \cap DOMAIN destFiles
      /\ "_run_copier" \notin copied => progress.state <= transferred
      /\ measured => \A k \in DOMAIN assets : fs[assets[k]].kind = "file"
  BY DEF Counted
<1>3. counted' \subseteq DOMAIN assets' \cap DOMAIN destFiles'
  BY <1>1, <1>2 DEF Extends
<1>4. "_run_copier" \notin copied' => progress'.state <= transferred'
  BY <1>2
<1>5. measured' => \A k \in DOMAIN assets' : fs'[assets'[k]].kind = "file"
  <2>1. \A k \in DOMAIN assets : assets[k] \in DOMAIN fs
    BY ListIs DEF Types
  <2> QED
    BY <1>1, <1>2, <2>1, GrowsMore
<1>6. ASSUME NoReport'
      PROVE  /\ measured' => progress'.maximum = SumFunctionOnSet(Sizes', DOMAIN assets')
             /\ \A k \in counted' : Paired(k)'
             /\ ~recounted' => transferred' = SumFunctionOnSet(DestSizes', counted')
  <2>1. Extends(assets', assets)
    BY DEF Extends
  <2>2. /\ NoReport /\ \A k \in counted : Paired(k)'
        /\ SumFunctionOnSet(DestSizes', counted) = SumFunctionOnSet(DestSizes, counted)
    BY <1>6, <2>1, SumKept
  <2>3. /\ measured => progress.maximum = SumFunctionOnSet(Sizes, DOMAIN assets)
        /\ ~recounted => transferred = SumFunctionOnSet(DestSizes, counted)
    BY <2>2 DEF Counted
  <2>4. measured => Sizes' = Sizes
    BY <1>2, <2>2, SizesKept
  <2> QED
    BY <1>1, <2>2, <2>3, <2>4
<1> QED
  BY <1>1, <1>2, <1>3, <1>4, <1>5, <1>6 DEF Counted

\* Calls that set nothing up.
LEMMA OnceUsed ==
  ASSUME Types, Once, Grows(fs, fs'), UNCHANGED <<setup, lists, destFiles, repeats>>,
         copied \subseteq copied',
         \A p \in DOMAIN fs' : fs'[p].kind = "file" =>
           \/ p \in DOMAIN fs /\ fs[p].kind = "file"
           \/ p \in Range(destFiles)
           \/ source \in Paths /\ source # <<>> => ~Below(source, p)
           \/ destination # Unset /\ p = destination \o <<Report>>
           \/ "_sys_file_copy" \in copied' /\ destination # Unset /\ IsPrefix(destination, source)
  PROVE  Once'
<1>1. /\ source' = source /\ destination' = destination /\ parentPathLength' = parentPathLength
      /\ directories' = directories /\ assets' = assets /\ destFiles' = destFiles
      /\ repeats' = repeats
  BY DEF setup, lists
<1>2. SUFFICES ASSUME Fresh'
               PROVE  /\ source = Unset => Nothing'
                      /\ source # Unset => Gathered' /\ Accounted'
                      /\ destFiles # <<>> => Prepared'
  BY <1>1 DEF Once
<1>3. Fresh
  BY <1>1, <1>2 DEF Fresh
<1>4. /\ source = Unset => Nothing
      /\ source # Unset => Gathered /\ Accounted
      /\ destFiles # <<>> => Prepared
  BY <1>3 DEF Once
<1>5. source = Unset => Nothing'
  BY <1>1, <1>4 DEF Nothing
<1>6. destFiles # <<>> => Prepared'
  BY <1>4, PreparedKept
<1>7. ASSUME source # Unset PROVE Gathered' /\ Accounted'
  <2>1. Gathered'
    BY <1>1, <1>4, <1>7, GatheredKept
  <2>2. source \in Paths
    BY <1>7 DEF Types
  <2>3. CASE source = <<>>
    BY <1>1, <1>3, <1>7, <2>1, <2>3 DEF Accounted
  <2>4. CASE source # <<>>
    BY <1>1, <1>3, <1>4, <1>7, <2>1, <2>2, <2>4, AccountedKept
  <2> QED
    BY <2>3, <2>4
<1> QED
  BY <1>5, <1>6, <1>7

LEMMA RunCopierOnce ==
  ASSUME Types, Once, RunCopier
  PROVE  Once'
<1>1. Fills(fs, fs', Range(destFiles))
  BY RunCopierTypes
<1>2. UNCHANGED <<setup, lists, destFiles, repeats>> /\ copied \subseteq copied'
  BY DEF RunCopier, Use, staging
<1>3. Grows(fs, fs')
  BY <1>1, FillsGrows
<1>4. \A p \in DOMAIN fs' : (p \in DOMAIN fs /\ fs'[p] = fs[p]) \/ p \in Range(destFiles)
  BY <1>1 DEF Fills
<1> QED
  BY <1>2, <1>3, <1>4, OnceUsed

LEMMA SysFileCopyOnce ==
  ASSUME Types, Once, SysFileCopy
  PROVE  Once'
<1>1. /\ Keeps(fs, fs') /\ source \in Paths /\ destination \in Paths
      /\ ~IsPrefix(source, destination)
      /\ \A p \in DOMAIN fs' : p \in DOMAIN fs \/ IsPrefix(destination, p)
      /\ IsFileSystem(fs')
  BY SysFileCopyTypes DEF Types
<1>2. /\ UNCHANGED <<setup, lists, destFiles, repeats>> /\ destination # Unset
      /\ copied \subseteq copied' /\ "_sys_file_copy" \in copied'
  BY DEF SysFileCopy, Use, staging
<1>3. Grows(fs, fs')
  BY <1>1, KeepsGrows
<1>4. ASSUME NEW p \in DOMAIN fs', p \notin DOMAIN fs, Below(source, p)
      PROVE  IsPrefix(destination, source)
  <2>1. p \in Paths /\ IsPrefix(destination, p)
    BY <1>1, <1>4 DEF IsFileSystem
  <2>2. /\ Len(source) < Len(p) /\ \A i \in 1 .. Len(source) : source[i] = p[i]
    BY <1>1, <1>4, <2>1, BelowIs
  <2>3. /\ Len(destination) <= Len(p) /\ \A i \in 1 .. Len(destination) : destination[i] = p[i]
    BY <1>1, <2>1, PrefixIs
  <2>4. Len(source) \in Nat /\ Len(destination) \in Nat /\ Len(p) \in Nat
    BY <1>1, <2>1, PathIs
  <2>5. ~(Len(source) <= Len(destination))
    <3>1. SUFFICES ASSUME Len(source) <= Len(destination) PROVE FALSE
      OBVIOUS
    <3>2. \A i \in 1 .. Len(source) : i \in 1 .. Len(destination)
      BY <2>4, <3>1
    <3>3. IsPrefix(source, destination)
      BY <1>1, <2>2, <2>3, <3>1, <3>2, PrefixIs
    <3> QED
      BY <1>1, <3>3
  <2>6. \A i \in 1 .. Len(destination) : i \in 1 .. Len(source)
    BY <2>4, <2>5
  <2>7. Len(destination) <= Len(source)
    BY <2>4, <2>5
  <2> QED
    BY <1>1, <2>2, <2>3, <2>6, <2>7, PrefixIs
<1> QED
  <2>1. \A p \in DOMAIN fs : fs'[p] = fs[p]
    BY <1>1 DEF Keeps
  <2> QED
    BY <1>1, <1>2, <1>3, <1>4, <2>1, OnceUsed

LEMMA VerifyOnce ==
  ASSUME Types, Once, Verify \/ VerifyThreaded
  PROVE  Once'
<1>1. UNCHANGED <<setup, lists, destFiles, repeats>> /\ fs' = fs /\ copied' = copied
  <2>1. ASSUME Use({}) PROVE copied' = copied /\ repeats' = repeats
    BY <2>1 DEF Use
  <2> QED
    BY <2>1 DEF Verify, VerifyThreaded
<1>2. Grows(fs, fs')
  BY <1>1 DEF Grows
<1> QED
  BY <1>1, <1>2, OnceUsed

LEMMA CreateCsvOnce ==
  ASSUME Types, Once, CreateCsv
  PROVE  Once'
<1>1. /\ Grows(fs, fs')
      /\ \A p \in DOMAIN fs' : p = TheReport \/ (p \in DOMAIN fs /\ fs'[p] = fs[p])
  BY CreateCsvTypes
<1>2. UNCHANGED <<setup, lists, destFiles, repeats>> /\ copied' = copied
  <2>1. ASSUME Use({}) PROVE copied' = copied /\ repeats' = repeats
    BY <2>1 DEF Use
  <2> QED
    BY <2>1 DEF CreateCsv, staging
<1>3. ASSUME destination = Unset, source \in Paths, source # <<>>
      PROVE  ~Below(source, TheReport)
  <2>1. TheReport = <<>> \o <<Report>>
    BY <1>3 DEF TheReport
  <2>2. Len(TheReport) = 1
    BY <2>1
  <2>3. TheReport \in Paths
    BY ReportIs DEF Types
  <2>4. Len(source) \in Nat /\ Len(source) # 0
    BY <1>3, PathIs
  <2> QED
    BY <1>3, <2>2, <2>3, <2>4, BelowIs
<1>4. destination # Unset => TheReport = destination \o <<Report>>
  BY DEF TheReport
<1> QED
  BY <1>1, <1>2, <1>3, <1>4, OnceUsed

LEMMA CopyFileOnce ==
  ASSUME Types, Once, NEW k \in DOMAIN assets \cap DOMAIN destFiles, CopyFile(k)
  PROVE  Once'
<1>1. Fills(fs, fs', {destFiles[k]})
  BY CopyFileTypes
<1>2. UNCHANGED <<setup, lists, destFiles, repeats>> /\ copied \subseteq copied'
  BY DEF CopyFile, Use, staging
<1>3. destFiles[k] \in Range(destFiles)
  BY DEF Range
<1>4. Grows(fs, fs')
  BY <1>1, FillsGrows
<1>5. \A p \in DOMAIN fs' : (p \in DOMAIN fs /\ fs'[p] = fs[p]) \/ p = destFiles[k]
  BY <1>1 DEF Fills
<1> QED
  BY <1>2, <1>3, <1>4, <1>5, OnceUsed

LEMMA SetDestinationOnce ==
  ASSUME Types, Once, NEW p, SetDestination(p)
  PROVE  Once'
<1>1. /\ fs' = fs /\ source' = source /\ parentPathLength' = parentPathLength
      /\ directories' = directories /\ assets' = assets /\ destFiles' = destFiles
      /\ copied' = copied
      /\ repeats' = IF destination # Unset THEN repeats + 1 ELSE repeats
  BY DEF SetDestination, Repeat, staging, lists
<1>2. SUFFICES ASSUME Fresh'
               PROVE  /\ source = Unset => Nothing'
                      /\ source # Unset => Gathered' /\ Accounted'
                      /\ destFiles # <<>> => Prepared'
  BY <1>1 DEF Once
<1>3. Fresh /\ destination = Unset
  BY <1>1, <1>2 DEF Fresh, Types
<1>4. /\ source = Unset => Nothing
      /\ source # Unset => Gathered /\ Accounted
      /\ destFiles # <<>> => Prepared
  BY <1>3 DEF Once
<1>5. destFiles = <<>>
  BY <1>3, <1>4 DEF Prepared
<1>6. source = Unset => Nothing'
  BY <1>1, <1>4 DEF Nothing
<1>7. ASSUME source # Unset PROVE Gathered' /\ Accounted'
  <2>1. Gathered'
    BY <1>1, <1>4, <1>7 DEF Gathered
  <2>2. Accounted'
    BY <1>1, <1>3, <1>4, <1>7 DEF Accounted
  <2> QED
    BY <2>1, <2>2
<1> QED
  BY <1>5, <1>6, <1>7

LEMMA StageOnce ==
  ASSUME Types, Once, Stage
  PROVE  Once'
<1>1. /\ Types' /\ Keeps(fs, fs')
      /\ \A p \in DOMAIN fs' : p \notin DOMAIN fs => fs'[p].kind = "dir"
      /\ destFiles = <<>> /\ outcome' = "ok" /\ source # Unset /\ destination # Unset =>
           /\ Len(destFiles') = Len(assets)
           /\ \A k \in 1 .. Len(assets) : destFiles'[k] = GetRelativeDest(assets[k])
           /\ \A k \in DOMAIN directories :
                \A q \in Ancestry(GetRelativeDest(directories[k])) : IsDirectory(fs', q)
  BY StageTypes
<1>2. /\ UNCHANGED <<setup, lists>> /\ source' = source /\ destination' = destination
      /\ parentPathLength' = parentPathLength /\ directories' = directories
      /\ assets' = assets /\ copied' = copied
      /\ repeats' = IF outcome' # "ok" \/ source = Unset \/ destination = Unset \/ destFiles # <<>>
                    THEN repeats + 1 ELSE repeats
  BY DEF Stage, Repeat, setup, lists
<1>3. SUFFICES ASSUME Fresh'
               PROVE  Gathered' /\ Accounted' /\ Prepared' /\ source # Unset
  BY <1>2 DEF Once
<1>4. Fresh /\ outcome' = "ok" /\ source # Unset /\ destination # Unset /\ destFiles = <<>>
  BY <1>2, <1>3 DEF Fresh, Types
<1>5. Gathered /\ Accounted
  BY <1>4 DEF Once
<1>6. Grows(fs, fs')
  BY <1>1, KeepsGrows
<1>7. Gathered'
  BY <1>2, <1>5, <1>6, GatheredKept
<1>8. Accounted'
  <2>1. Range(destFiles) = {}
    BY <1>4 DEF Range
  <2>2. \A p \in DOMAIN fs' : p \in DOMAIN fs => fs'[p] = fs[p]
    BY <1>1 DEF Keeps
  <2> QED
    BY <1>1, <1>2, <1>5, <1>6, <2>1, <2>2, AccountedKept
<1>9. Prepared'
  <2>1. \A p : GetRelativeDest(p)' = GetRelativeDest(p)
    BY <1>2 DEF GetRelativeDest
  <2> QED
    BY <1>1, <1>2, <1>4, <2>1 DEF Prepared
<1> QED
  BY <1>4, <1>7, <1>8, <1>9

LEMMA NoSum ==
  ASSUME NEW f
  PROVE  SumFunctionOnSet(f, {}) = 0
<1> DEFINE S == {}
<1>1. IsFiniteSet(S) /\ (\A x \in S : f[x] \in Nat) /\ S = {}
  BY FS_EmptySet
<1> HIDE DEF S
<1>2. SumFunctionOnSet(f, S) = 0
  BY <1>1, SumEquations
<1> QED
  BY <1>2 DEF S

\* A visited entry's directory was visited before, unless it is the root itself.
LEMMA VisitedIs ==
  ASSUME IsFileSystem(fs), NEW root \in Paths, NEW p \in Visited(fs, root)
  PROVE  /\ p \in Paths /\ p # <<>> /\ Below(root, p)
         /\ Parent(p) = root \/ Parent(p) \in Visited(fs, root) \cap DirectoriesOf(fs)
<1> DEFINE q == Parent(p)
<1>1. /\ p \in DOMAIN fs /\ p \in Paths /\ Below(root, p)
      /\ ~\E r \in DOMAIN fs : Below(root, r) /\ Below(r, p) /\ fs[r].kind = "link"
      /\ IsDirectory(fs, q) /\ DOMAIN fs \subseteq Paths
  BY DEF Visited, IsFileSystem
<1>2. /\ Len(root) \in Nat /\ Len(p) \in Nat /\ Len(root) < Len(p) /\ p # <<>>
      /\ \A i \in 1 .. Len(root) : root[i] = p[i]
  <2>1. Len(root) < Len(p) /\ \A i \in 1 .. Len(root) : root[i] = p[i]
    BY <1>1, BelowIs
  <2>2. Len(root) \in Nat /\ Len(p) \in Nat /\ (p = <<>> <=> Len(p) = 0)
    BY <1>1, PathIs
  <2> QED
    BY <2>1, <2>2
<1>3. q \in Paths /\ Len(q) = Len(p) - 1 /\ \A i \in 1 .. Len(p) - 1 : q[i] = p[i]
  BY <1>1, <1>2, ParentIs
<1> HIDE DEF q
<1>4. CASE Len(q) = Len(root)
  <2>1. \A i \in 1 .. Len(root) : q[i] = root[i]
    BY <1>2, <1>3, <1>4
  <2>2. q = root
    BY <1>3, <1>4, <2>1, PathsAreEqual
  <2> QED
    BY <1>1, <1>2, <2>2 DEF q
<1>5. CASE Len(q) # Len(root)
  <2>1. Len(root) < Len(q)
    BY <1>2, <1>3, <1>5
  <2>2. \A i \in 1 .. Len(root) : root[i] = q[i]
    BY <1>2, <1>3, <2>1
  <2>3. Below(root, q)
    BY <1>3, <2>1, <2>2, BelowIs
  <2>4. q # <<>>
    BY <1>2, <2>1, EmptyPath
  <2>5. q \in DOMAIN fs
    BY <1>1, <2>4 DEF IsDirectory
  <2>6. ASSUME NEW r \in DOMAIN fs, Below(r, q) PROVE Below(r, p)
    <3>1. r \in Paths /\ Len(r) \in Nat
      BY <1>1, PathIs
    <3>2. Len(r) < Len(q) /\ \A i \in 1 .. Len(r) : r[i] = q[i]
      BY <1>3, <2>6, <3>1, BelowIs
    <3>3. Len(r) < Len(p) /\ \A i \in 1 .. Len(r) : r[i] = p[i]
      BY <1>2, <1>3, <3>1, <3>2
    <3> QED
      BY <1>1, <3>1, <3>3, BelowIs
  <2>7. q \in Visited(fs, root) /\ q \in DirectoriesOf(fs)
    BY <1>1, <2>3, <2>4, <2>5, <2>6 DEF Visited, DirectoriesOf
  <2> QED
    BY <1>1, <1>2, <2>7 DEF q
<1> QED
  BY <1>4, <1>5

LEMMA SetSourceOnce ==
  ASSUME Types, Once, NEW p \in Paths, SetSource(p)
  PROVE  Once'
<1>1. /\ source' = p /\ parentPathLength' = Measure(p) /\ fs' = fs
      /\ destination' = destination /\ destFiles' = destFiles /\ copied' = copied
      /\ repeats' = IF source # Unset \/ outcome' # "ok" THEN repeats + 1 ELSE repeats
  BY DEF SetSource, Repeat, staging
<1>2. p # Unset
  BY UnsetIsNoPath
<1>3. SUFFICES ASSUME Fresh'
               PROVE  Gathered' /\ Accounted' /\ destFiles' = <<>>
  BY <1>1, <1>2 DEF Once
<1>4. Fresh /\ source = Unset /\ outcome' = "ok"
  BY <1>1, <1>3 DEF Fresh, Types
<1>5. directories = <<>> /\ assets = <<>> /\ destFiles = <<>>
  BY <1>4 DEF Once, Nothing
<1>6. IsDirectory(fs, p)
  <2>1. "threw" # "ok"
    OBVIOUS
  <2> QED
    BY <1>4, <2>1 DEF SetSource
<1>7. PICK order \in IF IsDirectory(fs, p) THEN Orders(Visited(fs, p)) ELSE {<<>>} :
        /\ directories' = Gather(fs, directories, assets, order).directories
        /\ assets' = Gather(fs, directories, assets, order).assets
  BY DEF SetSource
<1>8. IsFileSystem(fs) /\ directories \in Seq(DirectoriesOf(fs)) /\ assets \in Seq(FilesOf(fs))
  BY DEF Types
<1>9. /\ directories' \in Seq(DirectoriesOf(fs)) /\ assets' \in Seq(FilesOf(fs))
      /\ Range(directories') = Visited(fs, p) \cap DirectoriesOf(fs)
      /\ Range(assets') = Visited(fs, p) \cap FilesOf(fs)
      /\ IsInjective(assets')
  BY <1>5, <1>6, <1>7, <1>8, SourceIsListed
<1>10. /\ \A k \in DOMAIN directories' : directories'[k] \in Visited(fs, p)
       /\ \A k \in DOMAIN assets' : assets'[k] \in Visited(fs, p)
  BY <1>9 DEF Range
<1>11. Gathered'
  <2>1. \A k \in DOMAIN directories' : Below(p, directories'[k])
    BY <1>8, <1>10, VisitedIs
  <2>2. \A k \in DOMAIN assets' :
          /\ Below(p, assets'[k])
          /\ Parent(assets'[k]) = p \/ Parent(assets'[k]) \in Range(directories')
    BY <1>8, <1>9, <1>10, VisitedIs
  <2> QED
    BY <1>1, <1>6, <1>9, <2>1, <2>2 DEF Gathered
<1>12. Accounted'
  <2>1. SUFFICES ASSUME NEW q \in DOMAIN fs, fs[q].kind = "file", Below(p, q)
                 PROVE  \/ q \in Range(assets')
                        \/ \E r \in DOMAIN fs : fs[r].kind = "link" /\ Below(r, q)
    BY <1>1 DEF Accounted
  <2>2. q \in Visited(fs, p) \/ \E r \in DOMAIN fs : fs[r].kind = "link" /\ Below(r, q)
    BY <2>1 DEF Visited
  <2>3. ASSUME q \in Visited(fs, p) PROVE q \in FilesOf(fs)
    <3>1. q # <<>>
      BY <1>8, <2>3, VisitedIs
    <3> QED
      BY <2>1, <3>1 DEF FilesOf, IsDirectory
  <2> QED
    BY <1>9, <2>2, <2>3
<1> QED
  BY <1>1, <1>5, <1>11, <1>12

-------------------------------------------------------------------------------
(* What the progress says. *)

\* The bytes of one more file, or of one more time.
LEMMA CopyFileCounted ==
  ASSUME Types, Counted, NEW k \in DOMAIN assets \cap DOMAIN destFiles, CopyFile(k)
  PROVE  Counted'
<1>1. /\ Types' /\ Fills(fs, fs', {destFiles[k]})
      /\ outcome' = "ok" =>
           /\ fs[assets[k]].kind = "file"
           /\ destFiles[k] \in DOMAIN fs' /\ fs'[destFiles[k]].kind = "file"
           /\ debug => fs'[destFiles[k]].size = fs[assets[k]].size
           /\ transferred' = transferred + fs'[destFiles[k]].size
           /\ progress' = [maximum |-> progress.maximum, state |-> transferred']
           /\ counted' = counted \cup {k} /\ recounted' = (recounted \/ k \in counted)
      /\ outcome' # "ok" => UNCHANGED <<transferred, progress, counted, recounted>>
  BY CopyFileTypes
<1>2. /\ assets' = assets /\ destFiles' = destFiles /\ debug' = debug
      /\ measured' = measured /\ copied \subseteq copied'
  BY DEF CopyFile, Use, staging, lists
<1>3. Grows(fs, fs') /\ Extends(assets', assets) /\ Extends(destFiles', destFiles)
  BY <1>1, <1>2, FillsGrows DEF Extends
<1>4. CASE outcome' # "ok"
  <2>1. UNCHANGED <<transferred, progress, account>>
    BY <1>1, <1>2, <1>4 DEF account
  <2> QED
    BY <1>1, <1>2, <1>3, <2>1, CountedKept
<1>5. CASE outcome' = "ok"
  <2>1. /\ measured \in BOOLEAN /\ recounted \in BOOLEAN
        /\ counted \subseteq DOMAIN assets \cap DOMAIN destFiles
        /\ measured => \A j \in DOMAIN assets : fs[assets[j]].kind = "file"
    BY DEF Counted
  <2>2. progress'.maximum = progress.maximum /\ progress'.state = transferred'
    BY <1>1, <1>5
  <2>3. progress'.state <= transferred'
    <3>1. transferred' \in Nat
      BY <1>1 DEF Types
    <3> DEFINE t == transferred'
    <3> HIDE DEF t
    <3>2. t \in Nat => t <= t
      OBVIOUS
    <3> QED
      BY <2>2, <3>1, <3>2 DEF t
  <2>4. measured' => \A j \in DOMAIN assets' : fs'[assets'[j]].kind = "file"
    <3>1. \A j \in DOMAIN assets : assets[j] \in DOMAIN fs
      BY ListIs DEF Types
    <3> QED
      BY <1>2, <1>3, <2>1, <3>1, GrowsMore
  <2>5. ASSUME NoReport'
        PROVE  /\ measured' => progress'.maximum = SumFunctionOnSet(Sizes', DOMAIN assets')
               /\ \A j \in counted' : Paired(j)'
               /\ ~recounted' => transferred' = SumFunctionOnSet(DestSizes', counted')
    <3>1. /\ NoReport /\ IsFiniteSet(counted)
          /\ \A j \in counted : Paired(j)' /\ DestSizes'[j] \in Nat
          /\ SumFunctionOnSet(DestSizes', counted) = SumFunctionOnSet(DestSizes, counted)
      BY <1>1, <1>2, <1>3, <2>5, SumKept
    <3>2. measured' => progress'.maximum = SumFunctionOnSet(Sizes', DOMAIN assets')
      <4>1. measured => progress.maximum = SumFunctionOnSet(Sizes, DOMAIN assets)
        BY <3>1 DEF Counted
      <4>2. measured => Sizes' = Sizes
        BY <1>2, <1>3, <2>1, <3>1, SizesKept
      <4> QED
        BY <1>2, <2>2, <4>1, <4>2
    <3>3. assets[k] \in DOMAIN fs /\ ~IsReport(assets[k]) /\ fs'[assets[k]] = fs[assets[k]]
      <4>1. assets[k] \in DOMAIN fs
        BY ListIs DEF Types
      <4>2. ~IsReport(assets[k])
        BY <3>1 DEF NoReport, Range
      <4> QED
        BY <1>1, <1>3, <1>5, <4>1, <4>2, GrowsMore
    <3>4. Paired(k)'
      BY <1>1, <1>2, <1>5, <3>3 DEF Paired
    <3>5. \A j \in counted' : Paired(j)'
      BY <1>1, <1>5, <3>1, <3>4
    <3>6. ASSUME ~recounted'
          PROVE  transferred' = SumFunctionOnSet(DestSizes', counted')
      <4> DEFINE sizes == DestSizes'
                 S == counted'
      <4>1. ~recounted /\ k \notin counted /\ S = counted \cup {k}
        BY <1>1, <1>5, <3>6
      <4>2. sizes[k] = fs'[destFiles[k]].size
        BY <1>2 DEF DestSizes
      <4>3. sizes[k] \in Nat
        <5>1. fs'[destFiles[k]] \in Nodes
          BY <1>1, <1>5 DEF Types, IsFileSystem
        <5> QED
          BY <4>2, <5>1, Node
      <4>4. IsFiniteSet(S) /\ k \in S /\ S \ {k} = counted /\ \A j \in S : sizes[j] \in Nat
        <5>1. IsFiniteSet(counted \cup {k})
          BY <3>1, FS_AddElement
        <5> QED
          BY <3>1, <4>1, <4>3, <5>1
      <4>5. transferred = SumFunctionOnSet(sizes, counted)
        BY <3>1, <4>1 DEF Counted
      <4>6. transferred \in Nat
        BY DEF Types
      <4> HIDE DEF sizes, S
      <4>7. SumFunctionOnSet(sizes, S) = sizes[k] + transferred
        BY <4>4, <4>5, SumTakes
      <4> DEFINE a == sizes[k]
      <4>8. transferred' = transferred + a
        BY <1>1, <1>5, <4>2
      <4>9. a \in Nat
        BY <4>3
      <4>10. SumFunctionOnSet(sizes, S) = a + transferred
        BY <4>7
      <4> HIDE DEF a
      <4>11. transferred' = SumFunctionOnSet(sizes, S)
        BY <4>6, <4>8, <4>9, <4>10
      <4> QED
        BY <4>11 DEF sizes, S
    <3> QED
      BY <3>2, <3>5, <3>6
  <2>6. /\ measured' \in BOOLEAN /\ recounted' \in BOOLEAN
        /\ counted' \subseteq DOMAIN assets' \cap DOMAIN destFiles'
    BY <1>1, <1>2, <1>5, <2>1
  <2> QED
    BY <2>3, <2>4, <2>5, <2>6 DEF Counted
<1> QED
  BY <1>4, <1>5

\* A new total, or none.
LEMMA SetSourceCounted ==
  ASSUME Types, Counted, NEW p \in Paths, SetSource(p)
  PROVE  Counted'
<1>1. Types' /\ fs' = fs /\ Extends(assets', assets)
  BY SetSourceTypes
<1>2. /\ destFiles' = destFiles /\ debug' = debug /\ transferred' = transferred
      /\ copied' = copied /\ counted' = counted /\ recounted' = recounted
      /\ measured' = (IsDirectory(fs, p) /\ \A k \in DOMAIN assets' : fs[assets'[k]].kind = "file")
      /\ measured' => progress' = SetProgress(SetMaximum(progress, SizeOf(fs, assets')), 0)
      /\ ~measured' => progress' = progress
  BY DEF SetSource, Repeat, staging
<1>3. Grows(fs, fs') /\ Extends(destFiles', destFiles)
  BY <1>1, <1>2 DEF Grows, Extends
<1>4. /\ recounted \in BOOLEAN
      /\ counted \subseteq DOMAIN assets \cap DOMAIN destFiles
      /\ "_run_copier" \notin copied => progress.state <= transferred
  BY DEF Counted
<1> DEFINE sizes == [k \in DOMAIN assets' |-> fs[assets'[k]].size]
           m == SizeOf(fs, assets')
<1>5. m = SumFunctionOnSet(sizes, DOMAIN assets') /\ m \in Nat
  BY <1>1, SizeIs DEF Types
<1>6. Sizes' = sizes
  BY <1>1 DEF Sizes
<1> HIDE DEF sizes, m
<1>7. measured' => progress' = [maximum |-> m, state |-> 0]
  <2>1. progress \in [maximum : Nat, state : Nat] /\ 0 \in Nat
    BY DEF Types
  <2>2. SetProgress(SetMaximum(progress, m), 0) = [maximum |-> m, state |-> 0]
    BY <1>5, <2>1, ProgressIs
  <2> QED
    BY <1>2, <2>2 DEF m
<1>8. measured' => progress'.maximum = m /\ progress'.state = 0
  BY <1>7
<1>9. "_run_copier" \notin copied' => progress'.state <= transferred'
  <2> DEFINE t == transferred
             s == progress'.state
  <2>1. t \in Nat
    BY DEF Types
  <2>2. CASE measured'
    <3>1. s = 0
      BY <1>8, <2>2
    <3> HIDE DEF s, t
    <3>2. s <= t
      BY <2>1, <3>1
    <3> QED
      BY <1>2, <3>2 DEF s, t
  <2>3. CASE ~measured'
    BY <1>2, <1>4, <2>3
  <2> QED
    BY <2>2, <2>3
<1>10. ASSUME NoReport'
       PROVE  /\ measured' => progress'.maximum = SumFunctionOnSet(Sizes', DOMAIN assets')
              /\ \A k \in counted' : Paired(k)'
              /\ ~recounted' => transferred' = SumFunctionOnSet(DestSizes', counted')
  <2>1. /\ NoReport /\ \A k \in counted : Paired(k)'
        /\ SumFunctionOnSet(DestSizes', counted) = SumFunctionOnSet(DestSizes, counted)
    BY <1>1, <1>2, <1>3, <1>10, SumKept
  <2>2. ~recounted => transferred = SumFunctionOnSet(DestSizes, counted)
    BY <2>1 DEF Counted
  <2> QED
    BY <1>2, <1>5, <1>6, <1>8, <2>1, <2>2
<1>11. /\ measured' \in BOOLEAN /\ recounted' \in BOOLEAN
       /\ counted' \subseteq DOMAIN assets' \cap DOMAIN destFiles'
       /\ measured' => \A k \in DOMAIN assets' : fs'[assets'[k]].kind = "file"
  BY <1>1, <1>2, <1>3, <1>4 DEF Extends
<1> QED
  BY <1>9, <1>10, <1>11 DEF Counted

LEMMA ResetCounted ==
  ASSUME Types, Reset
  PROVE  Counted'
<1>1. /\ measured' = FALSE /\ counted' = {} /\ recounted' = FALSE /\ transferred' = 0
      /\ progress' = SetProgress(SetMaximum(progress, 0), 0)
  BY DEF Reset
<1> DEFINE sizes == DestSizes'
           bar == progress'
<1>2. bar = [maximum |-> 0, state |-> 0]
  <2>1. progress \in [maximum : Nat, state : Nat] /\ 0 \in Nat
    BY DEF Types
  <2> QED
    BY <1>1, <2>1, ProgressIs
<1>3. SumFunctionOnSet(sizes, {}) = 0
  BY NoSum
<1>4. bar.state = 0 /\ 0 <= 0
  BY <1>2
<1> QED
  BY <1>1, <1>3, <1>4 DEF Counted

LEMMA StartsOnce ==
  ASSUME Init
  PROVE  IInv
<1>1. /\ debug \in BOOLEAN /\ fs \in FileSystems
      /\ source = Unset /\ destination = Unset /\ parentPathLength = 0
      /\ directories = <<>> /\ assets = <<>>
      /\ destFiles = <<>> /\ sourceChecksums = <<>> /\ destChecksums = <<>>
      /\ sourceQueueIndex = 0 /\ progress = [maximum |-> 0, state |-> 0] /\ transferred = 0
      /\ outcome = "none" /\ repeats = 0 /\ copied = {}
      /\ measured = FALSE /\ counted = {} /\ recounted = FALSE
  BY DEF Init, NewProgress
<1>2. IsFileSystem(fs)
  BY <1>1, StagingAssumption
<1>3. IsCut /\ parentPathLength \in Nat
  <2>1. 0 = 2 * 0
    OBVIOUS
  <2> QED
    BY <1>1, <2>1 DEF IsCut
<1>4. outcome \in Outcomes /\ outcome # "stuck" /\ outcome # "match"
  BY <1>1 DEF Outcomes
<1>5. Types
  BY <1>1, <1>2, <1>3, <1>4 DEF Types
<1>6. Once
  BY <1>1 DEF Once, Nothing
<1>7. Ended
  BY <1>4 DEF Ended
<1>8. Counted
  <2> DEFINE sizes == DestSizes
             bar == progress
  <2>1. SumFunctionOnSet(sizes, {}) = 0
    BY NoSum
  <2>2. bar.state = 0 /\ 0 <= 0
    BY <1>1
  <2> QED
    BY <1>1, <2>1, <2>2 DEF Counted
<1> QED
  BY <1>5, <1>6, <1>7, <1>8 DEF IInv

-------------------------------------------------------------------------------
(* How a call ended. *)

\* With a directory for every file there is only one reason for a copy never to end.
LEMMA DestsHaveParents ==
  ASSUME Types, Once, Fresh, destFiles # <<>>, directories # <<>>, NEW k \in DOMAIN destFiles
  PROVE  IsDirectory(fs, Parent(destFiles[k]))
<1>1. /\ source \in Paths /\ destination \in Paths /\ IsFileSystem(fs)
      /\ Len(destFiles) = Len(assets)
      /\ \A j \in 1 .. Len(assets) : destFiles[j] = GetRelativeDest(assets[j])
      /\ \A j \in DOMAIN directories : \A q \in Ancestry(GetRelativeDest(directories[j])) :
           IsDirectory(fs, q)
      /\ Gathered
  BY DEF Once, Prepared, Types
<1>2. Placed
  BY <1>1 DEF Placed, Gathered
<1> DEFINE p == assets[k]
<1>3. /\ k \in 1 .. Len(assets) /\ k \in DOMAIN assets
      /\ p \in Paths /\ p # <<>> /\ Below(source, p) /\ destFiles[k] = GetRelativeDest(p)
      /\ Parent(p) = source \/ Parent(p) \in Range(directories)
  <2>1. DOMAIN destFiles = 1 .. Len(destFiles)
    BY DEF Types
  <2>2. k \in 1 .. Len(assets)
    BY <1>1, <2>1
  <2>3. k \in DOMAIN assets /\ p \in Paths /\ p # <<>>
    BY <2>2, ListIs DEF Types
  <2> QED
    BY <1>1, <2>2, <2>3 DEF Gathered
<1>4. /\ Len(directories) \in Nat /\ DOMAIN directories = 1 .. Len(directories)
      /\ \A j \in 1 .. Len(directories) : directories[j] \in Paths /\ directories[j] # <<>>
                                          /\ Below(source, directories[j])
  <2>1. Len(directories) \in Nat /\ DOMAIN directories = 1 .. Len(directories)
        /\ \A j \in 1 .. Len(directories) : directories[j] \in Paths /\ directories[j] # <<>>
    BY ListIs DEF Types
  <2> QED
    BY <1>1, <2>1 DEF Gathered
<1> HIDE DEF p
<1>5. ASSUME NEW j \in DOMAIN directories
      PROVE  GetRelativeDest(directories[j]) \in Ancestry(GetRelativeDest(directories[j]))
  <2> DEFINE r == GetRelativeDest(directories[j])
  <2>1. r \in Paths /\ r # <<>>
    <3>1. /\ directories[j] \in Paths /\ directories[j] # <<>>
          /\ Len(source) <= Len(directories[j])
      <4>1. directories[j] \in Paths /\ directories[j] # <<>> /\ Below(source, directories[j])
        BY <1>4
      <4>2. Len(source) < Len(directories[j])
        BY <1>1, <4>1, BelowIs
      <4> QED
        BY <1>1, <4>1, <4>2, PathIs
    <3> QED
      BY <1>2, <3>1, DestNames DEF LeadsTo
  <2> HIDE DEF r
  <2>2. r \in Ancestry(r)
    BY <2>1, AncestryIs
  <2> QED
    BY <2>2 DEF r
<1>6. CASE Parent(p) \in Range(directories)
  <2>1. PICK j \in DOMAIN directories : directories[j] = Parent(p)
    BY <1>6 DEF Range
  <2>2. Parent(p) # <<>>
    BY <1>4, <2>1
  <2>3. Len(p) > 1
    <3>1. Len(p) \in Nat /\ Len(p) # 0 /\ Len(Parent(p)) = Len(p) - 1 /\ Parent(p) \in Paths
      BY <1>3, ParentIs, PathIs
    <3>2. Len(Parent(p)) # 0
      BY <2>2, <3>1, PathIs
    <3> QED
      BY <3>1, <3>2
  <2>4. Parent(GetRelativeDest(p)) = GetRelativeDest(directories[j])
    BY <1>2, <1>3, <2>1, <2>3, ParentOfDest
  <2> QED
    BY <1>1, <1>3, <1>5, <2>4
<1>7. CASE Parent(p) = source /\ source # <<>>
  <2>1. Len(p) > 1
    <3>1. Len(p) \in Nat /\ Len(source) < Len(p) /\ Len(source) \in Nat /\ Len(source) # 0
      BY <1>1, <1>3, <1>7, PathIs, BelowIs
    <3> QED
      BY <3>1
  <2>2. Parent(GetRelativeDest(p)) = GetRelativeDest(source)
    BY <1>2, <1>3, <1>7, <2>1, ParentOfDest
  <2>3. 1 \in DOMAIN directories
    <3>1. Len(directories) # 0
      BY <1>4 DEF Types
    <3> QED
      BY <1>4, <3>1
  <2>4. GetRelativeDest(source) \in Ancestry(GetRelativeDest(directories[1]))
    BY <1>2, <1>4, <1>7, <2>3, DestLeads
  <2> QED
    BY <1>1, <1>3, <2>2, <2>3, <2>4
<1>8. CASE Parent(p) = source /\ source = <<>>
  <2>1. Len(p) = 1
    <3>1. Len(p) \in Nat /\ Len(Parent(p)) = Len(p) - 1
      BY <1>3, ParentIs, PathIs
    <3>2. Len(Parent(p)) = 0
      BY <1>8, EmptyPath
    <3> QED
      BY <3>1, <3>2
  <2> DEFINE r == GetRelativeDest(p)
             d == Len(destination)
  <2>2. LeadsTo(p, r) /\ Len(source) = 0
    <3>1. Len(source) = 0
      BY <1>8, EmptyPath
    <3>2. Len(source) <= Len(p)
      BY <2>1, <3>1
    <3> QED
      BY <1>2, <1>3, <3>1, <3>2, DestNames
  <2>3. /\ r \in Paths /\ r # <<>>
        /\ destination = <<>> => r = p
        /\ destination # <<>> =>
             Len(r) = d + Len(p) - 1 /\ \A i \in 1 .. d - 1 : r[i] = destination[i]
    <3>1. Len(source) <= 1
      BY <2>2
    <3>2. LeadsTo(p, r)
      BY <2>2
    <3> HIDE DEF r
    <3> QED
      BY <3>1, <3>2 DEF LeadsTo
  <2> HIDE DEF r
  <2>4. CASE destination = <<>>
    BY <1>3, <1>8, <2>3, <2>4 DEF IsDirectory, r
  <2>5. CASE destination # <<>>
    <3>1. d \in Nat /\ d # 0
      BY <1>1, <2>5, PathIs
    <3>2. /\ Parent(r) \in Paths /\ Len(Parent(r)) = Len(r) - 1
          /\ \A i \in 1 .. Len(r) - 1 : Parent(r)[i] = r[i]
      BY <2>3, ParentIs
    <3>3. /\ Parent(destination) \in Paths /\ Len(Parent(destination)) = d - 1
          /\ \A i \in 1 .. d - 1 : Parent(destination)[i] = destination[i]
      BY <1>1, <2>5, ParentIs
    <3>4. Len(r) = d
      BY <2>1, <2>3, <2>5, <3>1
    <3>5. Parent(r) = Parent(destination)
      BY <2>3, <2>5, <3>2, <3>3, <3>4, PathsAreEqual
    <3>6. IsDirectory(fs, Parent(destination))
      BY <1>1, UnsetIsNoPath DEF Types
    <3> QED
      BY <1>3, <3>5, <3>6 DEF r
  <2> QED
    BY <2>4, <2>5
<1> QED
  BY <1>3, <1>6, <1>7, <1>8

\* A copier that never ended.
LEMMA StuckEnds ==
  ASSUME Types, Once, Types', Grows(fs, fs'), UNCHANGED <<setup, lists, destFiles, repeats>>,
         outcome' \in {"ok", "threw", "stuck"},
         outcome' = "stuck" => \E k \in DOMAIN assets : Hangs(fs', k)
  PROVE  Ended'
<1>1. assets' = assets /\ directories' = directories /\ destFiles' = destFiles /\ repeats' = repeats
  BY DEF lists
<1>2. outcome' # "match"
  OBVIOUS
<1>3. ASSUME Fresh', outcome' = "stuck", directories' # <<>>
      PROVE  (\E k \in DOMAIN assets : /\ fs[assets[k]].size > 0
                                      /\ destFiles[k] \in DOMAIN fs
                                      /\ fs[destFiles[k]] \in {File(0, 0), Broken})'
  <2>1. Fresh /\ directories # <<>>
    BY <1>1, <1>3 DEF Fresh
  <2>2. PICK k \in DOMAIN assets : Hangs(fs', k)
    BY <1>3
  <2>3. /\ k \in DOMAIN destFiles /\ fs'[assets[k]].size > 0
        /\ \/ ~IsDirectory(fs, Parent(destFiles[k]))
           \/ destFiles[k] \in DOMAIN fs' /\ fs'[destFiles[k]] \in {File(0, 0), Broken}
    BY <2>2 DEF Hangs
  <2>4. IsDirectory(fs, Parent(destFiles[k]))
    <3>1. destFiles # <<>>
      BY <2>3
    <3> QED
      BY <2>1, <2>3, <3>1, DestsHaveParents
  <2> QED
    BY <1>1, <2>3, <2>4
<1> QED
  BY <1>2, <1>3 DEF Ended

\* Any other call, and a verification that found everything alike.
LEMMA OthersEnd ==
  ASSUME outcome' # "stuck", outcome' # "match"
  PROVE  Ended'
BY DEF Ended

LEMMA VerifyEnds ==
  ASSUME Types, Verify \/ VerifyThreaded
  PROVE  Ended'
<1>1. fs' = fs /\ outcome' # "stuck" /\ (outcome' = "match" => Compared)
  BY VerifyTypes
<1>2. assets' = assets /\ destFiles' = destFiles
  BY DEF Verify, VerifyThreaded, lists
<1>3. \A k \in DOMAIN assets : Checksum(assets[k]) = fs[assets[k]].data
  <2>1. assets \in Seq(FilesOf(fs))
    BY DEF Types
  <2>2. \A k \in DOMAIN assets : assets[k] \in FilesOf(fs)
    BY <2>1
  <2> QED
    BY <2>2 DEF FilesOf, Checksum
<1>4. \A q : Checksum(q)' = Checksum(q)
  BY <1>1 DEF Checksum
<1>5. outcome' = "match" =>
        \A k \in DOMAIN assets :
          k \in DOMAIN destFiles /\ Checksum(destFiles[k]) = fs[assets[k]].data
  BY <1>1, <1>3 DEF Compared
<1> QED
  BY <1>1, <1>2, <1>4, <1>5 DEF Ended

-------------------------------------------------------------------------------
(* The inductive invariant and the theorems. *)

LEMMA Stepwise ==
  ASSUME IInv, [Next]_vars
  PROVE  IInv' /\ Grows(fs, fs')
<1>1. Types /\ Once /\ Ended /\ Counted
  BY DEF IInv
<1>2. DOMAIN fs \subseteq Paths
  BY <1>1 DEF Types, IsFileSystem
<1>3. fs' = fs => Grows(fs, fs')
  BY DEF Grows
<1>4. ASSUME NEW p \in Sources, p \in DOMAIN fs, SetSource(p) PROVE IInv' /\ Grows(fs, fs')
  <2>1. p \in Paths
    BY <1>2, <1>4
  <2>2. Types' /\ fs' = fs
    BY <1>1, <1>4, <2>1, SetSourceTypes
  <2>3. Once' /\ Counted'
    BY <1>1, <1>4, <2>1, SetSourceOnce, SetSourceCounted
  <2>4. outcome' \in {"ok", "threw"}
    BY <1>4 DEF SetSource
  <2>5. outcome' # "stuck" /\ outcome' # "match"
    BY <2>4
  <2> QED
    BY <1>3, <2>2, <2>3, <2>5, OthersEnd DEF IInv
<1>5. ASSUME NEW p \in Destinations, p \in DOMAIN fs, SetDestination(p)
      PROVE  IInv' /\ Grows(fs, fs')
  <2>1. Types' /\ fs' = fs
    BY <1>1, <1>5, SetDestinationTypes
  <2>2. Once' /\ Counted'
    <3>1. /\ UNCHANGED account /\ debug' = debug /\ transferred' = transferred
          /\ progress' = progress /\ copied' = copied /\ assets' = assets
          /\ Extends(destFiles', destFiles)
      BY <1>5 DEF SetDestination, Repeat, counters, staging, lists, Extends
    <3> QED
      BY <1>1, <1>3, <1>5, <2>1, <3>1, CountedKept, SetDestinationOnce
  <2>3. outcome' # "stuck" /\ outcome' # "match"
    BY <1>5 DEF SetDestination
  <2> QED
    BY <1>3, <2>1, <2>2, <2>3, OthersEnd DEF IInv
<1>6. CASE Stage
  <2>1. Types' /\ Grows(fs, fs') /\ Extends(destFiles', destFiles)
    BY <1>1, <1>6, StageTypes, KeepsGrows
  <2>2. Once' /\ Counted'
    <3>1. /\ UNCHANGED account /\ debug' = debug /\ transferred' = transferred
          /\ progress' = progress /\ copied' = copied /\ assets' = assets
      BY <1>6 DEF Stage, Repeat, counters, lists
    <3> QED
      BY <1>1, <1>6, <2>1, <3>1, CountedKept, StageOnce
  <2>3. outcome' \in {"ok", "threw"}
    BY <1>6 DEF Stage, StageThrows
  <2>4. outcome' # "stuck" /\ outcome' # "match"
    BY <2>3
  <2> QED
    BY <2>1, <2>2, <2>4, OthersEnd DEF IInv
<1>7. CASE RunCopier
  <2>1. /\ Types' /\ Grows(fs, fs') /\ progress'.maximum = progress.maximum
        /\ outcome' \in {"ok", "threw", "stuck"}
        /\ outcome' = "stuck" => \E k \in DOMAIN assets : Hangs(fs', k)
    BY <1>1, <1>7, RunCopierTypes, FillsGrows
  <2>2. UNCHANGED <<setup, lists, destFiles, repeats>>
    BY <1>7 DEF RunCopier, Use, staging
  <2>3. Ended'
    BY <1>1, <2>1, <2>2, StuckEnds
  <2>4. Once' /\ Counted'
    <3>1. /\ UNCHANGED account /\ debug' = debug /\ transferred' = transferred
          /\ copied \subseteq copied' /\ "_run_copier" \in copied'
          /\ assets' = assets /\ Extends(destFiles', destFiles)
      BY <1>7 DEF RunCopier, Use, staging, lists, Extends
    <3> QED
      BY <1>1, <1>7, <2>1, <3>1, CountedKept, RunCopierOnce
  <2> QED
    BY <2>1, <2>3, <2>4 DEF IInv
<1>8. ASSUME NEW k \in DOMAIN assets \cap DOMAIN destFiles, CopyFile(k)
      PROVE  IInv' /\ Grows(fs, fs')
  <2>1. /\ Types' /\ Grows(fs, fs')
        /\ outcome' \in {"ok", "threw", "stuck"}
        /\ outcome' = "stuck" => Hangs(fs', k)
    BY <1>1, <1>8, CopyFileTypes, FillsGrows
  <2>2. UNCHANGED <<setup, lists, destFiles, repeats>>
    BY <1>8 DEF CopyFile, Use, staging
  <2>3. Ended'
    BY <1>1, <2>1, <2>2, StuckEnds
  <2>4. Once' /\ Counted'
    BY <1>1, <1>8, CopyFileOnce, CopyFileCounted
  <2> QED
    BY <2>1, <2>3, <2>4 DEF IInv
<1>9. CASE SysFileCopy
  <2>1. Types' /\ Grows(fs, fs') /\ outcome' \in {"ok", "threw"}
    BY <1>1, <1>9, SysFileCopyTypes, KeepsGrows
  <2>2. Once' /\ Counted'
    <3>1. /\ UNCHANGED account /\ debug' = debug /\ transferred' = transferred
          /\ progress' = progress /\ copied \subseteq copied'
          /\ assets' = assets /\ Extends(destFiles', destFiles)
      BY <1>9 DEF SysFileCopy, Use, counters, staging, lists, Extends
    <3> QED
      BY <1>1, <1>9, <2>1, <3>1, CountedKept, SysFileCopyOnce
  <2>3. outcome' # "stuck" /\ outcome' # "match"
    BY <2>1
  <2> QED
    BY <2>1, <2>2, <2>3, OthersEnd DEF IInv
<1>10. CASE Verify \/ VerifyThreaded
  <2>1. Types' /\ fs' = fs
    BY <1>1, <1>10, VerifyTypes
  <2>2. Once' /\ Ended'
    BY <1>1, <1>10, VerifyOnce, VerifyEnds
  <2>3. Counted'
    <3>1. /\ UNCHANGED account /\ debug' = debug /\ transferred' = transferred
          /\ progress' = progress /\ copied \subseteq copied'
          /\ assets' = assets /\ Extends(destFiles', destFiles)
      <4>1. Use({}) => copied \subseteq copied'
        BY DEF Use
      <4> QED
        BY <1>10, <4>1 DEF Verify, VerifyThreaded, counters, lists, Extends
    <3> QED
      BY <1>1, <1>3, <2>1, <3>1, CountedKept
  <2> QED
    BY <1>3, <2>1, <2>2, <2>3 DEF IInv
<1>11. CASE CreateCsv
  <2>1. Types' /\ Grows(fs, fs') /\ outcome' \in {"ok", "threw"}
    BY <1>1, <1>11, CreateCsvTypes
  <2>2. Once' /\ Counted'
    <3>1. /\ UNCHANGED account /\ debug' = debug /\ transferred' = transferred
          /\ progress' = progress /\ copied \subseteq copied'
          /\ assets' = assets /\ Extends(destFiles', destFiles)
      BY <1>11 DEF CreateCsv, Use, counters, staging, lists, Extends
    <3> QED
      BY <1>1, <1>11, <2>1, <3>1, CountedKept, CreateCsvOnce
  <2>3. outcome' # "stuck" /\ outcome' # "match"
    BY <2>1
  <2> QED
    BY <2>1, <2>2, <2>3, OthersEnd DEF IInv
<1>12. CASE Reset
  <2>1. Types' /\ fs' = fs /\ ~Fresh'
    BY <1>1, <1>12, ResetTypes
  <2>2. Once' /\ Counted'
    BY <1>1, <1>12, <2>1, ResetCounted DEF Once
  <2>3. outcome' # "stuck" /\ outcome' # "match"
    BY <1>12 DEF Reset
  <2> QED
    BY <1>3, <2>1, <2>2, <2>3, OthersEnd DEF IInv
<1>13. CASE UNCHANGED vars
  <2>1. /\ debug' = debug /\ fs' = fs /\ source' = source /\ destination' = destination
        /\ parentPathLength' = parentPathLength /\ directories' = directories
        /\ assets' = assets /\ destFiles' = destFiles
        /\ sourceChecksums' = sourceChecksums /\ destChecksums' = destChecksums
        /\ sourceQueueIndex' = sourceQueueIndex /\ progress' = progress
        /\ transferred' = transferred /\ hashers' = hashers /\ outcome' = outcome
        /\ repeats' = repeats /\ uses' = uses /\ copied' = copied
        /\ UNCHANGED <<setup, lists, destFiles, repeats, account>>
        /\ Extends(destFiles', destFiles)
    BY <1>13 DEF vars, setup, lists, staging, counters, calls, Extends
  <2>2. Grows(fs, fs')
    BY <1>3, <2>1
  <2>3. Types'
    BY <1>1, <2>1 DEF Types, IsCut
  <2>4. Counted'
    BY <1>1, <2>1, <2>2, <2>3, CountedKept
  <2>5. Once'
    BY <1>1, <2>1, <2>2, OnceUsed
  <2>6. \A q : Checksum(q)' = Checksum(q)
    BY <2>1 DEF Checksum
  <2>7. Ended'
    BY <1>1, <2>1, <2>6 DEF Ended, Fresh
  <2> QED
    BY <2>2, <2>3, <2>4, <2>5, <2>7 DEF IInv
<1> QED
  BY <1>4, <1>5, <1>6, <1>7, <1>8, <1>9, <1>10, <1>11, <1>12, <1>13 DEF Next, Exists

\* After any calls the lists hold entries of the file system and destinations cut from
\* them, a first use has staged what it gathered, a match or a hang tells what its call
\* found, and _transferred is the size of the files that were found or left for those
\* that were counted, unless one was counted twice.
THEOREM StagingInvariant == Spec => []IInv
<1>1. Init => IInv
  BY StartsOnce
<1>2. IInv /\ [Next]_vars => IInv'
  BY Stepwise
<1> QED
  BY <1>1, <1>2, PTL DEF Spec

\* The types of a TreeSlinger and of its file system, whatever the trees, the two paths
\* and the order of the calls.
THEOREM StagingTypes == Spec => []TypeOK
<1>1. IInv => TypeOK
  <2> SUFFICES ASSUME Types, Counted PROVE TypeOK
    BY DEF IInv
  <2>1. directories \in Seq(DirectoriesOf(fs)) /\ assets \in Seq(FilesOf(fs))
    BY DEF Types
  <2>2. \A k \in DOMAIN directories : IsDirectory(fs, directories[k])
    <3>1. \A k \in DOMAIN directories : directories[k] \in DirectoriesOf(fs)
      BY <2>1
    <3> QED
      BY <3>1 DEF DirectoriesOf
  <2>3. \A k \in DOMAIN assets : assets[k] \in DOMAIN fs /\ ~IsDirectory(fs, assets[k])
    <3>1. \A k \in DOMAIN assets : assets[k] \in FilesOf(fs)
      BY <2>1
    <3> QED
      BY <3>1 DEF FilesOf
  <2> QED
    BY <2>2, <2>3 DEF Types, Counted, TypeOK
<1> QED
  BY <1>1, StagingInvariant, PTL

\* No call takes away or changes what was there before it, but for the report and what a
\* dangling link leads to: not _sys_file_copy() into a tree that exists, nor a copier that
\* finds an old file.
THEOREM FilesStay == Spec => NothingOverwritten
<1> DEFINE Stay == \A p \in DOMAIN fs :
                     \/ p \in DOMAIN fs' /\ fs'[p] = fs[p]
                     \/ IsReport(p) /\ fs[p].kind = "file"
                     \/ fs[p].kind = "dangling" /\ fs'[p].kind = "file"
<1>1. IInv /\ [Next]_vars => [Stay]_vars
  BY Stepwise DEF Grows
<1>2. Spec => [][Stay]_vars
  BY <1>1, StagingInvariant, PTL DEF Spec
<1> QED
  BY <1>2 DEF NothingOverwritten

\* A _run_copier() that returns, and did not come before _stage(), leaves no file out.
THEOREM AllAreCopied == Spec => CopierLeavesNoneOut
<1> DEFINE Whole == RunCopier /\ Staged /\ sourceQueueIndex = 0 /\ outcome' = "ok" =>
                      Range(destFiles) \subseteq DOMAIN fs'
<1>1. IInv /\ [Next]_vars => [Whole]_vars
  <2> SUFFICES ASSUME Types, Once, RunCopier, Staged, sourceQueueIndex = 0, outcome' = "ok"
               PROVE  Range(destFiles) \subseteq DOMAIN fs'
    BY DEF IInv
  <2>1. \A k \in 1 .. Len(assets) : k \in DOMAIN destFiles /\ destFiles[k] \in DOMAIN fs'
    BY RunCopierTypes
  <2>2. Len(destFiles) = Len(assets)
    BY DEF Once, Staged, Prepared
  <2>3. DOMAIN destFiles = 1 .. Len(destFiles)
    BY DEF Types
  <2> QED
    BY <2>1, <2>2, <2>3 DEF Range
<1>2. Spec => [][Whole]_vars
  BY <1>1, StagingInvariant, PTL DEF Spec
<1> QED
  BY <1>2 DEF CopierLeavesNoneOut

\* Unless the tree is flat, every file has a directory to be copied into, and a copier
\* that never ends has found or left an empty file, or found a link that leads into a
\* directory that is not there.
THEOREM FoldersAreReady == Spec => []FoldersReady
<1>1. IInv => FoldersReady
  <2> SUFFICES ASSUME Types, Once, Ended PROVE FoldersReady
    BY DEF IInv
  <2>1. Staged /\ directories # <<>> =>
          \A k \in DOMAIN destFiles : IsDirectory(fs, Parent(destFiles[k]))
    BY DestsHaveParents DEF Staged
  <2> QED
    BY <2>1 DEF Ended, FoldersReady
<1> QED
  BY <1>1, StagingInvariant, PTL

\* What is known of a tree that was staged once, and of each of its files.
LEMMA StagedIs ==
  ASSUME Types, Once, Staged
  PROVE  /\ Placed /\ Gathered /\ Accounted /\ destination # Unset
         /\ DOMAIN destFiles = DOMAIN assets
         /\ \A k \in DOMAIN assets :
              /\ destFiles[k] = GetRelativeDest(assets[k])
              /\ assets[k] \in Paths /\ Below(source, assets[k])
<1>1. Fresh /\ destFiles # <<>>
  BY DEF Staged
<1>2. /\ source # Unset /\ destination # Unset /\ Len(destFiles) = Len(assets)
      /\ \A k \in 1 .. Len(assets) : destFiles[k] = GetRelativeDest(assets[k])
      /\ Gathered /\ Accounted
  BY <1>1 DEF Once, Prepared
<1>3. Placed
  BY <1>2 DEF Types, Placed, Gathered
<1>4. /\ DOMAIN assets = 1 .. Len(assets) /\ DOMAIN destFiles = 1 .. Len(destFiles)
      /\ \A k \in 1 .. Len(assets) : assets[k] \in Paths
  BY ListIs DEF Types
<1> QED
  BY <1>2, <1>3, <1>4 DEF Gathered

\* The lists of sources and destinations correspond: each gathered file has a place of
\* its own in the mirrored tree, or beside the destination if the tree is one of the
\* root's entries, and no file of the tree is forgotten.
THEOREM TreeIsMirrored == Spec => []DestinationsMirrorTree
<1>1. IInv => DestinationsMirrorTree
  <2> SUFFICES ASSUME Types, Once, Staged, source # <<>>
               PROVE  /\ DOMAIN destFiles = DOMAIN assets /\ IsInjective(destFiles)
                      /\ \A k \in DOMAIN assets :
                           IF IsMirrored THEN destFiles[k] = Mirror(assets[k])
                           ELSE ~IsPrefix(destination, destFiles[k])
                      /\ \A p \in DOMAIN fs : fs[p].kind = "file" /\ Below(source, p) =>
                           \/ p \in Range(assets) \cup Range(destFiles) \cup {destination \o <<Report>>}
                           \/ \E q \in DOMAIN fs : fs[q].kind = "link" /\ Below(q, p)
                           \/ "_sys_file_copy" \in copied /\ IsPrefix(destination, source)
    BY DEF IInv, DestinationsMirrorTree
  <2>1. /\ Placed /\ Gathered /\ Accounted /\ destination # Unset
        /\ DOMAIN destFiles = DOMAIN assets
        /\ \A k \in DOMAIN assets :
             /\ destFiles[k] = GetRelativeDest(assets[k])
             /\ assets[k] \in Paths /\ Below(source, assets[k])
    BY StagedIs
  <2>2. ASSUME NEW i \in DOMAIN assets, NEW j \in DOMAIN assets, destFiles[i] = destFiles[j]
        PROVE  i = j
    <3>1. assets[i] = assets[j]
      BY <2>1, <2>2, DestInjective
    <3> QED
      BY <2>1, <3>1 DEF Gathered, IsInjective
  <2>3. IsInjective(destFiles)
    BY <2>1, <2>2 DEF IsInjective
  <2>4. \A k \in DOMAIN assets :
          IF IsMirrored THEN destFiles[k] = Mirror(assets[k])
          ELSE ~IsPrefix(destination, destFiles[k])
    BY <2>1, DestMirrored, DestBeside
  <2> QED
    BY <2>1, <2>3, <2>4 DEF Accounted
<1> QED
  BY <1>1, StagingInvariant, PTL

\* A verification that says match has found every file of the list in the destination, in
\* both builds and whatever was called before; for a tree gathered once that is where it
\* belongs.
THEOREM MatchIsMirrored == Spec => []MatchMeansMirrored
<1>1. IInv => MatchMeansMirrored
  <2> SUFFICES ASSUME Types, Once, Ended, outcome = "match", NEW k \in DOMAIN assets
               PROVE  /\ k \in DOMAIN destFiles /\ Checksum(destFiles[k]) = fs[assets[k]].data
                      /\ Fresh /\ source # <<>> /\ IsMirrored =>
                           Checksum(Mirror(assets[k])) = fs[assets[k]].data
    BY DEF IInv, MatchMeansMirrored
  <2>1. k \in DOMAIN destFiles /\ Checksum(destFiles[k]) = fs[assets[k]].data
    BY DEF Ended
  <2>2. ASSUME Fresh, source # <<>>, IsMirrored PROVE destFiles[k] = Mirror(assets[k])
    <3>1. Staged
      BY <2>1, <2>2 DEF Staged
    <3> QED
      BY <2>2, <3>1, StagedIs, DestMirrored
  <2> QED
    BY <2>1, <2>2
<1> QED
  BY <1>1, StagingInvariant, PTL

\* However often files were given to _copy_file(), and whatever else was called but
\* _run_copier(), the progress bar is full only when every file with any bytes has its
\* copy, or when it is early: bytes of one file were counted twice, or those of a longer
\* file that was kept.
THEOREM CompleteIsCopied == Spec => []CompleteMeansCopied
<1>1. IInv => CompleteMeansCopied
  <2> SUFFICES ASSUME Types, Counted, measured, "_run_copier" \notin copied,
                      ProgressComplete(progress), NoReport, ~recounted,
                      ~(~debug /\ \E k \in counted : fs[destFiles[k]].size > fs[assets[k]].size),
                      NEW j \in DOMAIN assets, fs[assets[j]].size > 0
               PROVE  /\ j \in DOMAIN destFiles /\ destFiles[j] \in DOMAIN fs
                      /\ fs[destFiles[j]].kind = "file"
                      /\ fs[destFiles[j]].size = fs[assets[j]].size
    BY DEF IInv, CompleteMeansCopied, NoReport
  <2>1. /\ progress.state <= transferred
        /\ progress.maximum = SumFunctionOnSet(Sizes, DOMAIN assets)
        /\ counted \subseteq DOMAIN assets \cap DOMAIN destFiles
        /\ \A k \in counted : Paired(k)
        /\ transferred = SumFunctionOnSet(DestSizes, counted)
    BY DEF Counted
  <2> DEFINE D == DOMAIN assets
             sizes == Sizes
             found == DestSizes
  <2>2. IsFiniteSet(D) /\ \A k \in D : sizes[k] \in Nat
    BY SizeIs DEF Types, Sizes
  <2>3. IsFiniteSet(counted) /\ counted \in SUBSET D
    BY <2>1, <2>2, FS_Subset
  <2>4. ASSUME NEW k \in counted
        PROVE  found[k] \in Nat /\ sizes[k] \in Nat /\ found[k] <= sizes[k]
    <3>1. /\ k \in D /\ k \in DOMAIN destFiles /\ destFiles[k] \in DOMAIN fs
          /\ debug => fs[destFiles[k]].size = fs[assets[k]].size
      BY <2>1 DEF Paired
    <3>2. sizes[k] = fs[assets[k]].size /\ found[k] = fs[destFiles[k]].size
      BY <3>1 DEF Sizes, DestSizes
    <3>3. found[k] \in Nat
      <4>1. fs[destFiles[k]] \in Nodes
        BY <3>1 DEF Types, IsFileSystem
      <4> QED
        BY <3>2, <4>1, Node
    <3>4. debug \in BOOLEAN
      BY DEF Types
    <3>5. debug => found[k] = sizes[k]
      BY <3>1, <3>2
    <3>6. ~debug => ~(found[k] > sizes[k])
      BY <3>2
    <3>7. sizes[k] \in Nat
      BY <2>2, <3>1
    <3> HIDE DEF sizes, found
    <3> QED
      BY <3>3, <3>4, <3>5, <3>6, <3>7
  <2> HIDE DEF D, sizes, found
  <2> DEFINE all == SumFunctionOnSet(sizes, D)
             part == SumFunctionOnSet(sizes, counted)
             copies == SumFunctionOnSet(found, counted)
  <2>5. part <= all /\ (part = all <=> \A k \in D \ counted : sizes[k] = 0)
    BY <2>2, <2>3, SumOfPart
  <2>6. copies <= part /\ (copies = part <=> \A k \in counted : found[k] = sizes[k])
    BY <2>3, <2>4, SumOrdered
  <2>7. /\ all \in Nat /\ part \in Nat /\ copies \in Nat
    <3>1. \A k \in counted : sizes[k] \in Nat /\ found[k] \in Nat
      BY <2>4
    <3> QED
      BY <2>2, <2>3, <3>1, SumIsNatural
  <2>8. /\ progress.maximum = all /\ transferred = copies
        /\ progress.state \in Nat /\ progress.state >= progress.maximum
        /\ progress.state <= transferred
    <3>1. progress.state \in Nat
      BY DEF Types
    <3>2. progress.maximum = all /\ transferred = copies
      BY <2>1 DEF D, sizes, found
    <3> QED
      BY <2>1, <3>1, <3>2 DEF ProgressComplete
  <2> HIDE DEF all, part, copies
  <2>9. copies = part /\ part = all
    BY <2>5, <2>6, <2>7, <2>8
  <2>10. sizes[j] = fs[assets[j]].size /\ j \in D /\ sizes[j] # 0
    <3>1. sizes[j] = fs[assets[j]].size /\ j \in D
      BY DEF Sizes, sizes, D
    <3>2. sizes[j] \in Nat
      BY <2>2, <3>1
    <3> QED
      BY <3>1, <3>2
  <2>11. j \in counted /\ found[j] = sizes[j]
    BY <2>5, <2>6, <2>9, <2>10
  <2>12. /\ j \in DOMAIN destFiles /\ destFiles[j] \in DOMAIN fs
         /\ fs[destFiles[j]].kind = "file"
    BY <2>1, <2>11 DEF Paired
  <2>13. found[j] = fs[destFiles[j]].size
    BY <2>12 DEF DestSizes, found
  <2> QED
    BY <2>10, <2>11, <2>12, <2>13
<1> QED
  BY <1>1, StagingInvariant, PTL

===============================================================================
