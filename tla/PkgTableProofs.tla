---------------------------- MODULE PkgTableProofs ----------------------------
(***************************************************************************)
(* What a PKG object reads of the tables of any packages, in any sequence   *)
(* of calls, and what the command line program makes of it.                 *)
(***************************************************************************)
EXTENDS CliProgram, FiniteSetTheorems, SequenceTheorems, WellFoundedInduction, TLAPS

(***************************************************************************)
(* The names of the entries: the array is in ascending order, and halving   *)
(* finds in such an array what it holds.                                    *)
(***************************************************************************)
\* A set of numbers that lacks one lacks a first one.
LEMMA FirstMissing ==
  ASSUME NEW n \in Nat, NEW S, NEW k \in 0 .. n, k \notin S
  PROVE  \E b \in 0 .. n : b \notin S /\ \A a \in 0 .. n : a < b => a \in S
<1> DEFINE bad == {b \in Nat : b <= n /\ b \notin S}
<1>1. bad \subseteq Nat /\ bad # {}
  OBVIOUS
<1>2. PICK b \in bad : \A a \in bad : ~(<<a, b>> \in OpToRel(<, Nat))
  BY <1>1, NatLessThanWellFounded, WFMin
<1>3. b \in bad /\ \A a \in bad : ~(a < b)
  BY <1>1, <1>2 DEF OpToRel
<1>4. b \in 0 .. n /\ b \notin S
  BY <1>3
<1>5. ASSUME NEW a \in 0 .. n, a < b PROVE a \in S
  <2>1. a \notin bad
    BY <1>3, <1>5
  <2> QED
    BY <2>1
<1> QED
  BY <1>4, <1>5

\* What is true of 0 and passes from each number to the next one up to n.
LEMMA CountingUp ==
  ASSUME NEW n \in Nat, NEW S, 0 \in S, \A k \in 1 .. n : k - 1 \in S => k \in S
  PROVE  \A k \in 0 .. n : k \in S
<1> SUFFICES ASSUME NEW k \in 0 .. n, k \notin S PROVE FALSE
  OBVIOUS
<1>1. PICK b \in 0 .. n : b \notin S /\ \A a \in 0 .. n : a < b => a \in S
  BY FirstMissing
<1>2. b # 0
  BY <1>1
<1>3. b \in 1 .. n /\ b - 1 \in 0 .. n /\ b - 1 < b
  BY <1>2
<1> QED
  BY <1>1, <1>3

\* Ascending numbers from a to b.
Ascends(s, a, b) ==
  /\ s \in Seq(Nat)
  /\ \A i \in 1 .. Len(s) : a <= s[i] /\ s[i] <= b
  /\ \A i, j \in 1 .. Len(s) : i < j => s[i] < s[j]

\* A stretch of the array.
LEMMA SpanAscends ==
  ASSUME NEW a \in Nat, NEW b \in Nat, a <= b
  PROVE  Ascends(Span(a, b), a, b)
<1> DEFINE s == Span(a, b)
<1>1. PICK n \in Nat : n = b - a + 1
  OBVIOUS
<1>2. s = [i \in 1 .. n |-> a + i - 1]
  BY <1>1 DEF Span
<1>3. s \in [1 .. n -> Nat] /\ \A i \in 1 .. n : s[i] = a + i - 1
  <2>1. \A i \in 1 .. n : a + i - 1 \in Nat
    OBVIOUS
  <2> QED
    BY <1>2, <2>1
<1> HIDE DEF s
<1>4. s \in Seq(Nat) /\ Len(s) = n
  BY <1>2, <1>3
<1> QED
  BY <1>1, <1>3, <1>4 DEF Ascends, s

\* Two stretches, the second above the first.
LEMMA AscendsOn ==
  ASSUME NEW a \in Nat, NEW b \in Nat, NEW c \in Nat, NEW d \in Nat, a <= b, b < c, c <= d,
         NEW s, Ascends(s, a, b), NEW t, Ascends(t, c, d)
  PROVE  Ascends(s \o t, a, d)
<1> DEFINE r == s \o t
<1>1. PICK m \in Nat : m = Len(s)
  BY DEF Ascends
<1>2. PICK n \in Nat : n = Len(t)
  BY DEF Ascends
<1>3. /\ r \in Seq(Nat) /\ Len(r) = m + n
      /\ \A i \in 1 .. m + n : r[i] = IF i <= m THEN s[i] ELSE t[i - m]
  BY <1>1, <1>2, ConcatProperties DEF Ascends
<1> HIDE DEF r
<1>4. /\ \A i \in 1 .. m : s[i] \in Nat /\ a <= s[i] /\ s[i] <= b
      /\ \A i \in 1 .. n : t[i] \in Nat /\ c <= t[i] /\ t[i] <= d
  BY <1>1, <1>2 DEF Ascends
<1>5. ASSUME NEW i \in 1 .. m + n
      PROVE  a <= r[i] /\ r[i] <= d
  <2>1. CASE i <= m
    <3>1. i \in 1 .. m /\ r[i] = s[i]
      BY <1>3, <2>1
    <3> QED
      BY <1>4, <3>1
  <2>2. CASE ~(i <= m)
    <3>1. i - m \in 1 .. n /\ r[i] = t[i - m]
      BY <1>3, <2>2
    <3> QED
      BY <1>4, <3>1
  <2> QED
    BY <2>1, <2>2
<1>6. ASSUME NEW i \in 1 .. m + n, NEW j \in 1 .. m + n, i < j
      PROVE  r[i] < r[j]
  <2>1. CASE j <= m
    <3>1. i \in 1 .. m /\ j \in 1 .. m /\ r[i] = s[i] /\ r[j] = s[j]
      BY <1>3, <1>6, <2>1
    <3> QED
      BY <1>1, <1>6, <3>1 DEF Ascends
  <2>2. CASE i <= m /\ ~(j <= m)
    <3>1. i \in 1 .. m /\ j - m \in 1 .. n /\ r[i] = s[i] /\ r[j] = t[j - m]
      BY <1>3, <2>2
    <3> QED
      BY <1>4, <3>1
  <2>3. CASE ~(i <= m)
    <3>1. ~(j <= m) /\ i - m \in 1 .. n /\ j - m \in 1 .. n /\ i - m < j - m
      BY <1>6, <2>3
    <3>2. r[i] = t[i - m]
      BY <1>3, <2>3
    <3>3. r[j] = t[j - m]
      BY <1>3, <3>1
    <3> QED
      BY <1>2, <3>1, <3>2, <3>3 DEF Ascends
  <2> QED
    BY <1>6, <2>1, <2>2, <2>3
<1> QED
  BY <1>3, <1>5, <1>6 DEF Ascends, r

\* f[i] is made of the first i lists of seqs.
Joined(s, t) == s \o t
Joins(f, seqs, n) ==
  f[1] = seqs[1] /\ \A i \in 2 .. n : f[i] = Joined(f[i - 1], seqs[i])

\* One list of several.
LEMMA FlattenIs ==
  ASSUME NEW T, NEW n \in Nat \ {0}, NEW seqs \in [1 .. n -> Seq(T)]
  PROVE  \E f : Joins(f, seqs, n) /\ FlattenSeq(seqs) = f[n]
<1> DEFINE Longer(g, m) == IF m = 1 THEN seqs[m] ELSE g[m - 1] \o seqs[m]
           Upto(g, k) == \A m \in 1 .. n : m <= k => g[m] = Longer(g, m)
           S == {k \in 0 .. n : \E g : g = [m \in 1 .. n |-> g[m]] /\ Upto(g, k)}
<1>1. Len(seqs) = n
  OBVIOUS
<1>2. 0 \in S
  <2> DEFINE g == [m \in 1 .. n |-> 0]
  <2>1. g = [m \in 1 .. n |-> g[m]]
    OBVIOUS
  <2>2. Upto(g, 0)
    OBVIOUS
  <2> HIDE DEF g, Upto
  <2>3. \E f : f = [m \in 1 .. n |-> f[m]] /\ Upto(f, 0)
    BY <2>1, <2>2
  <2> QED
    BY <2>3
<1>3. ASSUME NEW k \in 1 .. n, k - 1 \in S
      PROVE  k \in S
  <2>1. PICK g : g = [m \in 1 .. n |-> g[m]] /\ Upto(g, k - 1)
    BY <1>3
  <2> DEFINE h == [m \in 1 .. n |-> IF m = k THEN Longer(g, m) ELSE g[m]]
  <2>2. \A m \in 1 .. n : h[m] = IF m = k THEN Longer(g, m) ELSE g[m]
    OBVIOUS
  <2>3. h = [m \in 1 .. n |-> h[m]]
    OBVIOUS
  <2> HIDE DEF h
  <2>4. ASSUME NEW m \in 1 .. n, m <= k
        PROVE  h[m] = Longer(h, m)
    <3>1. Longer(h, m) = Longer(g, m)
      <4>1. m # 1 => h[m - 1] = g[m - 1]
        BY <2>2, <2>4
      <4> QED
        BY <4>1
    <3>2. CASE m = k
      BY <2>2, <3>1, <3>2
    <3>3. CASE m # k
      <4>1. m <= k - 1
        BY <2>4, <3>3
      <4>2. g[m] = Longer(g, m)
        BY <2>1, <4>1
      <4> QED
        BY <2>2, <3>1, <3>3, <4>2
    <3> QED
      BY <3>2, <3>3
  <2>5. Upto(h, k)
    BY <2>4
  <2> HIDE DEF Upto
  <2>6. \E f : f = [m \in 1 .. n |-> f[m]] /\ Upto(f, k)
    BY <2>3, <2>5
  <2> QED
    BY <2>6
<1>4. n \in S
  <2> HIDE DEF S
  <2>1. \A k \in 0 .. n : k \in S
    BY <1>2, <1>3, CountingUp
  <2> QED
    BY <2>1
<1>5. PICK g : g = [m \in 1 .. n |-> g[m]] /\ Upto(g, n)
  BY <1>4
<1> DEFINE Says(f) == f = [i \in 1 .. Len(seqs) |-> IF i = 1 THEN seqs[i] ELSE f[i - 1] \o seqs[i]]
<1>6. Says(g)
  <2> DEFINE h == [m \in 1 .. n |-> Longer(g, m)]
  <2>1. \A m \in 1 .. n : g[m] = h[m]
    <3>1. \A m \in 1 .. n : m <= n
      OBVIOUS
    <3>2. \A m \in 1 .. n : g[m] = Longer(g, m)
      <4> HIDE DEF Longer
      <4> QED
        BY <1>5, <3>1
    <3> HIDE DEF Longer
    <3> QED
      BY <3>2
  <2>2. h = [m \in 1 .. n |-> h[m]]
    OBVIOUS
  <2> HIDE DEF h
  <2>3. g = h
    BY <1>5, <2>1, <2>2
  <2> QED
    BY <1>1, <2>3 DEF h
<1> DEFINE F == CHOOSE f : Says(f)
<1>7. Says(F)
  <2> HIDE DEF Says
  <2> QED
    BY <1>6
<1>8. FlattenSeq(seqs) = F[n]
  BY <1>1 DEF FlattenSeq
<1>9. \A m \in 1 .. n : F[m] = Longer(F, m)
  <2> HIDE DEF F
  <2>1. F = [m \in 1 .. n |-> Longer(F, m)]
    BY <1>1, <1>7
  <2> HIDE DEF Longer
  <2> QED
    BY <2>1
<1> HIDE DEF F, Says
<1>10. F[1] = seqs[1]
  BY <1>9
<1>11. ASSUME NEW i \in 2 .. n PROVE F[i] = F[i - 1] \o seqs[i]
  <2>1. i \in 1 .. n /\ i # 1
    OBVIOUS
  <2> QED
    BY <1>9, <2>1
<1>12. Joins(F, seqs, n)
  BY <1>10, <1>11 DEF Joins, Joined
<1> QED
  BY <1>8, <1>12

\* A group of key maps.
LEMMA KeymapGroupAscends ==
  ASSUME NEW k \in Nat, NEW a \in Nat, a = \h1600 + 16 * k
  PROVE  Ascends(KeymapGroup(k), a, a + 9)
<1>1. PICK b \in Nat : b = IF k = 4 THEN a + 8 ELSE a + 9
  OBVIOUS
<1>2. KeymapGroup(k) = Span(a, b)
  <2>1. \h1600 + 16 * k + (IF k = 4 THEN 8 ELSE 9) = b
    BY <1>1
  <2> QED
    BY <2>1 DEF KeymapGroup
<1>3. Ascends(KeymapGroup(k), a, b) /\ b <= a + 9
  BY <1>1, <1>2, SpanAscends
<1> QED
  BY <1>1, <1>3 DEF Ascends

\* Several groups.
LEMMA KeymapGroupsAscend ==
  ASSUME NEW a \in Nat, NEW b \in Nat, a <= b,
         NEW c \in Nat, c = \h1600 + 16 * a, NEW d \in Nat, d = \h1600 + 16 * b + 9
  PROVE  Ascends(KeymapGroups(a, b), c, d)
<1>1. PICK n \in Nat \ {0} : n = b - a + 1
  OBVIOUS
<1> DEFINE seqs == [i \in 1 .. n |-> KeymapGroup(a + i - 1)]
           Lo(i) == \h1600 + 16 * (a + i - 1)
           Hi(i) == Lo(i) + 9
<1>2. ASSUME NEW i \in 1 .. n
      PROVE  Lo(i) \in Nat /\ Hi(i) \in Nat /\ Ascends(seqs[i], Lo(i), Hi(i))
  <2>1. PICK k \in Nat : k = a + i - 1
    OBVIOUS
  <2>2. PICK e \in Nat : e = \h1600 + 16 * k
    OBVIOUS
  <2>3. Ascends(KeymapGroup(k), e, e + 9)
    BY <2>2, KeymapGroupAscends
  <2>4. seqs[i] = KeymapGroup(k) /\ Lo(i) = e /\ Hi(i) = e + 9
    BY <2>1, <2>2
  <2> HIDE DEF seqs, Lo, Hi
  <2> QED
    BY <2>3, <2>4
<1>3. seqs \in [1 .. n -> Seq(Nat)]
  <2>1. \A i \in 1 .. n : seqs[i] \in Seq(Nat)
    <3> HIDE DEF seqs, Lo, Hi
    <3> QED
      BY <1>2 DEF Ascends
  <2>2. seqs = [i \in 1 .. n |-> seqs[i]]
    OBVIOUS
  <2> HIDE DEF seqs
  <2> QED
    BY <2>1, <2>2
<1>4. PICK f : Joins(f, seqs, n) /\ FlattenSeq(seqs) = f[n]
  <2> HIDE DEF seqs
  <2> QED
    BY <1>3, FlattenIs
<1>5. /\ Lo(1) = c /\ Hi(n) = d
      /\ \A i \in 2 .. n : Hi(i - 1) < Lo(i) /\ i - 1 \in 1 .. n
      /\ \A i \in 1 .. n : c <= Lo(i) /\ Lo(i) <= Hi(i)
  BY <1>1
<1>6. KeymapGroups(a, b) = FlattenSeq(seqs)
  BY <1>1 DEF KeymapGroups
<1> HIDE DEF seqs, Lo, Hi
<1> DEFINE S == {k \in 0 .. n : k >= 1 => Ascends(f[k], c, Hi(k))}
<1>7. 0 \in S
  OBVIOUS
<1>8. ASSUME NEW k \in 1 .. n, k - 1 \in S PROVE k \in S
  <2>1. CASE k = 1
    <3>1. Ascends(f[k], c, Hi(k))
      BY <1>2, <1>4, <1>5, <2>1 DEF Joins
    <3> QED
      BY <3>1
  <2>2. CASE k # 1
    <3>1. k \in 2 .. n /\ k - 1 >= 1
      BY <2>2
    <3>2. PICK j \in 1 .. n : j = k - 1
      BY <1>5, <3>1
    <3>3. Ascends(f[j], c, Hi(j))
      BY <1>8, <3>1, <3>2
    <3>4. Ascends(seqs[k], Lo(k), Hi(k)) /\ Lo(k) \in Nat /\ Hi(k) \in Nat /\ Hi(j) \in Nat
      BY <1>2
    <3>5. c <= Hi(j) /\ Hi(j) < Lo(k) /\ Lo(k) <= Hi(k)
      <4>1. c <= Hi(j)
        <5>1. Lo(j) \in Nat /\ c <= Lo(j) /\ Lo(j) <= Hi(j)
          BY <1>2, <1>5
        <5> QED
          BY <3>4, <5>1
      <4> QED
        BY <1>5, <3>1, <3>2, <4>1
    <3>6. Ascends(Joined(f[j], seqs[k]), c, Hi(k))
      BY <3>3, <3>4, <3>5, AscendsOn DEF Joined
    <3>7. f[k] = Joined(f[j], seqs[k])
      BY <1>4, <3>1, <3>2 DEF Joins
    <3>8. Ascends(f[k], c, Hi(k))
      BY <3>6, <3>7
    <3> QED
      BY <3>8
  <2> QED
    BY <2>1, <2>2
<1>9. n \in S
  <2> HIDE DEF S
  <2>1. \A k \in 0 .. n : k \in S
    BY <1>7, <1>8, CountingUp
  <2> QED
    BY <2>1
<1> QED
  BY <1>4, <1>5, <1>6, <1>9

\* The parts of the array.
LEMMA PartsAscend ==
  /\ Ascends(HeaderEntries, \h1, \h409) /\ Ascends(ContentEntries, \h1000, \h1220)
  /\ Ascends(PictureEntries, \h1240, \h12a0) /\ Ascends(PictureDdsEntries, \h12c0, \h12df)
  /\ Ascends(TrophyEntries, \h1400, \h1463)
  /\ Ascends(KeymapsTo14, \h1600, \h16e9) /\ Ascends(KeymapsTo29, \h16f0, \h17d9)
  /\ Ascends(KeymapsTo31, \h17e0, \h17f9)
<1>1. Ascends(HeaderEntries, \h1, \h409)
  <2> DEFINE h == <<\h1, \h10, \h20, \h80, \h100, \h200>>
  <2>1. Ascends(h, \h1, \h200)
    <3>1. h \in Seq(Nat) /\ Len(h) = 6
      OBVIOUS
    <3>2. h[1] = \h1 /\ h[2] = \h10 /\ h[3] = \h20 /\ h[4] = \h80 /\ h[5] = \h100 /\ h[6] = \h200
      OBVIOUS
    <3> HIDE DEF h
    <3> QED
      BY <3>1, <3>2 DEF Ascends
  <2>2. Ascends(Span(\h400, \h404), \h400, \h404) /\ Ascends(Span(\h406, \h409), \h406, \h409)
    BY SpanAscends
  <2> HIDE DEF h
  <2>3. Ascends(h \o Span(\h400, \h404), \h1, \h404)
    BY <2>1, <2>2, AscendsOn
  <2>4. Ascends(h \o Span(\h400, \h404) \o Span(\h406, \h409), \h1, \h409)
    BY <2>2, <2>3, AscendsOn
  <2> QED
    BY <2>4 DEF HeaderEntries, h
<1>2. Ascends(ContentEntries, \h1000, \h1220)
  <2>1. Ascends(Span(\h1000, \h100e), \h1000, \h100e) /\ Ascends(Span(\h1200, \h1220), \h1200, \h1220)
    BY SpanAscends
  <2> QED
    BY <2>1, AscendsOn DEF ContentEntries
<1>3. /\ Ascends(PictureEntries, \h1240, \h12a0) /\ Ascends(PictureDdsEntries, \h12c0, \h12df)
      /\ Ascends(TrophyEntries, \h1400, \h1463)
  BY SpanAscends DEF PictureEntries, PictureDdsEntries, TrophyEntries
<1>4. /\ Ascends(KeymapsTo14, \h1600, \h16e9) /\ Ascends(KeymapsTo29, \h16f0, \h17d9)
      /\ Ascends(KeymapsTo31, \h17e0, \h17f9)
  BY KeymapGroupsAscend DEF KeymapsTo14, KeymapsTo29, KeymapsTo31
<1> QED
  BY <1>1, <1>2, <1>3, <1>4

\* The array of the source is in ascending order (pkg_type.cpp:18-628).
LEMMA EntriesAscend == Ascends(PkgEntries, \h1, \h17f9)
<1>1. Ascends(HeaderEntries \o ContentEntries, \h1, \h1220)
  BY PartsAscend, AscendsOn
<1>2. Ascends(HeaderEntries \o ContentEntries \o PictureEntries, \h1, \h12a0)
  BY PartsAscend, <1>1, AscendsOn
<1>3. Ascends(HeaderEntries \o ContentEntries \o PictureEntries \o PictureDdsEntries, \h1, \h12df)
  BY PartsAscend, <1>2, AscendsOn
<1>4. Ascends(HeaderEntries \o ContentEntries \o PictureEntries \o PictureDdsEntries
              \o TrophyEntries, \h1, \h1463)
  BY PartsAscend, <1>3, AscendsOn
<1>5. Ascends(HeaderEntries \o ContentEntries \o PictureEntries \o PictureDdsEntries
              \o TrophyEntries \o KeymapsTo14, \h1, \h16e9)
  BY PartsAscend, <1>4, AscendsOn
<1>6. Ascends(HeaderEntries \o ContentEntries \o PictureEntries \o PictureDdsEntries
               \o TrophyEntries \o KeymapsTo14 \o KeymapsTo29, \h1, \h17d9)
  BY PartsAscend, <1>5, AscendsOn
<1>7. Ascends(HeaderEntries \o ContentEntries \o PictureEntries \o PictureDdsEntries
               \o TrophyEntries \o KeymapsTo14 \o KeymapsTo29 \o KeymapsTo31, \h1, \h17f9)
  BY PartsAscend, <1>6, AscendsOn
<1> QED
  BY <1>7 DEF PkgEntries

\* Half of a number that is not zero is below it, and so is the rest but one.
LEMMA HalfIs ==
  ASSUME NEW n \in Nat \ {0}
  PROVE  n \div 2 \in 0 .. n - 1 /\ n - n \div 2 - 1 \in 0 .. n - 1
<1>1. PICK m \in Nat : m = 2
  OBVIOUS
<1>2. n \div m \in Nat /\ n % m \in 0 .. m - 1 /\ n = m * (n \div m) + (n % m)
  BY <1>1
<1>3. n \div m = n \div 2
  BY <1>1
<1> QED
  BY <1>1, <1>2, <1>3

\* The place r parts the types below type from the others.
PartsAt(r, type) ==
  /\ r \in 1 .. Len(PkgEntries) + 1
  /\ \A i \in 1 .. Len(PkgEntries) : i < r => PkgEntries[i] < type
  /\ \A i \in 1 .. Len(PkgEntries) : i >= r => PkgEntries[i] >= type

\* Halving the range finds that place.
LEMMA LowerBoundParts ==
  ASSUME NEW type \in Nat
  PROVE  PartsAt(LowerBound(type), type)
<1>1. PICK L \in Nat : L = Len(PkgEntries)
  BY EntriesAscend DEF Ascends
<1>2. PICK P : P = PkgEntries
  OBVIOUS
<1>3. /\ \A i \in 1 .. L : P[i] \in Nat
      /\ \A i, j \in 1 .. L : i < j => P[i] < P[j]
  BY <1>1, <1>2, EntriesAscend DEF Ascends
<1> DEFINE Half(n) == n \div 2
           Rest(n) == n - Half(n) - 1
           Step(g, n, lo) == IF n = 0 THEN lo
                             ELSE IF P[lo + Half(n)] < type
                                  THEN g[Rest(n)][lo + Half(n) + 1]
                                  ELSE g[Half(n)][lo]
           Row(g, n) == [lo \in 1 .. L - n + 1 |-> Step(g, n, lo)]
           Upto(g, k) == \A m \in 0 .. L : m <= k => g[m] = Row(g, m)
           S == {k \in 0 .. L : \E g : g = [m \in 0 .. L |-> g[m]] /\ Upto(g, k)}
           Says(f) == f = [n \in 0 .. L |-> Row(f, n)]
           F == CHOOSE f : Says(f)
<1>4. LowerBound(type) = F[L][1]
  BY <1>1, <1>2 DEF LowerBound
<1>5. ASSUME NEW n \in 1 .. L
      PROVE  /\ Half(n) \in 0 .. n - 1 /\ Rest(n) \in 0 .. n - 1
             /\ Half(n) \in 0 .. L /\ Rest(n) \in 0 .. L /\ Half(n) + Rest(n) = n - 1
  <2>1. n \div 2 \in 0 .. n - 1 /\ n - n \div 2 - 1 \in 0 .. n - 1
    BY HalfIs
  <2>2. PICK h \in 0 .. n - 1 : h = n \div 2
    BY <2>1
  <2>3. Half(n) = h /\ Rest(n) = n - h - 1
    BY <2>2
  <2> HIDE DEF Half, Rest
  <2> QED
    BY <2>3
<1> HIDE DEF Half, Rest
<1>6. ASSUME NEW g, NEW h, NEW m \in 0 .. L,
             m # 0 => g[Half(m)] = h[Half(m)] /\ g[Rest(m)] = h[Rest(m)]
      PROVE  Row(g, m) = Row(h, m)
  <2>1. ASSUME NEW lo \in 1 .. L - m + 1 PROVE Step(g, m, lo) = Step(h, m, lo)
    BY <1>6
  <2> HIDE DEF Step
  <2> QED
    BY <2>1
<1> HIDE DEF Row
<1>7. 0 \in S
  <2>1. PICK r : r = Row(0, 0)
    OBVIOUS
  <2> DEFINE g == [m \in 0 .. L |-> r]
  <2>2. g = [m \in 0 .. L |-> g[m]] /\ g[0] = r
    OBVIOUS
  <2> HIDE DEF g
  <2>3. Row(g, 0) = r
    <3>1. Row(g, 0) = Row(0, 0)
      BY <1>6
    <3> QED
      BY <2>1, <3>1
  <2>4. Upto(g, 0)
    <3>1. \A m \in 0 .. L : m <= 0 => m = 0
      OBVIOUS
    <3> QED
      BY <2>2, <2>3, <3>1
  <2> HIDE DEF Upto
  <2>5. \E f : f = [m \in 0 .. L |-> f[m]] /\ Upto(f, 0)
    BY <2>2, <2>4
  <2> QED
    BY <2>5
<1>8. ASSUME NEW k \in 1 .. L, k - 1 \in S
      PROVE  k \in S
  <2>1. PICK g : g = [m \in 0 .. L |-> g[m]] /\ Upto(g, k - 1)
    BY <1>8
  <2> DEFINE h == [m \in 0 .. L |-> IF m = k THEN Row(g, m) ELSE g[m]]
  <2>2. \A m \in 0 .. L : h[m] = IF m = k THEN Row(g, m) ELSE g[m]
    OBVIOUS
  <2>3. h = [m \in 0 .. L |-> h[m]]
    OBVIOUS
  <2> HIDE DEF h
  <2>4. ASSUME NEW m \in 0 .. L, m <= k
        PROVE  h[m] = Row(h, m)
    <3>1. Row(h, m) = Row(g, m)
      <4>1. ASSUME m # 0
            PROVE  /\ Half(m) \in 0 .. L /\ Half(m) # k
                   /\ Rest(m) \in 0 .. L /\ Rest(m) # k
        <5>1. m \in 1 .. L
          BY <4>1
        <5>2. Half(m) \in 0 .. m - 1 /\ Rest(m) \in 0 .. m - 1
          BY <1>5, <5>1
        <5> QED
          BY <2>4, <5>2
      <4>2. m # 0 => h[Half(m)] = g[Half(m)] /\ h[Rest(m)] = g[Rest(m)]
        BY <2>2, <4>1
      <4> QED
        BY <1>6, <4>2
    <3>2. CASE m = k
      BY <2>2, <3>1, <3>2
    <3>3. CASE m # k
      <4>1. m <= k - 1
        BY <2>4, <3>3
      <4>2. g[m] = Row(g, m)
        BY <2>1, <4>1
      <4> QED
        BY <2>2, <3>1, <3>3, <4>2
    <3> QED
      BY <3>2, <3>3
  <2>5. Upto(h, k)
    BY <2>4
  <2> HIDE DEF Upto
  <2>6. \E f : f = [m \in 0 .. L |-> f[m]] /\ Upto(f, k)
    BY <2>3, <2>5
  <2> QED
    BY <2>6
<1>9. L \in S
  <2> HIDE DEF S
  <2>1. \A k \in 0 .. L : k \in S
    BY <1>7, <1>8, CountingUp
  <2> QED
    BY <2>1
<1>10. PICK g : g = [m \in 0 .. L |-> g[m]] /\ Upto(g, L)
  BY <1>9
<1>11. Says(F)
  <2>1. \A m \in 0 .. L : g[m] = Row(g, m)
    BY <1>10
  <2>2. Says(g)
    BY <1>10, <2>1
  <2> HIDE DEF Says
  <2> QED
    BY <2>2
<1> HIDE DEF F
<1>12. \A m \in 0 .. L : F[m] = Row(F, m)
  BY <1>11
<1> HIDE DEF Says, Upto, S
<1>13. ASSUME NEW m \in 0 .. L, NEW lo \in 1 .. L - m + 1
       PROVE  F[m][lo] = Step(F, m, lo)
  BY <1>12 DEF Row
<1> DEFINE Below(lo) == \A i \in 1 .. L : i < lo => P[i] < type
           Above(lo) == \A i \in 1 .. L : i >= lo => P[i] >= type
           Found(r) == r \in 1 .. L + 1 /\ Below(r) /\ Above(r)
           Finds(m) == \A lo \in 1 .. L - m + 1 : Below(lo) /\ Above(lo + m) => Found(F[m][lo])
           T == {k \in 0 .. L : \A m \in 0 .. L : m <= k => Finds(m)}
<1>14. Finds(0)
  <2>1. \A lo \in 1 .. L - 0 + 1 : F[0][lo] = lo /\ lo + 0 = lo /\ lo \in 1 .. L + 1
    BY <1>13
  <2> QED
    BY <2>1
<1>15. ASSUME NEW m \in 1 .. L, Finds(Half(m)), Finds(Rest(m))
       PROVE  Finds(m)
  <2> SUFFICES ASSUME NEW lo \in 1 .. L - m + 1, Below(lo), Above(lo + m)
               PROVE  Found(F[m][lo])
    OBVIOUS
  <2>1. PICK h \in 0 .. m - 1 : h = Half(m)
    BY <1>5
  <2>2. PICK r \in 0 .. m - 1 : r = Rest(m)
    BY <1>5
  <2>3. h + r = m - 1
    BY <1>5, <2>1, <2>2
  <2>4. m \in 0 .. L /\ m # 0
    OBVIOUS
  <2>5. PICK mid \in 1 .. L : mid = lo + h
    OBVIOUS
  <2>6. F[m][lo] = IF P[mid] < type THEN F[r][mid + 1] ELSE F[h][lo]
    BY <1>13, <2>1, <2>2, <2>4, <2>5
  <2>7. CASE P[mid] < type
    <3>1. PICK up \in 1 .. L - r + 1 : up = mid + 1
      BY <2>3, <2>5
    <3>2. Below(up)
      <4>1. ASSUME NEW i \in 1 .. L, i < up PROVE P[i] < type
        <5>1. i = mid \/ i < mid
          BY <3>1, <4>1
        <5>2. i < mid => P[i] < P[mid]
          BY <1>3
        <5>3. P[i] \in Nat /\ P[mid] \in Nat
          BY <1>3
        <5> QED
          BY <2>7, <5>1, <5>2, <5>3
      <4> QED
        BY <4>1
    <3>3. Above(up + r)
      <4>1. up + r = lo + m
        BY <2>3, <2>5, <3>1
      <4> QED
        BY <4>1
    <3> HIDE DEF Below, Above, Found
    <3>4. Found(F[r][up])
      BY <1>15, <2>2, <3>1, <3>2, <3>3
    <3>5. F[m][lo] = F[r][up]
      BY <2>6, <2>7, <3>1
    <3> QED
      BY <3>4, <3>5
  <2>8. CASE ~(P[mid] < type)
    <3>1. Above(lo + h)
      <4>1. ASSUME NEW i \in 1 .. L, i >= mid PROVE P[i] >= type
        <5>1. i = mid \/ mid < i
          BY <4>1
        <5>2. mid < i => P[mid] < P[i]
          BY <1>3
        <5>3. P[i] \in Nat /\ P[mid] \in Nat
          BY <1>3
        <5> QED
          BY <2>8, <5>1, <5>2, <5>3
      <4> QED
        BY <2>5, <4>1
    <3>2. lo \in 1 .. L - h + 1
      OBVIOUS
    <3> HIDE DEF Below, Above, Found
    <3>3. Found(F[h][lo])
      BY <1>15, <2>1, <3>1, <3>2
    <3> QED
      BY <2>6, <2>8, <3>3
  <2> QED
    BY <2>7, <2>8
<1> HIDE DEF Finds
<1>16. 0 \in T
  <2>1. \A m \in 0 .. L : m <= 0 => m = 0
    OBVIOUS
  <2> QED
    BY <1>14, <2>1
<1>17. ASSUME NEW k \in 1 .. L, k - 1 \in T
       PROVE  k \in T
  <2>1. \A m \in 0 .. L : m <= k - 1 => Finds(m)
    BY <1>17
  <2>2. Half(k) \in 0 .. L /\ Rest(k) \in 0 .. L /\ Half(k) <= k - 1 /\ Rest(k) <= k - 1
    BY <1>5
  <2>3. Finds(k)
    BY <1>15, <2>1, <2>2
  <2>4. \A m \in 0 .. L : m <= k => m = k \/ m <= k - 1
    OBVIOUS
  <2> QED
    BY <2>1, <2>3, <2>4
<1>18. Finds(L)
  <2> HIDE DEF T
  <2>1. \A k \in 0 .. L : k \in T
    BY <1>16, <1>17, CountingUp
  <2>2. L \in T
    BY <2>1
  <2> QED
    BY <2>2 DEF T
<1>19. Found(F[L][1])
  <2>1. 1 \in 1 .. L - L + 1 /\ Below(1) /\ Above(1 + L)
    OBVIOUS
  <2> HIDE DEF Below, Above, Found
  <2> QED
    BY <1>18, <2>1 DEF Finds
<1> HIDE DEF F
<1> QED
  BY <1>1, <1>2, <1>4, <1>19 DEF PartsAt

\* Every type, not only those that the property asks for, gets the name of its row,
\* and none when the array has no row for it (pkg_type.cpp:632-640).
THEOREM EveryTypeNamed ==
  ASSUME NEW type \in Nat
  PROVE  LET name == GetEntryNameByType(type) IN
         IF name = NoName THEN type \notin ToSet(PkgEntries) ELSE PkgEntries[name] = type
<1>1. PICK L \in Nat : L = Len(PkgEntries)
  BY EntriesAscend DEF Ascends
<1>2. PICK P : P = PkgEntries
  OBVIOUS
<1>3. /\ \A i \in 1 .. L : P[i] \in Nat
      /\ \A i, j \in 1 .. L : i < j => P[i] < P[j]
  BY <1>1, <1>2, EntriesAscend DEF Ascends
<1>4. PICK r : r = LowerBound(type)
  OBVIOUS
<1>5. /\ r \in 1 .. L + 1 /\ \A i \in 1 .. L : i < r => P[i] < type
      /\ \A i \in 1 .. L : i >= r => P[i] >= type
  BY <1>1, <1>2, <1>4, LowerBoundParts DEF PartsAt
<1>6. GetEntryNameByType(type) = IF r <= L /\ P[r] = type THEN r ELSE NoName
  BY <1>1, <1>2, <1>4 DEF GetEntryNameByType
<1>7. ToSet(PkgEntries) = {P[i] : i \in 1 .. L}
  BY <1>1, <1>2, EntriesAscend DEF ToSet, Ascends
<1>8. CASE r <= L /\ P[r] = type
  BY <1>2, <1>5, <1>6, <1>8 DEF NoName
<1>9. CASE ~(r <= L /\ P[r] = type)
  <2>1. ASSUME NEW i \in 1 .. L, P[i] = type PROVE FALSE
    <3>1. i >= r
      BY <1>3, <1>5, <2>1
    <3>2. r \in 1 .. L /\ (r = i \/ r < i)
      BY <1>5, <3>1
    <3>3. r = i
      BY <1>3, <1>5, <2>1, <3>2
    <3> QED
      BY <1>9, <2>1, <3>2, <3>3
  <2> QED
    BY <1>6, <1>7, <1>9, <2>1
<1> QED
  BY <1>8, <1>9

\* A list holds the type.
Holds(s, type) == \E i \in 1 .. Len(s) : s[i] = type

\* What a list holds, it holds with others before or behind it.
LEMMA HoldsOn ==
  ASSUME NEW s, NEW t, s \in Seq(Nat), t \in Seq(Nat), NEW type, Holds(s, type) \/ Holds(t, type)
  PROVE  s \o t \in Seq(Nat) /\ Holds(s \o t, type)
<1>1. PICK m \in Nat : m = Len(s)
  OBVIOUS
<1>2. PICK n \in Nat : n = Len(t)
  OBVIOUS
<1> DEFINE r == s \o t
<1>3. /\ r \in Seq(Nat) /\ Len(r) = m + n
      /\ \A i \in 1 .. m + n : r[i] = IF i <= m THEN s[i] ELSE t[i - m]
  BY <1>1, <1>2, ConcatProperties
<1> HIDE DEF r
<1>4. CASE Holds(s, type)
  <2>1. PICK i \in 1 .. m : s[i] = type
    BY <1>1, <1>4 DEF Holds
  <2>2. i \in 1 .. m + n /\ r[i] = type
    BY <1>3, <2>1
  <2> QED
    BY <1>3, <2>2 DEF Holds, r
<1>5. CASE Holds(t, type)
  <2>1. PICK i \in 1 .. n : t[i] = type
    BY <1>2, <1>5 DEF Holds
  <2>2. PICK k \in 1 .. m + n : k = m + i
    OBVIOUS
  <2>3. k - m = i /\ ~(k <= m)
    BY <2>2
  <2>4. r[k] = type
    BY <1>3, <2>1, <2>3
  <2> QED
    BY <1>3, <2>4 DEF Holds, r
<1> QED
  BY <1>4, <1>5

\* Open looks for param.sfo by its name: the array has a row for it.
LEMMA ParamSfoNamed == ParamSfo # NoName
<1> DEFINE x == \h1000
           a == HeaderEntries \o ContentEntries
           b == a \o PictureEntries
           c == b \o PictureDdsEntries
           d == c \o TrophyEntries
           e == d \o KeymapsTo14
           f == e \o KeymapsTo29
           g == f \o KeymapsTo31
<1>1. /\ HeaderEntries \in Seq(Nat) /\ ContentEntries \in Seq(Nat) /\ PictureEntries \in Seq(Nat)
      /\ PictureDdsEntries \in Seq(Nat) /\ TrophyEntries \in Seq(Nat) /\ KeymapsTo14 \in Seq(Nat)
      /\ KeymapsTo29 \in Seq(Nat) /\ KeymapsTo31 \in Seq(Nat)
  BY PartsAscend DEF Ascends
<1>2. Holds(ContentEntries, x)
  <2> DEFINE s == Span(\h1000, \h100e)
             t == Span(\h1200, \h1220)
  <2>1. s \in Seq(Nat) /\ t \in Seq(Nat)
    <3>1. Ascends(s, \h1000, \h100e) /\ Ascends(t, \h1200, \h1220)
      BY SpanAscends
    <3> HIDE DEF s, t
    <3> QED
      BY <3>1 DEF Ascends
  <2>2. Holds(s, x)
    <3>1. Len(s) = 15 /\ s[1] = \h1000
      BY DEF Span
    <3> QED
      BY <3>1 DEF Holds
  <2> HIDE DEF s, t, x
  <2>3. Holds(s \o t, x)
    BY <2>1, <2>2, HoldsOn
  <2> QED
    BY <2>3 DEF ContentEntries, s, t
<1> HIDE DEF x, a, b, c, d, e, f, g
<1>3. a \in Seq(Nat) /\ Holds(a, x)
  BY <1>1, <1>2, HoldsOn DEF a
<1>4. b \in Seq(Nat) /\ Holds(b, x)
  BY <1>1, <1>3, HoldsOn DEF b
<1>5. c \in Seq(Nat) /\ Holds(c, x)
  BY <1>1, <1>4, HoldsOn DEF c
<1>6. d \in Seq(Nat) /\ Holds(d, x)
  BY <1>1, <1>5, HoldsOn DEF d
<1>7. e \in Seq(Nat) /\ Holds(e, x)
  BY <1>1, <1>6, HoldsOn DEF e
<1>8. f \in Seq(Nat) /\ Holds(f, x)
  BY <1>1, <1>7, HoldsOn DEF f
<1>9. g \in Seq(Nat) /\ Holds(g, x)
  BY <1>1, <1>8, HoldsOn DEF g
<1>10. PkgEntries = g
  BY DEF PkgEntries, a, b, c, d, e, f, g
<1>11. x \in ToSet(PkgEntries)
  BY <1>9, <1>10 DEF ToSet, Holds
<1>12. PICK k \in Nat : k = \h1000
  OBVIOUS
<1>13. k \in ToSet(PkgEntries)
  BY <1>11, <1>12 DEF x
<1>14. GetEntryNameByType(k) # NoName
  BY <1>13, EveryTypeNamed
<1> QED
  BY <1>12, <1>14 DEF ParamSfo

(***************************************************************************)
(* The calls.                                                               *)
(***************************************************************************)
\* The k-th row of the table.
RowAt(p, k) == EntryAt(p, p.tab + k - 1)

\* The rows that Extract has come past, in its loop and after it.
ExtractOn == op = "Extract" \/ (op = "idle" /\ last = [op |-> "Extract", end |-> "ok"])
Come == {k \in 1 .. pkg.n : op = "Extract" => k <= turn}

\* Where a call is: Extract goes back to the table after each entry, so that the
\* handle stands at the row of the turn.
Going ==
  /\ turn \in Nat /\ op \in {"idle", "Open", "Extract", "dead"}
  /\ pkg \in Packages \cup {NoPkg}
  /\ op # "idle" => pkg \in Packages
  /\ ExtractOn => pkg \in Packages /\ pkg.hdr = "ok"
  /\ op = "Extract" => pos = pkg.tab + turn

\* What a row of the package has left in the members and in its file.
SfoRight ==
  /\ (\A k \in Come : RowAt(pkg, k).id # \h1000) => sfo = <<>>
  /\ \A k \in Come : RowAt(pkg, k).id = \h1000 => sfo = RawOf(pkg, RowAt(pkg, k))
KeysRight ==
  /\ \A k \in Come : RowAt(pkg, k).id = EntryKeys => dk3 = Dk3From(RawOf(pkg, RowAt(pkg, k)))
  /\ \A j, k \in Come :
       j < k /\ RowAt(pkg, j).id = EntryKeys /\ RowAt(pkg, k).id = ImageKey
       => ekpfsKey = Ekpfs(RowAt(pkg, k), Dk3From(RawOf(pkg, RowAt(pkg, j))), RawOf(pkg, RowAt(pkg, k)))
FileRight(k) ==
  LET e == RowAt(pkg, k) IN
  PathOf(e.id) \notin spoilt =>
    /\ PathOf(e.id) \in DOMAIN out
    /\ e.id \notin NpEntries => out[PathOf(e.id)] = RawOf(pkg, e)
    /\ e.id \in NpEntries =>
         \A j \in Come : j < k /\ RowAt(pkg, j).id = EntryKeys =>
           out[PathOf(e.id)] = Decrypted(e, Dk3From(RawOf(pkg, RowAt(pkg, j))), RawOf(pkg, e))
ExtractRight ==
  ExtractOn /\ DistinctIds(pkg) =>
    SfoRight /\ KeysRight /\ \A k \in Come : FileRight(k)

\* Open keeps its place in the table up to param.sfo; what it takes for an entry
\* behind it is no other param.sfo.
SfoFound == \E k \in 1 .. pkg.n : RowAt(pkg, k).id = \h1000 /\ sfo = RawOf(pkg, RowAt(pkg, k))
OpenRight ==
  DistinctIds(pkg) /\ QuietOutside(pkg) /\ Lists(pkg, \h1000) =>
    /\ op = "Open" =>
         SfoFound \/ (pos = pkg.tab + turn
                      /\ \A k \in 1 .. pkg.n : k <= turn => RowAt(pkg, k).id # \h1000)
    /\ op = "idle" /\ last = [op |-> "Open", end |-> "ok"] => SfoFound

\* What was read directly is what the table of that package says.
GotRight ==
  \A p \in Packages : p.name = got.from /\ DistinctIds(p) =>
    /\ got.found <=> Lists(p, got.id)
    /\ \A k \in 1 .. p.n : RowAt(p, k).id = got.id => got.data = RawOf(p, RowAt(p, k))

\* The inductive invariant.  The properties speak of a call that has succeeded;
\* while it is under way they hold of the rows it has come past.
TableInv == Going /\ ExtractRight /\ OpenRight /\ GotRight

\* What a write leaves.
LEMMA WroteIs ==
  ASSUME NEW path, NEW content, Wrote(path, content)
  PROVE  /\ DOMAIN out' = DOMAIN out \cup {path}
         /\ out'[path] = content
         /\ \A q \in DOMAIN out : q # path => out'[q] = out[q]
BY DEF Wrote

\* What an entry's turn leaves: its file has its content, or is spoilt; the other
\* files stay.
LEMMA WritesIs ==
  ASSUME NEW path, NEW content, Writes(path, content)
  PROVE  /\ path \notin spoilt' => path \in DOMAIN out' /\ out'[path] = content
         /\ \A q : q # path => (q \in spoilt' <=> q \in spoilt)
         /\ \A q \in DOMAIN out : q # path => q \in DOMAIN out' /\ out'[q] = out[q]
<1>1. CASE Wrote(path, content) /\ spoilt' = spoilt \ {path}
  BY <1>1, WroteIs
<1>2. CASE Spoils(path) /\ (Wrote(path, CutOf(content)) \/ UNCHANGED out)
  <2>1. spoilt' = spoilt \cup {path}
    BY <1>2 DEF Spoils
  <2>2. CASE Wrote(path, CutOf(content))
    BY <2>1, <2>2, WroteIs
  <2> QED
    BY <1>2, <2>1, <2>2
<1> QED
  BY <1>1, <1>2 DEF Writes

LEMMA WritesTwiceIs ==
  ASSUME NEW path, NEW data, NEW content, WritesTwice(path, data, content)
  PROVE  /\ path \notin spoilt' => path \in DOMAIN out' /\ out'[path] = content
         /\ \A q : q # path => (q \in spoilt' <=> q \in spoilt)
         /\ \A q \in DOMAIN out : q # path => q \in DOMAIN out' /\ out'[q] = out[q]
<1>1. CASE Writes(path, content)
  BY <1>1, WritesIs
<1>2. ASSUME Spoils(path), NEW some, Wrote(path, some)
      PROVE  /\ path \in spoilt'
             /\ \A q : q # path => (q \in spoilt' <=> q \in spoilt)
             /\ \A q \in DOMAIN out : q # path => q \in DOMAIN out' /\ out'[q] = out[q]
  BY <1>2, WroteIs DEF Spoils
<1> QED
  BY <1>1, <1>2 DEF WritesTwice

\* A name is that of one type.
LEMMA NamesApart ==
  ASSUME NEW a, NEW b, PathOf(a) = PathOf(b)
  PROVE  a = b
BY DEF PathOf, GetEntryNameByType

\* The name that Open looks for is that of one type.
LEMMA SfoNameIs ==
  ASSUME NEW type
  PROVE  GetEntryNameByType(type) = ParamSfo <=> type = \h1000
BY ParamSfoNamed DEF ParamSfo, GetEntryNameByType

\* Of distinct types each has one row.
LEMMA RowIs ==
  ASSUME NEW p \in Packages, DistinctIds(p), NEW k \in 1 .. p.n, NEW id, RowAt(p, k).id = id
  PROVE  /\ RowsWith(p, id) = {k} /\ Min(RowsWith(p, id)) = k /\ RowOf(p, id) = RowAt(p, k)
         /\ Lists(p, id)
<1>1. p.n \in Nat /\ k \in Nat
  BY PackageAssumption
<1>2. k \in RowsWith(p, id)
  BY DEF RowsWith, RowAt
<1>3. IsFiniteSet(RowsWith(p, id))
  <2>1. IsFiniteSet(1 .. p.n)
    BY <1>1, FS_Interval
  <2> QED
    BY <2>1, FS_Subset DEF RowsWith
<1>4. Cardinality(RowsWith(p, id)) = 1
  BY DEF DistinctIds, RowAt
<1>5. RowsWith(p, id) = {k}
  <2>1. PICK x : RowsWith(p, id) = {x}
    BY <1>3, <1>4, FS_Singleton
  <2> QED
    BY <1>2, <2>1
<1>6. Min(RowsWith(p, id)) = k
  <2>1. Min({k}) = k
    BY <1>1 DEF Min
  <2> QED
    BY <1>5, <2>1
<1>7. RowOf(p, id) = RowAt(p, k)
  BY <1>6 DEF RowOf, Listed, RowAt
<1> QED
  BY <1>5, <1>6, <1>7 DEF Lists

\* No two rows have one type.
LEMMA OneRow ==
  ASSUME NEW p \in Packages, DistinctIds(p), NEW j \in 1 .. p.n, NEW k \in 1 .. p.n,
         RowAt(p, j).id = RowAt(p, k).id
  PROVE  j = k
BY RowIs

\* What it is to be listed.
LEMMA ListedHas ==
  ASSUME NEW p, NEW id
  PROVE  Lists(p, id) <=> \E k \in 1 .. p.n : RowAt(p, k).id = id
BY DEF Lists, RowsWith, RowAt

\* Nothing is claimed of a call that failed.
LEMMA FailedCall ==
  ASSUME TableInv, op' = "idle", NEW kind, NEW how \in {"failed", "thrown"},
         last' = [op |-> kind, end |-> how],
         turn' = 0, UNCHANGED got, pkg' \in Packages \cup {NoPkg}
  PROVE  TableInv'
<1>1. ~ExtractOn' /\ ~(last' = [op |-> "Open", end |-> "ok"])
  BY DEF ExtractOn
<1>2. Going'
  BY <1>1 DEF Going
<1>3. ExtractRight' /\ OpenRight'
  BY <1>1 DEF ExtractRight, OpenRight
<1>4. GotRight'
  BY DEF TableInv, GotRight
<1> QED
  BY <1>2, <1>3, <1>4 DEF TableInv

\* The steps, one by one.
LEMMA OpenCallStep ==
  ASSUME TableInv, NEW p \in Packages, OpenCall(p)
  PROVE  TableInv'
<1>1. op = "idle" /\ UNCHANGED got /\ pkg \in Packages \cup {NoPkg}
  BY DEF OpenCall, TableInv, Going
<1>2. CASE EndsAtOnce("Open", "failed") /\ pkg' \in {pkg, p}
  BY <1>1, <1>2, FailedCall DEF EndsAtOnce
<1>3. CASE pkg' = p /\ pos' = p.tab /\ op' = "Open" /\ turn' = 0
  <2>1. ~ExtractOn'
    BY <1>3 DEF ExtractOn
  <2>2. Going'
    BY <1>3, <2>1 DEF Going
  <2>3. p.tab \in Nat /\ \A k \in 1 .. p.n : ~(k <= 0)
    BY PackageAssumption
  <2>4. OpenRight'
    BY <1>3, <2>3 DEF OpenRight
  <2> QED
    BY <1>1, <2>1, <2>2, <2>4 DEF TableInv, ExtractRight, GotRight
<1> QED
  BY <1>1, <1>2, <1>3 DEF OpenCall

\* Behind param.sfo Open may read anything for an entry, but no other param.sfo.
LEMMA OpenEntryStep ==
  ASSUME TableInv, OpenEntry
  PROVE  TableInv'
<1> DEFINE e == EntryAt(pkg, pos)
<1>1. op = "Open" /\ turn < pkg.n /\ UNCHANGED <<pkg, got>>
  BY DEF OpenEntry
<1>2. pkg \in Packages /\ turn \in Nat /\ pkg.n \in Nat /\ pkg.tab \in Nat
  BY <1>1, PackageAssumption DEF TableInv, Going
<1>3. \/ /\ e.id = \h1000 /\ sfo' = RawOf(pkg, e) /\ turn' = turn + 1 /\ UNCHANGED <<op, last>>
      \/ Ends("failed")
      \/ e.id # \h1000 /\ pos' = pos + 1 /\ turn' = turn + 1 /\ UNCHANGED <<sfo, op, last>>
  BY SfoNameIs DEF OpenEntry, RawOf
<1> HIDE DEF e
<1>4. CASE Ends("failed")
  BY <1>1, <1>2, <1>4, FailedCall DEF Ends
<1>5. ASSUME turn' = turn + 1, UNCHANGED <<op, last>>,
             DistinctIds(pkg) /\ QuietOutside(pkg) /\ Lists(pkg, \h1000) =>
               SfoFound' \/ (pos' = pkg.tab + turn'
                             /\ \A k \in 1 .. pkg.n : k <= turn' => RowAt(pkg, k).id # \h1000)
      PROVE  TableInv'
  <2>1. Going' /\ ~ExtractOn'
    BY <1>1, <1>2, <1>5 DEF Going, ExtractOn
  <2>2. OpenRight'
    BY <1>1, <1>5 DEF OpenRight
  <2> QED
    BY <1>1, <2>1, <2>2 DEF TableInv, ExtractRight, GotRight
<1>6. CASE e.id = \h1000 /\ sfo' = RawOf(pkg, e) /\ turn' = turn + 1 /\ UNCHANGED <<op, last>>
  <2>1. ASSUME QuietOutside(pkg)
        PROVE  SfoFound'
    <3>1. pos \in DOMAIN pkg.cells /\ e = pkg.cells[pos]
      BY <1>6 DEF e, EntryAt, Zero
    <3>2. pos \in pkg.tab .. (pkg.tab + pkg.n - 1)
      BY <1>6, <2>1, <3>1 DEF QuietOutside
    <3> DEFINE q == (pos - pkg.tab) + 1
    <3>3. q \in 1 .. pkg.n /\ pkg.tab + q - 1 = pos
      BY <1>2, <3>2
    <3> HIDE DEF q
    <3>4. e = RowAt(pkg, q)
      BY <3>3 DEF RowAt, e
    <3> QED
      BY <1>1, <1>6, <3>3, <3>4 DEF SfoFound
  <2> QED
    BY <1>5, <1>6, <2>1
<1>7. CASE e.id # \h1000 /\ pos' = pos + 1 /\ turn' = turn + 1 /\ UNCHANGED <<sfo, op, last>>
  <2>1. ASSUME DistinctIds(pkg), QuietOutside(pkg), Lists(pkg, \h1000)
        PROVE  SfoFound' \/ (pos' = pkg.tab + turn'
                             /\ \A k \in 1 .. pkg.n : k <= turn' => RowAt(pkg, k).id # \h1000)
    <3>1. CASE SfoFound
      BY <1>1, <1>7, <3>1 DEF SfoFound
    <3>2. CASE pos = pkg.tab + turn /\ \A k \in 1 .. pkg.n : k <= turn => RowAt(pkg, k).id # \h1000
      <4>1. e = RowAt(pkg, turn + 1)
        <5>1. pkg.tab + (turn + 1) - 1 = pos
          BY <1>2, <3>2
        <5> QED
          BY <5>1 DEF RowAt, e
      <4>2. ASSUME NEW k \in 1 .. pkg.n, k <= turn + 1
            PROVE  RowAt(pkg, k).id # \h1000
        <5>1. k <= turn \/ k = turn + 1
          BY <1>2, <4>2
        <5> QED
          BY <1>7, <3>2, <4>1, <5>1
      <4>3. pos' = pkg.tab + turn'
        BY <1>2, <1>7, <3>2
      <4> QED
        BY <1>7, <4>2, <4>3
    <3> QED
      BY <1>1, <2>1, <3>1, <3>2 DEF TableInv, OpenRight
  <2> QED
    BY <1>5, <1>7, <2>1
<1> QED
  BY <1>3, <1>4, <1>6, <1>7

LEMMA LoopEndsStep ==
  ASSUME TableInv, LoopEnds
  PROVE  TableInv'
<1>1. /\ op \in {"Open", "Extract"} /\ turn >= pkg.n /\ op' = "idle" /\ turn' = 0
      /\ last' = [op |-> op, end |-> "ok"] /\ UNCHANGED <<pkg, pos, members, out, spoilt, got>>
  BY DEF LoopEnds, Ends
<1>2. pkg \in Packages /\ turn \in Nat /\ pkg.n \in Nat
  BY <1>1, PackageAssumption DEF TableInv, Going
<1>3. ExtractOn' <=> op = "Extract"
  BY <1>1 DEF ExtractOn
<1>4. Going'
  BY <1>1, <1>2, <1>3 DEF TableInv, Going, ExtractOn
<1>5. ExtractRight'
  <2>1. CASE op = "Extract"
    <3>1. Come' = Come
      BY <1>1, <1>2, <2>1 DEF Come
    <3>2. ExtractOn
      BY <2>1 DEF ExtractOn
    <3>3. ASSUME DistinctIds(pkg)
          PROVE  SfoRight' /\ KeysRight' /\ \A k \in Come' : FileRight(k)'
      <4>1. SfoRight /\ KeysRight /\ \A k \in Come : FileRight(k)
        BY <3>2, <3>3 DEF TableInv, ExtractRight
      <4> QED
        BY <1>1, <3>1, <4>1 DEF SfoRight, KeysRight, FileRight, members
    <3> QED
      BY <1>1, <3>3 DEF ExtractRight
  <2>2. CASE op # "Extract"
    BY <1>3, <2>2 DEF ExtractRight
  <2> QED
    BY <2>1, <2>2
<1>6. OpenRight'
  <2> SUFFICES ASSUME op = "Open", DistinctIds(pkg), QuietOutside(pkg), Lists(pkg, \h1000)
               PROVE  SfoFound'
    BY <1>1 DEF OpenRight
  <2>1. PICK k \in 1 .. pkg.n : RowAt(pkg, k).id = \h1000
    BY ListedHas
  <2>2. k <= turn
    BY <1>1, <1>2
  <2>3. SfoFound
    BY <2>1, <2>2 DEF TableInv, OpenRight
  <2> QED
    BY <1>1, <2>3 DEF SfoFound, members
<1> QED
  BY <1>1, <1>4, <1>5, <1>6 DEF TableInv, GotRight

LEMMA ExtractCallStep ==
  ASSUME TableInv, NEW p \in Packages, ExtractCall(p)
  PROVE  TableInv'
<1>1. pkg' = p /\ sfo' = <<>> /\ UNCHANGED got
  BY DEF ExtractCall, ExtractHead
<1>2. CASE EndsAtOnce("Extract", "failed")
  BY <1>1, <1>2, FailedCall DEF EndsAtOnce
<1>3. CASE p.hdr = "ok" /\ pos' = p.tab /\ op' = "Extract" /\ turn' = 0
  <2>1. Come' = {}
    <3>1. p.n \in Nat /\ \A k \in 1 .. p.n : ~(k <= 0)
      BY PackageAssumption
    <3> QED
      BY <1>1, <1>3, <3>1 DEF Come
  <2>2. Going'
    <3>1. p.tab \in Nat
      BY PackageAssumption
    <3> QED
      BY <1>1, <1>3, <3>1 DEF Going
  <2>3. ExtractRight'
    BY <1>1, <2>1 DEF ExtractRight, SfoRight, KeysRight
  <2> QED
    BY <1>1, <1>3, <2>2, <2>3 DEF TableInv, OpenRight, GotRight
<1> QED
  BY <1>2, <1>3 DEF ExtractCall

\* One more row is come past, behind all the others.
LEMMA RowAfterRow ==
  ASSUME TableInv, op = "Extract", turn < pkg.n
  PROVE  /\ pkg \in Packages /\ turn + 1 \in 1 .. pkg.n /\ turn + 1 \notin Come
         /\ Come \subseteq 1 .. pkg.n /\ \A k \in Come : k < turn + 1 /\ ~(turn + 1 < k)
         /\ EntryAt(pkg, pos) = RowAt(pkg, turn + 1)
         /\ \A k : k \in Come \/ k = turn + 1
              <=> k \in {c \in 1 .. pkg.n : c <= turn + 1}
<1>1. pkg \in Packages /\ turn \in Nat /\ pkg.n \in Nat /\ pkg.tab \in Nat /\ pos = pkg.tab + turn
  BY PackageAssumption DEF TableInv, Going
<1>2. pkg.tab + (turn + 1) - 1 = pos
  BY <1>1
<1>3. EntryAt(pkg, pos) = RowAt(pkg, turn + 1)
  BY <1>2 DEF RowAt
<1>4. turn + 1 \in 1 .. pkg.n /\ turn + 1 \in Nat
  BY <1>1
<1>5. \A k \in Come : k \in 1 .. pkg.n /\ k <= turn
  BY DEF Come
<1>6. \A k \in Come : k < turn + 1 /\ ~(turn + 1 < k)
  BY <1>1, <1>5
<1>7. turn + 1 \notin Come
  BY <1>4, <1>6
<1>8. \A k : k \in Come \/ k = turn + 1 <=> k \in {c \in 1 .. pkg.n : c <= turn + 1}
  <2>1. \A k \in 1 .. pkg.n : k <= turn + 1 <=> k <= turn \/ k = turn + 1
    BY <1>1
  <2>2. \A k : k \in Come <=> k \in 1 .. pkg.n /\ k <= turn
    BY DEF Come
  <2> QED
    BY <1>4, <2>1, <2>2
<1> QED
  BY <1>1, <1>3, <1>4, <1>5, <1>6, <1>7, <1>8

LEMMA ExtractEntryStep ==
  ASSUME TableInv, ExtractEntry
  PROVE  TableInv'
<1> DEFINE e == EntryAt(pkg, pos)
           n == turn + 1
           data == RawOf(pkg, e)
           path == PathOf(e.id)
<1>1. op = "Extract" /\ turn < pkg.n /\ pos' = pos + 1 /\ UNCHANGED <<pkg, pkgFlags, got>>
  BY DEF ExtractEntry
<1>2. ASSUME NEW how \in {"failed", "thrown"}, Ends(how)
      PROVE  TableInv'
  BY <1>1, <1>2, FailedCall DEF Ends, TableInv, Going
<1>4. CASE op' = "dead" /\ UNCHANGED <<turn, last>>
  <2>1. pkg \in Packages /\ ~ExtractOn'
    BY <1>1, <1>4 DEF TableInv, Going, ExtractOn
  <2> QED
    BY <1>1, <1>4, <2>1 DEF TableInv, Going, ExtractRight, OpenRight, GotRight
<1>3. CASE /\ SfoFrom(e, data) /\ KeysFrom(e, data)
           /\ IF e.id \in NpEntries
              THEN decNp' = Decrypted(e, dk3, data) /\ WritesTwice(path, data, decNp')
              ELSE Writes(path, data) /\ UNCHANGED decNp
           /\ turn' = turn + 1 /\ UNCHANGED <<op, last>>
  <2>1. /\ pkg \in Packages /\ n \in 1 .. pkg.n /\ n \notin Come /\ Come \subseteq 1 .. pkg.n
        /\ \A k \in Come : k < n /\ ~(n < k)
        /\ e = RowAt(pkg, n)
        /\ \A k : k \in Come \/ k = n <=> k \in {c \in 1 .. pkg.n : c <= turn + 1}
    BY <1>1, RowAfterRow
  <2>2. Come' = Come \cup {n}
    <3>1. Come' = {c \in 1 .. pkg.n : c <= turn + 1}
      BY <1>1, <1>3 DEF Come
    <3> QED
      BY <2>1, <3>1
  <2>3. turn \in Nat /\ pos = pkg.tab + turn /\ pkg.tab \in Nat
    BY <1>1, <2>1, PackageAssumption DEF TableInv, Going
  <2>4. Going'
    <3>1. pos' = pkg'.tab + turn'
      BY <1>1, <1>3, <2>3
    <3> QED
      BY <1>1, <1>3, <2>3, <3>1 DEF TableInv, Going, ExtractOn
  <2> HIDE DEF e, n, data, path
  <2>5. ASSUME DistinctIds(pkg)
        PROVE  SfoRight' /\ KeysRight' /\ \A k \in Come' : FileRight(k)'
    <3>1. SfoRight /\ KeysRight /\ \A k \in Come : FileRight(k)
      BY <1>1, <2>5 DEF TableInv, ExtractRight, ExtractOn
    <3>2. \A k \in Come : RowAt(pkg, k).id # e.id
      BY <2>1, <2>5, OneRow
    <3>3. RowAt(pkg, n) = e /\ RawOf(pkg, e) = data /\ pkg' = pkg
      BY <1>1, <2>1 DEF data
    <3>4. SfoRight'
      BY <1>3, <2>2, <3>1, <3>2, <3>3 DEF SfoRight, SfoFrom
    <3>5. KeysRight'
      <4>1. ASSUME NEW k \in Come', RowAt(pkg, k).id = EntryKeys
            PROVE  dk3' = Dk3From(RawOf(pkg, RowAt(pkg, k)))
        BY <1>3, <2>2, <3>1, <3>2, <3>3, <4>1 DEF KeysRight, KeysFrom
      <4>2. ASSUME NEW j \in Come', NEW k \in Come', j < k,
                   RowAt(pkg, j).id = EntryKeys, RowAt(pkg, k).id = ImageKey
            PROVE  ekpfsKey' = Ekpfs(RowAt(pkg, k), Dk3From(RawOf(pkg, RowAt(pkg, j))),
                                     RawOf(pkg, RowAt(pkg, k)))
        <5>1. j \in Come
          BY <2>1, <2>2, <4>2, <2>3 DEF n
        <5>2. CASE k = n
          <6>1. dk3 = Dk3From(RawOf(pkg, RowAt(pkg, j)))
            BY <3>1, <4>2, <5>1 DEF KeysRight
          <6> QED
            BY <1>3, <3>3, <4>2, <5>2, <6>1 DEF KeysFrom
        <5>3. CASE k \in Come
          <6>1. e.id # ImageKey
            BY <3>2, <4>2, <5>3
          <6> QED
            BY <1>3, <3>1, <4>2, <5>1, <5>3, <6>1 DEF KeysRight, KeysFrom
        <5> QED
          BY <2>2, <5>2, <5>3
      <4> QED
        BY <3>3, <4>1, <4>2 DEF KeysRight
    <3>6. ASSUME NEW k \in Come'
          PROVE  FileRight(k)'
      <4>1. CASE k = n
        <5>1. /\ path = PathOf(RowAt(pkg, k).id)
              /\ path \notin spoilt' => path \in DOMAIN out'
          <6>1. path = PathOf(RowAt(pkg, k).id)
            BY <3>3, <4>1 DEF path
          <6> QED
            BY <1>3, <6>1, WritesIs, WritesTwiceIs
        <5>2. e.id \notin NpEntries /\ path \notin spoilt' => out'[path] = data
          BY <1>3, WritesIs
        <5>3. ASSUME e.id \in NpEntries, path \notin spoilt', NEW j \in Come', j < k, RowAt(pkg, j).id = EntryKeys
              PROVE  out'[path] = Decrypted(e, Dk3From(RawOf(pkg, RowAt(pkg, j))), data)
          <6>1. j \in Come
            BY <2>1, <2>2, <2>3, <4>1, <5>3 DEF n
          <6>2. dk3 = Dk3From(RawOf(pkg, RowAt(pkg, j)))
            BY <3>1, <5>3, <6>1 DEF KeysRight
          <6> QED
            BY <1>3, <5>3, <6>2, WritesTwiceIs
        <5> QED
          BY <3>3, <4>1, <5>1, <5>2, <5>3 DEF FileRight
      <4>2. CASE k \in Come
        <5> DEFINE q == PathOf(RowAt(pkg, k).id)
        <5>1. q # path
          BY <3>2, <4>2, NamesApart DEF path
        <5>2. /\ q \in spoilt' <=> q \in spoilt
              /\ q \in DOMAIN out => q \in DOMAIN out' /\ out'[q] = out[q]
          BY <1>3, <5>1, WritesIs, WritesTwiceIs
        <5>3. \A j \in Come' : j < k => j \in Come
          BY <2>1, <2>2, <4>2
        <5>4. FileRight(k)
          BY <3>1, <4>2
        <5> QED
          BY <3>3, <5>2, <5>3, <5>4 DEF FileRight
      <4> QED
        BY <2>2, <4>1, <4>2
    <3> QED
      BY <3>4, <3>5, <3>6
  <2>6. ExtractRight'
    BY <1>1, <2>5 DEF ExtractRight
  <2> QED
    BY <1>1, <1>3, <2>4, <2>6 DEF TableInv, OpenRight, GotRight
<1> QED
  BY <1>2, <1>3, <1>4 DEF ExtractEntry, RawOf

LEMMA DataByIdStep ==
  ASSUME TableInv, NEW id, DataById(id)
  PROVE  TableInv'
<1>1. UNCHANGED <<op, pkg, pos, turn, sfo, dk3, ekpfsKey, decNp, pkgFlags, out, spoilt, last>>
      /\ pkg # NoPkg
  BY DEF DataById, members
<1>2. Going' /\ ExtractRight' /\ OpenRight'
  BY <1>1 DEF TableInv, Going, ExtractRight, OpenRight, ExtractOn, Come, SfoRight, KeysRight,
              FileRight, SfoFound
<1>3. pkg \in Packages
  BY <1>1 DEF TableInv, Going
<1>4. CASE UNCHANGED got
  BY <1>2, <1>4 DEF TableInv, GotRight
<1>5. CASE LET rows == Matches(pkg, id) IN
           got' = [from |-> pkg.name, id |-> id, found |-> rows # {},
                   data |-> IF rows = {} THEN <<>>
                            ELSE LET e == Listed(pkg)[Min(rows)]
                                 IN DataAt(pkg, e.off, e.size)]
  <2>1. Matches(pkg, id) = RowsWith(pkg, id)
    BY DEF Matches, RowsWith, Listed
  <2>2. /\ got'.from = pkg.name /\ got'.id = id /\ (got'.found <=> RowsWith(pkg, id) # {})
        /\ RowsWith(pkg, id) # {} => got'.data = RawOf(pkg, RowOf(pkg, id))
    BY <1>5, <2>1 DEF RawOf, RowOf
  <2>3. ASSUME NEW p \in Packages, p.name = got'.from, DistinctIds(p)
        PROVE  /\ got'.found <=> Lists(p, got'.id)
               /\ \A k \in 1 .. p.n : RowAt(p, k).id = got'.id => got'.data = RawOf(p, RowAt(p, k))
    <3>1. p = pkg
      BY <1>3, <2>2, <2>3, PackageAssumption
    <3>2. ASSUME NEW k \in 1 .. p.n, RowAt(p, k).id = id
          PROVE  got'.data = RawOf(p, RowAt(p, k))
      <4>1. RowsWith(p, id) # {} /\ RowOf(p, id) = RowAt(p, k)
        BY <2>3, <3>2, RowIs
      <4> QED
        BY <2>2, <3>1, <4>1
    <3> QED
      BY <2>2, <3>1, <3>2 DEF Lists
  <2>4. GotRight'
    BY <2>3 DEF GotRight
  <2> QED
    BY <1>2, <2>4 DEF TableInv
<1> QED
  BY <1>4, <1>5 DEF DataById

\* Any sequence of calls on one object; and the program, which makes one.
TableSpec == TableInit /\ [][TableNext]_tableVars
CliSpec == TableInit /\ CliInit /\ [][CliNext]_cliAll

LEMMA TableInvInit == TableInit => TableInv
<1> SUFFICES ASSUME TableInit PROVE TableInv
  OBVIOUS
<1>1. op = "idle" /\ pkg = NoPkg /\ turn = 0 /\ last = [op |-> "none", end |-> "none"]
      /\ got.from = "none"
  BY DEF TableInit
<1>2. ~ExtractOn /\ last # [op |-> "Open", end |-> "ok"]
  BY <1>1 DEF ExtractOn
<1> QED
  BY <1>1, <1>2, PackageAssumption DEF TableInv, Going, ExtractRight, OpenRight, GotRight

LEMMA TableInvStep == TableInv /\ [TableNext]_tableVars => TableInv'
<1> SUFFICES ASSUME TableInv, [TableNext]_tableVars PROVE TableInv'
  OBVIOUS
<1>1. CASE UNCHANGED tableVars
  BY <1>1 DEF tableVars, members, TableInv, Going, ExtractRight, OpenRight, GotRight, ExtractOn,
     Come, SfoRight, KeysRight, FileRight, SfoFound
<1>2. CASE CallEntry
  BY <1>2, OpenEntryStep, ExtractEntryStep, LoopEndsStep DEF CallEntry
<1>3. CASE \E p \in Packages : OpenCall(p) \/ ExtractCall(p)
  BY <1>3, OpenCallStep, ExtractCallStep
<1>4. CASE \E id \in {\h10, \h1000, \h1200, \h402, 3} : DataById(id)
  BY <1>4, DataByIdStep
<1> QED
  BY <1>1, <1>2, <1>3, <1>4 DEF TableNext

LEMMA TableInvHolds == TableSpec => []TableInv
BY TableInvInit, TableInvStep, PTL DEF TableSpec

\* When Extract is through every row is come past.
LEMMA AllCome ==
  ASSUME TableInv, Extracted
  PROVE  /\ pkg \in Packages /\ DistinctIds(pkg) /\ Come = 1 .. pkg.n
         /\ SfoRight /\ KeysRight /\ \A k \in 1 .. pkg.n : FileRight(k)
<1>1. ExtractOn /\ DistinctIds(pkg) /\ op = "idle"
  BY DEF Extracted, ExtractOn
<1>2. Come = 1 .. pkg.n
  BY <1>1 DEF Come
<1> QED
  BY <1>1, <1>2 DEF TableInv, Going, ExtractRight

\* The entry keys of a table that lists them first, and the key they give.
LEMMA KeyedIs ==
  ASSUME NEW p \in Packages, DistinctIds(p), NEW id, KeyedBefore(p, id)
  PROVE  \E j, k \in 1 .. p.n :
           /\ j < k /\ RowAt(p, j).id = EntryKeys /\ RowAt(p, k).id = id
           /\ RowOf(p, id) = RowAt(p, k) /\ Dk3Of(p) = Dk3From(RawOf(p, RowAt(p, j)))
<1>1. PICK j \in 1 .. p.n : RowAt(p, j).id = EntryKeys
  BY ListedHas DEF KeyedBefore
<1>2. PICK k \in 1 .. p.n : RowAt(p, k).id = id
  BY ListedHas DEF KeyedBefore
<1>3. Min(RowsWith(p, EntryKeys)) = j /\ RowOf(p, EntryKeys) = RowAt(p, j)
  BY <1>1, RowIs
<1>4. Min(RowsWith(p, id)) = k /\ RowOf(p, id) = RowAt(p, k)
  BY <1>2, RowIs
<1> QED
  BY <1>1, <1>2, <1>3, <1>4 DEF KeyedBefore, Dk3Of

\* After a call that succeeded sfo is the param.sfo of the package it was made
\* for, whatever packages the same object read or failed to read before.
THEOREM SfoTheorem == TableSpec => []SfoIsThePackages
<1>1. TableInv => SfoIsThePackages
  <2> SUFFICES ASSUME TableInv PROVE SfoIsThePackages
    OBVIOUS
  <2>1. ASSUME Extracted
        PROVE  sfo = IF Lists(pkg, \h1000) THEN RawOf(pkg, RowOf(pkg, \h1000)) ELSE <<>>
    <3>1. pkg \in Packages /\ DistinctIds(pkg) /\ Come = 1 .. pkg.n /\ SfoRight
      BY <2>1, AllCome
    <3>2. CASE Lists(pkg, \h1000)
      <4>1. PICK k \in 1 .. pkg.n : RowAt(pkg, k).id = \h1000
        BY <3>2, ListedHas
      <4>2. RowOf(pkg, \h1000) = RowAt(pkg, k)
        BY <3>1, <4>1, RowIs
      <4> QED
        BY <3>1, <3>2, <4>1, <4>2 DEF SfoRight
    <3>3. CASE ~Lists(pkg, \h1000)
      BY <3>1, <3>3, ListedHas DEF SfoRight
    <3> QED
      BY <3>2, <3>3
  <2>2. ASSUME Opened, Lists(pkg, \h1000), QuietOutside(pkg)
        PROVE  sfo = RawOf(pkg, RowOf(pkg, \h1000))
    <3>1. SfoFound /\ DistinctIds(pkg)
      BY <2>2 DEF Opened, TableInv, OpenRight
    <3>2. PICK k \in 1 .. pkg.n : RowAt(pkg, k).id = \h1000 /\ sfo = RawOf(pkg, RowAt(pkg, k))
      BY <3>1 DEF SfoFound
    <3>3. pkg \in Packages
      <4>1. NoPkg.n = 0 /\ 1 .. 0 = {}
        BY DEF NoPkg
      <4> QED
        BY <3>2, <4>1 DEF TableInv, Going
    <3> QED
      BY <3>1, <3>2, <3>3, RowIs
  <2> QED
    BY <2>1, <2>2 DEF SfoIsThePackages
<1> QED
  BY <1>1, TableInvHolds, PTL

\* The key that opens the package's file system is made of this package's
\* entry keys and image key alone, never of a dk3 that an earlier call left.
THEOREM KeysTheorem == TableSpec => []KeysAreThePackages
<1>1. TableInv => KeysAreThePackages
  <2> SUFFICES ASSUME TableInv, Extracted, KeyedBefore(pkg, ImageKey)
               PROVE  ekpfsKey = Ekpfs(RowOf(pkg, ImageKey), Dk3Of(pkg), RawOf(pkg, RowOf(pkg, ImageKey)))
    BY DEF KeysAreThePackages
  <2>1. pkg \in Packages /\ DistinctIds(pkg) /\ Come = 1 .. pkg.n /\ KeysRight
    BY AllCome
  <2>2. PICK j, k \in 1 .. pkg.n :
          /\ j < k /\ RowAt(pkg, j).id = EntryKeys /\ RowAt(pkg, k).id = ImageKey
          /\ RowOf(pkg, ImageKey) = RowAt(pkg, k)
          /\ Dk3Of(pkg) = Dk3From(RawOf(pkg, RowAt(pkg, j)))
    BY <2>1, KeyedIs
  <2> QED
    BY <2>1, <2>2 DEF KeysRight
<1> QED
  BY <1>1, TableInvHolds, PTL

\* Every entry of the table is in a file of its own below sce_sys with its own
\* data, in clear when it is an NP entry that follows the entry keys, unless the
\* file could not be opened or written whole; and the direct read of an entry
\* finds what is in that file.
THEOREM EntriesTheorem == TableSpec => []EntriesOnDisk
<1>1. TableInv => EntriesOnDisk
  <2> SUFFICES ASSUME TableInv, Extracted PROVE EntriesOnDisk
    BY DEF EntriesOnDisk
  <2>1. /\ pkg \in Packages /\ DistinctIds(pkg) /\ Come = 1 .. pkg.n
        /\ \A k \in 1 .. pkg.n : FileRight(k)
    BY AllCome
  <2>2. ASSUME NEW k \in 1 .. pkg.n
        PROVE  LET e == Listed(pkg)[k] IN
               PathOf(e.id) \notin spoilt =>
                 /\ PathOf(e.id) \in DOMAIN out
                 /\ e.id \notin NpEntries => out[PathOf(e.id)] = RawOf(pkg, e)
                 /\ e.id \in NpEntries /\ KeyedBefore(pkg, e.id)
                    => out[PathOf(e.id)] = Decrypted(e, Dk3Of(pkg), RawOf(pkg, e))
    <3> DEFINE e == RowAt(pkg, k)
    <3>1. Listed(pkg)[k] = e
      BY DEF Listed, RowAt
    <3>2. FileRight(k)
      BY <2>1
    <3>3. ASSUME PathOf(e.id) \notin spoilt, e.id \in NpEntries, KeyedBefore(pkg, e.id)
          PROVE  out[PathOf(e.id)] = Decrypted(e, Dk3Of(pkg), RawOf(pkg, e))
      <4>1. PICK j, m \in 1 .. pkg.n :
              /\ j < m /\ RowAt(pkg, j).id = EntryKeys /\ RowAt(pkg, m).id = e.id
              /\ Dk3Of(pkg) = Dk3From(RawOf(pkg, RowAt(pkg, j)))
        BY <2>1, <3>3, KeyedIs
      <4>2. m = k
        BY <2>1, <4>1, OneRow
      <4> QED
        BY <2>1, <3>2, <3>3, <4>1, <4>2 DEF FileRight
    <3> QED
      BY <3>1, <3>2, <3>3 DEF FileRight
  <2>3. ASSUME got.from = pkg.name, got.id \notin NpEntries
        PROVE  /\ got.found <=> Lists(pkg, got.id)
               /\ got.found /\ PathOf(got.id) \notin spoilt => out[PathOf(got.id)] = got.data
    <3>1. /\ got.found <=> Lists(pkg, got.id)
          /\ \A k \in 1 .. pkg.n : RowAt(pkg, k).id = got.id => got.data = RawOf(pkg, RowAt(pkg, k))
      BY <2>1, <2>3 DEF TableInv, GotRight
    <3>2. ASSUME got.found, PathOf(got.id) \notin spoilt
          PROVE  out[PathOf(got.id)] = got.data
      <4>1. PICK k \in 1 .. pkg.n : RowAt(pkg, k).id = got.id
        BY <3>1, <3>2, ListedHas
      <4>2. FileRight(k)
        BY <2>1
      <4>3. out[PathOf(got.id)] = RawOf(pkg, RowAt(pkg, k))
        BY <2>3, <3>2, <4>1, <4>2 DEF FileRight
      <4>4. got.data = RawOf(pkg, RowAt(pkg, k))
        BY <3>1, <4>1
      <4> QED
        BY <4>3, <4>4
    <3> QED
      BY <3>1, <3>2
  <2> QED
    BY <2>2, <2>3 DEF EntriesOnDisk
<1> QED
  BY <1>1, TableInvHolds, PTL

-----------------------------------------------------------------------------
\* The program's steps are steps of its object, or none of it.
LEMMA CliIsTable == CliNext => [TableNext]_tableVars
BY DEF CliNext, CliArguments, CliDetect, CliExtract, CliSfo, CliFiles, TableNext

\* The program makes one call, Extract, goes on only when it went well, and names
\* the folder by the sfo that this call left.
CliInv ==
  /\ cli \in {"arguments", "detect"} => op = "idle" /\ last.op = "none"
  /\ op # "idle" => op \in {"Extract", "dead"}
  /\ cli = "extract" /\ op = "idle" => \E how \in {"ok", "failed", "thrown"} : last = [op |-> "Extract", end |-> how]
  /\ cli \in {"sfo", "files"} => op = "idle" /\ last = [op |-> "Extract", end |-> "ok"]
  /\ cli = "files" => sfo # <<>> /\ folder[2] = sfo

LEMMA CliInvStep ==
  ASSUME CliInv, [CliNext]_cliAll
  PROVE  CliInv'
<1>1. CASE UNCHANGED cliAll
  BY <1>1 DEF CliInv, cliAll, cliVars, tableVars, members
<1>2. CASE CliArguments
  BY <1>2 DEF CliArguments, CliInv, tableVars, members
<1>3. CASE CliDetect
  <2>1. CASE cli' = "done" /\ UNCHANGED tableVars
    BY <1>3, <2>1 DEF CliDetect, CliInv, tableVars, members
  <2>2. ASSUME NEW p \in Packages, ExtractCall(p), cli' = "extract"
        PROVE  CliInv'
    <3>1. \/ op' = "idle" /\ last' = [op |-> "Extract", end |-> "failed"]
          \/ op' = "Extract"
      BY <2>2 DEF ExtractCall, EndsAtOnce
    <3> QED
      BY <2>2, <3>1 DEF CliInv
  <2> QED
    BY <1>3, <2>1, <2>2 DEF CliDetect
<1>4. CASE CliExtract
  <2>1. CASE CallEntry /\ UNCHANGED cli
    <3>1. op = "Extract" /\ cli = "extract"
      BY <1>4, <2>1 DEF CliExtract, CallEntry, OpenEntry, ExtractEntry, LoopEnds, CliInv
    <3>2. \/ UNCHANGED <<op, last>>
          \/ op' = "dead"
          \/ op' = "idle" /\ \E how \in {"ok", "failed", "thrown"} : last' = [op |-> "Extract", end |-> how]
      BY <2>1, <3>1 DEF CallEntry, OpenEntry, ExtractEntry, LoopEnds, Ends
    <3> QED
      BY <2>1, <3>1, <3>2 DEF CliInv
  <2>2. CASE op = "dead" /\ cli' = "terminated" /\ UNCHANGED tableVars
    BY <1>4, <2>2 DEF CliExtract, CliInv, tableVars, members
  <2>3. CASE /\ op = "idle" /\ UNCHANGED tableVars
             /\ cli' = CASE last.end = "ok" -> "sfo" [] last.end = "thrown" -> "terminated"
                          [] OTHER -> "done"
    BY <1>4, <2>3 DEF CliExtract, CliInv, tableVars, members
  <2> QED
    BY <1>4, <2>1, <2>2, <2>3 DEF CliExtract
<1>5. CASE CliSfo
  BY <1>5 DEF CliSfo, CliInv, tableVars, members
<1>6. CASE CliFiles
  BY <1>6 DEF CliFiles, CliInv, tableVars, members
<1> QED
  BY <1>1, <1>2, <1>3, <1>4, <1>5, <1>6 DEF CliNext

\* A run of the program is one of its PKG object, as far as that is concerned.
THEOREM CliIsTableTheorem == CliSpec => TableSpec
<1>1. [CliNext]_cliAll => [TableNext]_tableVars
  BY CliIsTable DEF cliAll
<1> QED
  BY <1>1, PTL DEF CliSpec, TableSpec

\* The program announces a folder and goes on to the files only for a package
\* whose header is sound, and names it by that package's own param.sfo.
THEOREM CliTheorem == CliSpec => []CliOnlyPackages
<1>1. TableInit /\ CliInit => CliInv
  BY DEF TableInit, CliInit, CliInv
<1>2. CliInv /\ [CliNext]_cliAll => CliInv'
  BY CliInvStep
<1>3. CliInv /\ TableInv /\ SfoIsThePackages => CliOnlyPackages
  <2> SUFFICES ASSUME CliInv, TableInv, SfoIsThePackages, cli = "files"
               PROVE  /\ pkg.hdr = "ok"
                      /\ DistinctIds(pkg) => folder[2] = RawOf(pkg, RowOf(pkg, \h1000))
    BY DEF CliOnlyPackages
  <2>1. /\ op = "idle" /\ last = [op |-> "Extract", end |-> "ok"]
        /\ sfo # <<>> /\ folder[2] = sfo
    BY DEF CliInv
  <2>2. pkg.hdr = "ok"
    BY <2>1 DEF TableInv, Going, ExtractOn
  <2>3. DistinctIds(pkg) => folder[2] = RawOf(pkg, RowOf(pkg, \h1000))
    BY <2>1 DEF SfoIsThePackages, Extracted
  <2> QED
    BY <2>2, <2>3
<1> QED
  BY <1>1, <1>2, <1>3, CliIsTableTheorem, TableInvHolds, SfoTheorem, PTL DEF CliSpec

\* Every type that has a row of the array gets the name of that row and no other
\* type gets a name (pkg_type.cpp:16-640).
THEOREM NamesTheorem == TableSpec => []NamesFound
<1>1. ASSUME NEW type \in TypesAsked
      PROVE  IF GetEntryNameByType(type) = NoName THEN type \notin ToSet(PkgEntries)
             ELSE PkgEntries[GetEntryNameByType(type)] = type
  <2>1. type \in Nat
    BY DEF TypesAsked
  <2> QED
    BY <2>1, EveryTypeNamed
<1>2. NamesFound
  BY <1>1 DEF NamesFound
<1>3. NamesFound'
  BY <1>1 DEF NamesFound
<1> QED
  BY <1>2, <1>3, PTL
=============================================================================
