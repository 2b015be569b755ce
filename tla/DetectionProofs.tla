--------------------------- MODULE DetectionProofs ---------------------------
(***************************************************************************)
(* Proofs about RangeDetection and the detector in it, for every size of   *)
(* the spectrum, of the list and of a scan, every threshold and every      *)
(* spectrum.  The invariant follows the peak list through the loops that   *)
(* rewrite it in place (IInv), and the sums of both passes through frames  *)
(* and scans (SumInv).  A sum over a set is a fold, about which nothing is *)
(* known by induction over its terms; a law of sums is proved by taking a  *)
(* smallest set that would break it.                                       *)
(***************************************************************************)
EXTENDS RangeDetection, FiniteSetTheorems, SequenceTheorems, WellFoundedInduction,
        NaturalsInduction, TLAPS

(***************************************************************************)
(* The inductive invariant                                                 *)
(***************************************************************************)
\* A peak that PeaksReal allows.
Real(p) ==
  \/ p.bin = NoBin
  \/ p.bin \in Found /\ p.mag = cleaned[p.bin]
  \/ Found = {} /\ p.bin \in Searched /\ p.mag = cleaned[p.bin]
  \/ Found = {} /\ p.mag = 0

\* No two peaks share a bin but those merged away.
NoDoubles(list) ==
  \A n, m \in DOMAIN list : n # m /\ list[n].bin = list[m].bin => list[n].bin = NoBin

Listed(b) == \E n \in DOMAIN peaks : peaks[n].bin = b

\* The bins tested so far that crossed.
FoundBelow(b) == {c \in Found : c < b}

\* While bins are tested the list holds all that crossed, or is full with more
\* of them than it has room for.
CfarInv ==
  stage = "cfar" =>
    /\ j >= FirstTested
    /\ \A n \in DOMAIN peaks : /\ peaks[n].bin \in FoundBelow(j)
                               /\ peaks[n].mag = cleaned[peaks[n].bin]
    /\ \/ /\ Cardinality(FoundBelow(j)) = Len(peaks)
          /\ \A b \in FoundBelow(j) : Listed(b)
       \/ Cardinality(FoundBelow(j)) > MaxPeaks /\ Len(peaks) = MaxPeaks

RealInv == stage \notin {"idle", "cfar"} => \A n \in DOMAIN peaks : Real(peaks[n])

PairInv ==
  stage \in {"sort", "merge"} =>
    /\ i < k
    /\ Cardinality(Found) <= MaxPeaks => \A b \in Bins : LocalPeak(b) => Listed(b)

\* What a loop that rewrites the list has written comes from what it has read.
OutInv ==
  IF stage \in {"compact", "validate"}
  THEN /\ i <= Len(peaks) + 1
       /\ \A n \in DOMAIN out :
            out[n].bin # NoBin /\ \E m \in DOMAIN peaks : m < i /\ out[n] = peaks[m]
       /\ NoDoubles(out)
  ELSE out = <<>>

\* No local peak falls between the two.
CompactInv ==
  stage = "compact" /\ Cardinality(Found) <= MaxPeaks =>
    \A b \in Bins : LocalPeak(b) =>
      \/ \E n \in DOMAIN out : out[n].bin = b
      \/ \E m \in DOMAIN peaks : m >= i /\ peaks[m].bin = b

\* Validated peaks have a power.
ValidInv ==
  /\ stage = "validate" => \A n \in DOMAIN out : out[n].mag # 0
  /\ stage = "ready" => \A n \in DOMAIN peaks : peaks[n].mag # 0 /\ peaks[n].bin # NoBin

DetectInv ==
  /\ DetectTypeOK
  /\ NoDoubles(peaks)
  /\ CfarInv /\ RealInv /\ PairInv /\ OutInv /\ CompactInv /\ ValidInv
  /\ LocalPeaksSurvive

-----------------------------------------------------------------------------
\* A frame is in the detector only in the second pass, with this scan's
\* boundary, and is already counted as analysed.
LoopInv ==
  /\ phase # "idle" => scans > 0
  /\ stage # "idle" => /\ phase = "range" /\ frame_idx < pass2_frames
                       /\ startBin = CfarStart(near_field_bins)
  /\ phase = "fft" => analyzed_frames = 0 /\ \A b \in Bins : cfar_hist[b] = 0
  /\ \A b \in Bins : cfar_hist[b] <= analyzed_frames
  /\ stage # "idle" => \A b \in Bins : cfar_hist[b] < analyzed_frames

\* Every bin counted, and the target, lie past the near field in force and the
\* margin CFAR needs (cfar_start in main.c).
PastNearField ==
  /\ phase # "fft" => \A b \in Bins : cfar_hist[b] > 0 => b >= CfarStart(near_field_bins)
  /\ phase = "idle" /\ summary.valid => summary.bin >= CfarStart(near_field_bins)

IInv == TypeOK /\ DetectInv /\ LoopInv /\ PastNearField

(***************************************************************************)
(* The sums                                                                *)
(***************************************************************************)
\* The clean frames among the first n.
Below(n) == (0 .. n - 1) \ frame_saturated

\* How many frames the second pass has taken; the one in the detector counts.
Taken == IF stage = "idle" THEN frame_idx ELSE frame_idx + 1

\* The clutter so far is the sum of the clean frames stored so far.
FirstPass ==
  phase = "fft" =>
    /\ frame_saturated \subseteq 0 .. frame_idx - 1
    /\ clean_frames = Cardinality(Below(frame_idx))
    /\ clutter_sum = SumOver(spectrum, Below(frame_idx))
    /\ clutter_mean = Silence /\ rpa_nf = Silence

\* The profile so far is that of the clean frames taken so far, all cleaned by
\* the same mean, and every bin remembered lies past the near field in force.
SecondPass ==
  phase = "range" =>
    /\ frame_idx <= pass2_frames
    /\ analyzed_frames = Cardinality(Below(Taken))
    /\ rpa_nf = SumOver(Floors(spectrum, clutter_mean), Below(Taken))
    /\ \A f \in 0 .. frame_idx - 1 :
         peak_store[f] \in (CfarStart(near_field_bins) .. HalfSize - 1) \union {0, NoBin}

\* Which are the mean and the near field of this scan.
OfThisScan ==
  phase = "range" \/ Reported =>
    clutter_mean = ScanMean /\ near_field_bins = FindBoundary(ScanMean)

\* So the summary is taken from the profile of this scan.
Result ==
  Reported =>
    /\ MeanProfile = ScanProfile
    /\ summary.bin = FirstMax(MeanProfile, Gate)
    /\ summary.valid => Prominent(Best(MeanProfile, Gate), Baseline(summary.bin))
    /\ summary.hits = Total(cfar_hist, Gate)

\* Before the first scan nothing is counted.
Fresh == scans = 0 => \A b \in Bins : cfar_hist[b] = 0

SumInv == Fresh /\ FirstPass /\ SecondPass /\ OfThisScan /\ Result

-----------------------------------------------------------------------------
(***************************************************************************)
(* Numbers and bins                                                        *)
(***************************************************************************)
LEMMA Sizes ==
  /\ HalfSize \in Nat /\ DcSkip \in Nat /\ Guard \in Nat /\ Train \in Nat /\ OsK \in Nat
  /\ MaxPeaks \in Nat /\ MergeBins \in Nat /\ NoiseWin \in Nat /\ NoiseMedianK \in Nat
  /\ Word \in Nat /\ Train > 0 /\ OsK < 2 * Train /\ MaxPeaks > 0 /\ NoiseMedianK < NoiseWin
  /\ HalfSize > 2 * HalfWin /\ HalfSize < Word /\ HalfWin \in Nat
  /\ NoBin \in Powers /\ NoBin \notin Bins /\ Bins \subseteq Powers /\ 0 \in Bins
BY DetectAssumption DEF HalfWin, NoBin, Powers, Bins

LEMMA LargerType ==
  \A a, b \in Nat : Larger(a, b) \in Nat /\ Larger(a, b) >= a /\ Larger(a, b) >= b
BY DEF Larger

LEMMA BinsFinite == \A S \in SUBSET Bins : IsFiniteSet(S) /\ Cardinality(S) \in Nat
<1> SUFFICES ASSUME NEW S \in SUBSET Bins PROVE IsFiniteSet(S) /\ Cardinality(S) \in Nat
  OBVIOUS
<1>1. IsFiniteSet(Bins) BY Sizes, FS_Interval DEF Bins
<1> QED BY <1>1, FS_Subset, FS_CardinalityType

\* A set of naturals has a least element.
LEMMA Least ==
  ASSUME NEW T \in SUBSET Nat, T # {}
  PROVE  \E x \in T : \A y \in T : x <= y
<1> DEFINE Less == {p \in Nat \X Nat : p[1] < p[2]}
<1>1. Less = OpToRel(<, Nat) BY DEF OpToRel
<1>2. \E x \in T : \A y \in T : ~ (<<y, x>> \in Less)
  <2> HIDE DEF Less
  <2> QED BY <1>1, NatLessThanWellFounded, WFMin
<1>3. ASSUME NEW x \in T, NEW y \in T, <<y, x>> \notin Less PROVE x <= y
  <2>1. x \in Nat /\ y \in Nat OBVIOUS
  <2>2. <<y, x>> \in Nat \X Nat /\ <<y, x>>[1] = y /\ <<y, x>>[2] = x BY <2>1
  <2>3. ~ (y < x) BY <2>2, <1>3
  <2> QED BY <2>1, <2>3
<1> HIDE DEF Less
<1> QED BY <1>2, <1>3

\* The greatest power of a set of bins, and the first bin that has it.
LEMMA FirstMaxIsMax ==
  ASSUME NEW s \in [Bins -> Nat], NEW S \in SUBSET Bins, NEW top \in Nat,
         \A b \in S : s[b] <= top, ~ \A b \in S : s[b] = 0
  PROVE  /\ FirstMax(s, S) \in S
         /\ \A c \in S : s[c] <= s[FirstMax(s, S)]
<1> DEFINE short == {top - s[b] : b \in S}
<1>1. short \in SUBSET Nat /\ short # {} OBVIOUS
<1>2. PICK x \in short : \A y \in short : x <= y BY <1>1, Least
<1> DEFINE best == {b \in S : top - s[b] = x}
<1>3. best \in SUBSET Nat /\ best # {}
  <2>1. PICK b \in S : x = top - s[b] BY <1>2
  <2>2. best # {} BY <2>1
  <2>3. S \subseteq Nat BY Sizes DEF Bins
  <2> QED BY <2>2, <2>3
<1>4. PICK b \in best : \A c \in best : b <= c BY <1>3, Least
<1>5. \A c \in S : s[c] < s[b] \/ (s[c] = s[b] /\ b <= c)
  <2> TAKE c \in S
  <2>1. top - s[b] <= top - s[c] BY <1>2, <1>4
  <2>2. s[b] \in Nat /\ s[c] \in Nat OBVIOUS
  <2>3. CASE s[c] = s[b] BY <1>4, <2>3
  <2>4. CASE s[c] # s[b] BY <2>1, <2>2, <2>4
  <2> QED BY <2>3, <2>4
<1>6. FirstMax(s, S) =
        CHOOSE d \in S : \A c \in S : s[c] < s[d] \/ (s[c] = s[d] /\ d <= c)
  BY DEF FirstMax
<1>7. \A c \in S : s[c] < s[FirstMax(s, S)] \/ s[c] = s[FirstMax(s, S)]
  BY <1>4, <1>5, <1>6
<1>8. FirstMax(s, S) \in S BY <1>4, <1>5, <1>6
<1> QED BY <1>7, <1>8

LEMMA BestIsPower ==
  ASSUME NEW s \in [Bins -> Powers], NEW S \in SUBSET Bins
  PROVE  /\ Best(s, S) \in Powers /\ FirstMax(s, S) \in Bins
         /\ ~ (\A b \in S : s[b] = 0) => FirstMax(s, S) \in S /\ Best(s, S) = s[FirstMax(s, S)]
<1>1. CASE \A b \in S : s[b] = 0 BY <1>1, Sizes DEF Best, FirstMax, Powers
<1>2. CASE ~ \A b \in S : s[b] = 0
  <2>1. s \in [Bins -> Nat] /\ \A b \in S : s[b] <= Word /\ Word \in Nat BY Sizes DEF Powers
  <2>2. FirstMax(s, S) \in S BY <1>2, <2>1, FirstMaxIsMax
  <2> QED BY <1>2, <2>2 DEF Best
<1> QED BY <1>1, <1>2

-----------------------------------------------------------------------------
(***************************************************************************)
(* Order statistics                                                        *)
(***************************************************************************)
\* An element of the sorted cells, and how many are no greater.
LEMMA KthRank ==
  ASSUME NEW s \in [Bins -> Nat], NEW top \in Nat, \A b \in Bins : s[b] <= top,
         NEW cells \in SUBSET Bins, NEW n \in Nat, n < Cardinality(cells)
  PROVE  /\ Kth(cells, s, n) \in {s[c] : c \in cells}
         /\ n < AtMost(cells, s, Kth(cells, s, n))
<1> DEFINE values == {v \in {s[c] : c \in cells} : n < AtMost(cells, s, v)}
<1>1. cells # {} BY FS_EmptySet
<1>3. \E c \in cells : \A d \in cells : s[d] <= s[c]
  <2>1. CASE \A d \in cells : s[d] = 0 BY <1>1, <2>1
  <2>2. CASE ~ \A d \in cells : s[d] = 0 BY <2>2, FirstMaxIsMax
  <2> QED BY <2>1, <2>2
<1>4. PICK c \in cells : \A d \in cells : s[d] <= s[c] BY <1>3
<1>5. {d \in cells : s[d] <= s[c]} = cells BY <1>4
<1>6. s[c] \in values BY <1>5 DEF AtMost
<1>7. values \in SUBSET Nat OBVIOUS
<1>8. PICK v \in values : \A w \in values : v <= w BY <1>6, <1>7, Least
<1>9. \A d \in cells : n < AtMost(cells, s, s[d]) => v <= s[d] BY <1>8
<1> QED BY <1>8, <1>9 DEF Kth

\* It is the power of one of them.
LEMMA KthIsOne ==
  ASSUME NEW s \in [Bins -> Powers], NEW cells \in SUBSET Bins, NEW n \in Nat,
         n < Cardinality(cells)
  PROVE  Kth(cells, s, n) \in {s[c] : c \in cells}
<1>1. s \in [Bins -> Nat] /\ Word \in Nat /\ \A b \in Bins : s[b] <= Word
  BY Sizes DEF Powers
<1> QED BY <1>1, KthRank

LEMMA NoiseRankBelow ==
  ASSUME NEW n \in Nat \ {0}
  PROVE  NoiseRank(n) \in Nat /\ NoiseRank(n) < n
<1>1. n * NoiseMedianK < n * NoiseWin /\ n * NoiseMedianK \in Nat BY Sizes
<1> QED BY <1>1, Sizes DEF NoiseRank

LEMMA SampleIsPower ==
  ASSUME NEW s \in [Bins -> Powers], NEW b \in Bins, Samples(s, b) # {}
  PROVE  Kth(Samples(s, b), s, NoiseRank(Cardinality(Samples(s, b)))) \in Powers
<1>1. Samples(s, b) \in SUBSET Bins BY DEF Samples
<1>2. Cardinality(Samples(s, b)) \in Nat \ {0} BY <1>1, BinsFinite, FS_EmptySet
<1> QED BY <1>1, <1>2, NoiseRankBelow, KthIsOne

LEMMA MinusPower ==
  ASSUME NEW x \in Powers, NEW y \in Nat PROVE Minus(x, y) \in Powers
BY Sizes DEF Minus, Powers

LEMMA NoiseFloorType ==
  ASSUME NEW s \in [Bins -> Powers] PROVE NoiseFloor(s) \in [Bins -> Powers]
<1> SUFFICES ASSUME NEW b \in Bins PROVE NoiseFloor(s)[b] \in Powers BY DEF NoiseFloor
<1>1. CASE Samples(s, b) = {} BY <1>1 DEF NoiseFloor
<1>2. CASE Samples(s, b) # {}
  BY <1>2, SampleIsPower, MinusPower DEF NoiseFloor, Powers
<1> QED BY <1>1, <1>2

LEMMA PreparedType ==
  ASSUME NEW s \in [Bins -> Powers], NEW bound \in Nat
  PROVE  Prepared(s, bound) \in [Bins -> Powers] /\ CfarStart(bound) \in Nat
<1>1. Prepared(s, bound) \in [Bins -> Powers]
  BY NoiseFloorType, Sizes DEF Prepared, NearFieldMask, Powers
<1> QED BY <1>1, Sizes DEF CfarStart, Larger
-----------------------------------------------------------------------------
(***************************************************************************)
(* Sums.  Total is a fold, defined as the fixed point of its own equation: *)
(* that there is one, that it is the only one and what it adds up to is    *)
(* shown by taking a smallest set without the property.                    *)
(***************************************************************************)
Pick(s) == CHOOSE x \in s : TRUE

SumsUp(it, g, S) ==
  it = [s \in SUBSET S |-> IF s = {} THEN 0 ELSE g[Pick(s)] + it[s \ {Pick(s)}]]

\* One of the smallest sets among finite ones.
LEMMA SmallestSet ==
  ASSUME NEW F, F # {}, \A s \in F : IsFiniteSet(s)
  PROVE  \E s \in F : \A t \in F : Cardinality(s) <= Cardinality(t)
<1> DEFINE sizes == {Cardinality(s) : s \in F}
<1>1. sizes \in SUBSET Nat /\ sizes # {} BY FS_CardinalityType
<1>2. PICK n \in sizes : \A m \in sizes : n <= m BY <1>1, Least
<1> QED BY <1>2

LEMMA OneLess ==
  ASSUME NEW s, IsFiniteSet(s), NEW x \in s
  PROVE  /\ IsFiniteSet(s \ {x}) /\ Cardinality(s \ {x}) = Cardinality(s) - 1
         /\ Cardinality(s \ {x}) \in Nat /\ Cardinality(s) \in Nat
         /\ Cardinality(s \ {x}) < Cardinality(s)
<1>1. IsFiniteSet(s \ {x}) /\ Cardinality(s \ {x}) = Cardinality(s) - 1
  BY FS_RemoveElement
<1>2. Cardinality(s \ {x}) \in Nat /\ Cardinality(s) \in Nat BY <1>1, FS_CardinalityType
<1> QED BY <1>1, <1>2

LEMMA PickIn == \A s : s # {} => Pick(s) \in s
BY DEF Pick

LEMMA SumsAgree ==
  ASSUME NEW g, NEW S, NEW T, IsFiniteSet(S), NEW a, SumsUp(a, g, S), NEW b, SumsUp(b, g, T),
         NEW u \in SUBSET (S \cap T)
  PROVE  a[u] = b[u]
<1> DEFINE F == {s \in SUBSET (S \cap T) : a[s] # b[s]}
<1> SUFFICES ASSUME F # {} PROVE FALSE OBVIOUS
<1>1. \A s \in F : IsFiniteSet(s) BY FS_Subset
<1>2. PICK s \in F : \A t \in F : Cardinality(s) <= Cardinality(t)
  <2> HIDE DEF F
  <2> QED BY <1>1, SmallestSet
<1>3. CASE s = {} BY <1>3 DEF SumsUp
<1>4. CASE s # {}
  <2> DEFINE r == s \ {Pick(s)}
  <2>1. Pick(s) \in s /\ IsFiniteSet(s) BY <1>1, <1>4, PickIn
  <2>2. Cardinality(r) < Cardinality(s) /\ Cardinality(r) \in Nat /\ Cardinality(s) \in Nat
    BY <2>1, OneLess
  <2>3. r \notin F BY <1>2, <2>2
  <2>4. a[r] = b[r] BY <2>3
  <2>5. a[s] = g[Pick(s)] + a[r] /\ b[s] = g[Pick(s)] + b[r] BY <1>4 DEF SumsUp
  <2> QED BY <2>4, <2>5
<1> QED BY <1>3, <1>4

LEMMA SumExists ==
  ASSUME NEW g, NEW S, IsFiniteSet(S)
  PROVE  \E it : SumsUp(it, g, S)
<1> DEFINE F == {s \in SUBSET S : ~ \E it : SumsUp(it, g, s)}
<1> SUFFICES ASSUME F # {} PROVE FALSE OBVIOUS
<1>1. \A s \in F : IsFiniteSet(s) BY FS_Subset
<1>2. PICK s \in F : \A t \in F : Cardinality(s) <= Cardinality(t)
  <2> HIDE DEF F
  <2> QED BY <1>1, SmallestSet
<1> DEFINE It(t) == CHOOSE it : SumsUp(it, g, t)
           V(t) == It(t)[t]
           W(t) == IF t = {} THEN 0 ELSE g[Pick(t)] + V(t \ {Pick(t)})
           it == [t \in SUBSET s |-> W(t)]
<1>3. \A t \in SUBSET s : t # s => IsFiniteSet(t) /\ SumsUp(It(t), g, t)
  <2> SUFFICES ASSUME NEW t \in SUBSET s, t # s PROVE IsFiniteSet(t) /\ SumsUp(It(t), g, t)
    OBVIOUS
  <2>1. IsFiniteSet(s) /\ IsFiniteSet(t) BY <1>1, FS_Subset
  <2>2. Cardinality(t) < Cardinality(s) /\ Cardinality(t) \in Nat /\ Cardinality(s) \in Nat
    BY <2>1, FS_Subset, FS_CardinalityType
  <2>3. t \notin F BY <1>2, <2>2
  <2> QED BY <2>1, <2>3
<1>4. \A t \in SUBSET s : t # s => V(t) = W(t)
  <2> SUFFICES ASSUME NEW t \in SUBSET s, t # s PROVE V(t) = W(t) OBVIOUS
  <2>1. CASE t = {}
    <3>1. SumsUp(It(t), g, t) BY <1>3
    <3> HIDE DEF It
    <3>2. V(t) = 0 BY <2>1, <3>1 DEF SumsUp
    <3> QED BY <2>1, <3>2
  <2>2. CASE t # {}
    <3> DEFINE r == t \ {Pick(t)}
    <3>1. Pick(t) \in t BY <2>2, PickIn
    <3>2. r \in SUBSET s /\ r # s /\ r \in SUBSET t BY <3>1
    <3>3. SumsUp(It(t), g, t) /\ SumsUp(It(r), g, r) /\ IsFiniteSet(t) BY <1>3, <3>2
    <3>4. V(t) = g[Pick(t)] + It(t)[r] BY <2>2, <3>3 DEF SumsUp
    <3>5. It(t)[r] = It(r)[r]
      <4> HIDE DEF r, It
      <4> QED BY <3>2, <3>3, SumsAgree
    <3> QED BY <2>2, <3>4, <3>5
  <2> QED BY <2>1, <2>2
<1>5. SumsUp(it, g, s)
  <2>1. \A t \in SUBSET s : t # {} => t \ {Pick(t)} \in SUBSET s /\ t \ {Pick(t)} # s
    BY PickIn
  <2> HIDE DEF V
  <2>2. \A t \in SUBSET s : t # {} => it[t \ {Pick(t)}] = V(t \ {Pick(t)})
    BY <1>4, <2>1
  <2> QED BY <2>2 DEF SumsUp
<1> QED BY <1>5, <1>2

LEMMA TotalDef == \A g, S : Total(g, S) = (CHOOSE it : SumsUp(it, g, S))[S]
BY DEF Total, MapThenSumSet, MapThenFoldSet, SumsUp, Pick

LEMMA TotalEmpty == \A g : Total(g, {}) = 0
<1> SUFFICES ASSUME NEW g PROVE Total(g, {}) = 0 OBVIOUS
<1>1. PICK it : SumsUp(it, g, {}) BY SumExists, FS_EmptySet
<1>2. SumsUp(CHOOSE h : SumsUp(h, g, {}), g, {}) BY <1>1
<1> QED BY <1>2, TotalDef DEF SumsUp

LEMMA TotalStep ==
  ASSUME NEW g, NEW S, IsFiniteSet(S), S # {}
  PROVE  Total(g, S) = g[Pick(S)] + Total(g, S \ {Pick(S)})
<1> DEFINE r == S \ {Pick(S)}
           a == CHOOSE h : SumsUp(h, g, S)
           b == CHOOSE h : SumsUp(h, g, r)
<1>1. IsFiniteSet(r) BY FS_Subset
<1>2. SumsUp(a, g, S) BY SumExists
<1>3. SumsUp(b, g, r) BY <1>1, SumExists
<1>4. Total(g, S) = a[S] /\ Total(g, r) = b[r] BY TotalDef
<1>5. r \in SUBSET (S \cap r) /\ r \in SUBSET S OBVIOUS
<1>6. a[S] = g[Pick(S)] + a[r] BY <1>2 DEF SumsUp
<1> HIDE DEF a, b, r
<1>7. a[r] = b[r] BY <1>2, <1>3, <1>5, SumsAgree
<1> QED BY <1>4, <1>6, <1>7 DEF r

LEMMA TotalNat ==
  ASSUME NEW g, NEW S, IsFiniteSet(S), \A x \in S : g[x] \in Nat
  PROVE  Total(g, S) \in Nat
<1> DEFINE F == {s \in SUBSET S : Total(g, s) \notin Nat}
<1> SUFFICES ASSUME F # {} PROVE FALSE OBVIOUS
<1>1. \A s \in F : IsFiniteSet(s) BY FS_Subset
<1>2. PICK s \in F : \A t \in F : Cardinality(s) <= Cardinality(t)
  <2> HIDE DEF F
  <2> QED BY <1>1, SmallestSet
<1>3. s # {} BY TotalEmpty
<1>4. Pick(s) \in s /\ IsFiniteSet(s) BY <1>1, <1>3, PickIn
<1>5. /\ Cardinality(s \ {Pick(s)}) < Cardinality(s) /\ Cardinality(s \ {Pick(s)}) \in Nat
      /\ Cardinality(s) \in Nat
  BY <1>4, OneLess
<1>6. Total(g, s \ {Pick(s)}) \in Nat BY <1>2, <1>5
<1>7. Total(g, s) = g[Pick(s)] + Total(g, s \ {Pick(s)}) BY <1>3, <1>4, TotalStep
<1> QED BY <1>4, <1>6, <1>7

\* Any element may be taken out first.
LEMMA TotalRemove ==
  ASSUME NEW g, NEW S, IsFiniteSet(S), \A x \in S : g[x] \in Nat, NEW x \in S
  PROVE  Total(g, S) = g[x] + Total(g, S \ {x})
<1> DEFINE F == {s \in SUBSET S : \E y \in s : Total(g, s) # g[y] + Total(g, s \ {y})}
<1> SUFFICES ASSUME F # {} PROVE FALSE OBVIOUS
<1>1. \A s \in F : IsFiniteSet(s) BY FS_Subset
<1>2. PICK s \in F : \A t \in F : Cardinality(s) <= Cardinality(t)
  <2> HIDE DEF F
  <2> QED BY <1>1, SmallestSet
<1>3. PICK y \in s : Total(g, s) # g[y] + Total(g, s \ {y}) BY <1>2
<1> DEFINE p == Pick(s)
<1>4. p \in s /\ IsFiniteSet(s) /\ s \in SUBSET S BY <1>1, <1>3, PickIn
<1>5. Total(g, s) = g[p] + Total(g, s \ {p}) BY <1>3, <1>4, TotalStep
<1> HIDE DEF p
<1>6. p # y BY <1>3, <1>5
<1>7. /\ Cardinality(s \ {p}) < Cardinality(s) /\ Cardinality(s \ {p}) \in Nat
      /\ Cardinality(s \ {y}) < Cardinality(s) /\ Cardinality(s \ {y}) \in Nat
      /\ Cardinality(s) \in Nat /\ IsFiniteSet(s \ {p}) /\ IsFiniteSet(s \ {y})
  BY <1>3, <1>4, OneLess
<1>8. s \ {p} \notin F /\ s \ {y} \notin F
  <2> HIDE DEF F
  <2> QED BY <1>2, <1>7
<1>9. Total(g, s \ {p}) = g[y] + Total(g, (s \ {p}) \ {y}) BY <1>4, <1>6, <1>8
<1>10. Total(g, s \ {y}) = g[p] + Total(g, (s \ {y}) \ {p}) BY <1>4, <1>6, <1>8
<1>11. (s \ {p}) \ {y} = (s \ {y}) \ {p} OBVIOUS
<1>12. Total(g, (s \ {p}) \ {y}) \in Nat
  <2>1. IsFiniteSet((s \ {p}) \ {y}) BY <1>7, FS_Subset
  <2> QED BY <1>4, <2>1, TotalNat
<1>13. g[p] \in Nat /\ g[y] \in Nat BY <1>4
<1> HIDE DEF F
<1> QED BY <1>3, <1>5, <1>9, <1>10, <1>11, <1>12, <1>13

\* A sum grows by what is added to it.
LEMMA TotalAdd ==
  ASSUME NEW g, NEW S, IsFiniteSet(S), NEW x, x \notin S, \A y \in S \union {x} : g[y] \in Nat
  PROVE  Total(g, S \union {x}) = Total(g, S) + g[x]
<1> DEFINE both == S \union {x}
<1>1. IsFiniteSet(both) /\ x \in both BY FS_AddElement
<1>2. both \ {x} = S OBVIOUS
<1>3. \A y \in both : g[y] \in Nat OBVIOUS
<1>4. Total(g, S) \in Nat /\ g[x] \in Nat BY TotalNat
<1> HIDE DEF both
<1>5. Total(g, both) = g[x] + Total(g, both \ {x}) BY <1>1, <1>3, TotalRemove
<1>6. Total(g, both) = Total(g, S) + g[x] BY <1>2, <1>4, <1>5
<1> QED BY <1>6 DEF both

\* It depends on the terms alone.
LEMMA TotalSame ==
  ASSUME NEW g, NEW h, NEW S, IsFiniteSet(S), \A x \in S : g[x] = h[x]
  PROVE  Total(g, S) = Total(h, S)
<1> DEFINE F == {s \in SUBSET S : Total(g, s) # Total(h, s)}
<1> SUFFICES ASSUME F # {} PROVE FALSE OBVIOUS
<1>1. \A s \in F : IsFiniteSet(s) BY FS_Subset
<1>2. PICK s \in F : \A t \in F : Cardinality(s) <= Cardinality(t)
  <2> HIDE DEF F
  <2> QED BY <1>1, SmallestSet
<1>3. s # {} BY TotalEmpty
<1>4. Pick(s) \in s /\ IsFiniteSet(s) /\ s \in SUBSET S BY <1>1, <1>3, PickIn
<1>5. /\ Cardinality(s \ {Pick(s)}) < Cardinality(s) /\ Cardinality(s \ {Pick(s)}) \in Nat
      /\ Cardinality(s) \in Nat
  BY <1>4, OneLess
<1>6. Total(g, s \ {Pick(s)}) = Total(h, s \ {Pick(s)}) BY <1>2, <1>5
<1>7. /\ Total(g, s) = g[Pick(s)] + Total(g, s \ {Pick(s)})
      /\ Total(h, s) = h[Pick(s)] + Total(h, s \ {Pick(s)})
  BY <1>3, <1>4, TotalStep
<1> QED BY <1>4, <1>6, <1>7

\* Terms that are 0 may be left out.
LEMMA TotalZeros ==
  ASSUME NEW g, NEW S, IsFiniteSet(S), \A x \in S : g[x] \in Nat,
         NEW T \in SUBSET S, \A x \in S \ T : g[x] = 0
  PROVE  Total(g, S) = Total(g, T)
<1> DEFINE F == {s \in SUBSET S : T \subseteq s /\ Total(g, s) # Total(g, T)}
<1> SUFFICES ASSUME F # {} PROVE FALSE OBVIOUS
<1>1. \A s \in F : IsFiniteSet(s) BY FS_Subset
<1>2. PICK s \in F : \A t \in F : Cardinality(s) <= Cardinality(t)
  <2> HIDE DEF F
  <2> QED BY <1>1, SmallestSet
<1>3. PICK x \in s : x \notin T BY <1>2
<1>4. x \in s /\ IsFiniteSet(s) /\ s \in SUBSET S /\ T \subseteq s \ {x} BY <1>1, <1>3
<1>5. /\ Cardinality(s \ {x}) < Cardinality(s) /\ Cardinality(s \ {x}) \in Nat
      /\ Cardinality(s) \in Nat /\ IsFiniteSet(s \ {x})
  BY <1>4, OneLess
<1>6. Total(g, s \ {x}) = Total(g, T) BY <1>2, <1>4, <1>5
<1>7. Total(g, s) = g[x] + Total(g, s \ {x}) BY <1>4, TotalRemove
<1>8. Total(g, s \ {x}) \in Nat BY <1>4, <1>5, TotalNat
<1>9. g[x] = 0 BY <1>3, <1>4
<1> QED BY <1>6, <1>7, <1>8, <1>9

-----------------------------------------------------------------------------
(***************************************************************************)
(* What the steps of the detector have in common                           *)
(***************************************************************************)
LEMMA FoundAreBins ==
  ASSUME DetectTypeOK
  PROVE  /\ Found \subseteq Tested /\ Tested \subseteq Bins /\ Searched \subseteq Bins
         /\ FirstTested \in Nat /\ startBin <= FirstTested
         /\ \A b \in Tested : startBin <= b /\ b # NoBin
         /\ \A S \in SUBSET Found : IsFiniteSet(S) /\ Cardinality(S) \in Nat
<1>1. startBin \in Nat BY DEF DetectTypeOK
<1>2. FirstTested \in Nat /\ startBin <= FirstTested
  BY <1>1, Sizes DEF FirstTested, Larger
<1>3. Tested \subseteq Bins /\ Searched \subseteq Bins
  BY <1>1, <1>2, Sizes DEF Tested, Searched, Bins
<1>4. Found \subseteq Tested BY DEF Found
<1>5. \A b \in Tested : startBin <= b BY <1>1, <1>2, Sizes DEF Tested
<1>6. \A S \in SUBSET Found : S \in SUBSET Bins BY <1>3, <1>4
<1> QED BY <1>2, <1>3, <1>4, <1>5, <1>6, BinsFinite, Sizes

\* Within a frame the spectrum and its start stay, and with them what crosses.
LEMMA SameSpectrum ==
  ASSUME UNCHANGED <<cleaned, startBin>>
  PROVE  /\ Found' = Found /\ Searched' = Searched /\ FirstTested' = FirstTested
         /\ Tested' = Tested
         /\ \A b : LocalPeak(b)' <=> LocalPeak(b)
         /\ \A p : Real(p)' <=> Real(p)
         /\ \A b : FoundBelow(b)' = FoundBelow(b)
<1>1. FirstTested' = FirstTested /\ Searched' = Searched BY DEF FirstTested, Searched
<1>2. Tested' = Tested BY <1>1 DEF Tested
<1>3. \A b : Crosses(b)' <=> Crosses(b) BY DEF Crosses
<1>4. Found' = Found BY <1>2, <1>3 DEF Found
<1>5. \A b : LocalPeak(b)' <=> LocalPeak(b) BY <1>4 DEF LocalPeak
<1>6. \A p : Real(p)' <=> Real(p) BY <1>1, <1>4 DEF Real
<1>7. \A b : FoundBelow(b)' = FoundBelow(b) BY <1>4 DEF FoundBelow
<1> QED BY <1>1, <1>2, <1>4, <1>5, <1>6, <1>7

LEMMA PeakAtType ==
  ASSUME cleaned \in [Bins -> Powers], NEW b \in Bins PROVE PeakAt(b) \in Peak
<1>1. \A c \in Bins : cleaned[c] \in Int BY Sizes DEF Powers
<1>2. Interpolated(b) \in Int \X Int
  <2> DEFINE slope == cleaned[b - 1] - cleaned[b + 1]
             curve == cleaned[b - 1] - 2 * cleaned[b] + cleaned[b + 1]
             num   == 8 * curve * cleaned[b] - slope * slope
  <2>1. CASE b = 0 \/ b >= HalfSize - 1 BY <2>1, <1>1 DEF Interpolated
  <2>2. CASE ~ (b = 0 \/ b >= HalfSize - 1)
    <3>1. b - 1 \in Bins /\ b + 1 \in Bins BY <2>2, Sizes DEF Bins
    <3>2. slope \in Int /\ curve \in Int BY <1>1, <3>1
    <3>3. num \in Int
      <4> HIDE DEF slope, curve
      <4>1. 8 * curve * cleaned[b] \in Int /\ slope * slope \in Int BY <3>2, <1>1
      <4> QED BY <4>1
    <3>4. Interpolated(b) = IF curve = 0 THEN <<cleaned[b], 1>>
                            ELSE IF curve > 0 THEN <<num, 8 * curve>> ELSE <<-num, -8 * curve>>
      BY <2>2 DEF Interpolated
    <3> HIDE DEF slope, curve, num
    <3> QED BY <1>1, <3>2, <3>3, <3>4
  <2> QED BY <2>1, <2>2
<1>3. b \in Powers /\ cleaned[b] \in Powers BY Sizes
<1> QED BY <1>2, <1>3 DEF PeakAt, Peak

LEMMA FallbackType ==
  ASSUME DetectTypeOK
  PROVE  FallbackPeak \in Peak /\ (Found = {} => Real(FallbackPeak))
<1>1. Searched \in SUBSET Bins /\ cleaned \in [Bins -> Powers]
  BY FoundAreBins DEF DetectTypeOK
<1>2. /\ Best(cleaned, Searched) \in Powers /\ FirstMax(cleaned, Searched) \in Bins
      /\ ~ (\A b \in Searched : cleaned[b] = 0) =>
           /\ FirstMax(cleaned, Searched) \in Searched
           /\ Best(cleaned, Searched) = cleaned[FirstMax(cleaned, Searched)]
  BY <1>1, BestIsPower
<1>3. FallbackPeak \in Peak
  <2> DEFINE b == FirstMax(cleaned, Searched)
             v == Best(cleaned, Searched)
  <2>1. b \in Powers /\ v \in Powers BY <1>2, Sizes
  <2> HIDE DEF b, v
  <2>3. v \in Int BY <2>1 DEF Powers
  <2>2. FallbackPeak = [bin |-> b, mag |-> v, top |-> <<v, 1>>] BY DEF FallbackPeak, b, v
  <2> QED BY <2>1, <2>2, <2>3 DEF Peak
<1>4. (\A b \in Searched : cleaned[b] = 0) => FallbackPeak.mag = 0
  BY DEF FallbackPeak, Best
<1>5. FallbackPeak.bin = FirstMax(cleaned, Searched) /\ FallbackPeak.mag = Best(cleaned, Searched)
  BY DEF FallbackPeak
<1> QED BY <1>2, <1>3, <1>4, <1>5 DEF Real

LEMMA InitDetect == DetectInit => DetectInv
<1> SUFFICES ASSUME DetectInit PROVE DetectInv OBVIOUS
<1>1. Silence \in [Bins -> Powers] BY Sizes DEF Silence, Powers
<1>2. DetectTypeOK BY <1>1, Sizes DEF DetectInit, DetectTypeOK, Silence
<1>3. NoDoubles(peaks) BY DEF DetectInit, NoDoubles
<1> QED
  BY <1>2, <1>3 DEF DetectInit, DetectInv, CfarInv, RealInv, PairInv, OutInv, CompactInv,
     ValidInv, LocalPeaksSurvive

LEMMA BeginStep ==
  ASSUME DetectInv, NEW pre \in [Bins -> Powers], NEW bound \in Nat, Begin(pre, bound)
  PROVE  DetectInv'
<1>1. DetectTypeOK'
  <2>1. cleaned' \in [Bins -> Powers] /\ preNoise' \in [Bins -> Powers] /\ startBin' \in Nat
    BY PreparedType DEF Begin
  <2>2. j' \in Nat
    <3>1. j' = Larger(startBin', DcSkip) + HalfWin BY DEF Begin
    <3>2. Larger(startBin', DcSkip) \in Nat BY <2>1, Sizes, LargerType
    <3> QED BY <3>1, <3>2, Sizes
  <2>3. peaks' \in Seq(Peak) /\ Len(peaks') <= MaxPeaks BY Sizes DEF Begin
  <2>4. out' = <<>> /\ i' \in Nat \ {0} BY DEF Begin, DetectInv, OutInv, DetectTypeOK
  <2> QED BY <2>1, <2>2, <2>3, <2>4 DEF Begin, DetectInv, DetectTypeOK, Peak
<1>2. NoDoubles(peaks)' BY DEF Begin, NoDoubles
<1>3. CfarInv'
  <2>1. j' = FirstTested' BY DEF Begin, FirstTested
  <2>2. FirstTested' \in Nat
    <3>1. startBin' \in Nat BY <1>1 DEF DetectTypeOK
    <3>2. FirstTested' = Larger(startBin', DcSkip) + HalfWin BY DEF FirstTested, HalfWin
    <3>3. Larger(startBin', DcSkip) \in Nat BY <3>1, Sizes, LargerType
    <3> QED BY <3>2, <3>3, Sizes
  <2>3. Found' \subseteq Tested' BY DEF Found
  <2>4. \A b \in Tested' : ~ (b < FirstTested') BY <2>2, Sizes DEF Tested
  <2>5. FoundBelow(j)' = {} BY <2>1, <2>3, <2>4 DEF FoundBelow
  <2>6. peaks' = <<>> /\ j' >= FirstTested' BY <2>1, <2>2 DEF Begin
  <2> QED BY <2>5, <2>6, FS_EmptySet DEF CfarInv
<1> QED
  BY <1>1, <1>2, <1>3 DEF Begin, DetectInv, RealInv, PairInv, OutInv, CompactInv, ValidInv,
     LocalPeaksSurvive
-----------------------------------------------------------------------------
(***************************************************************************)
(* CFAR                                                                    *)
(***************************************************************************)
\* What an appended peak leaves of a list, and adds to it.
LEMMA Appended ==
  ASSUME NEW list \in Seq(Peak), NEW p \in Peak
  PROVE  /\ Append(list, p) \in Seq(Peak) /\ Len(Append(list, p)) = Len(list) + 1
         /\ Len(list) \in Nat /\ DOMAIN list = 1 .. Len(list)
         /\ DOMAIN Append(list, p) = 1 .. Len(list) + 1
         /\ \A n \in 1 .. Len(list) : Append(list, p)[n] = list[n]
         /\ Append(list, p)[Len(list) + 1] = p
OBVIOUS

LEMMA FoundBelowNext ==
  ASSUME DetectTypeOK, CfarStep
  PROVE  FoundBelow(j)' = IF Crosses(j) THEN FoundBelow(j) \union {j} ELSE FoundBelow(j)
<1>1. j \in Tested /\ j' = j + 1 /\ Tested \subseteq Int /\ Found \subseteq Int
  BY FoundAreBins DEF CfarStep, Bins
<1>2. FoundBelow(j)' = {c \in Found : c < j + 1}
  BY <1>1, SameSpectrum DEF CfarStep, FoundBelow
<1>3. \A c \in Found : c < j + 1 <=> c < j \/ c = j BY <1>1
<1>4. j \in Found <=> Crosses(j) BY <1>1 DEF Found
<1> QED BY <1>2, <1>3, <1>4 DEF FoundBelow

LEMMA CfarStepInv == ASSUME DetectInv, CfarStep PROVE DetectInv'
<1> USE DEF DetectInv
<1>1. /\ j \in Tested /\ j \in Bins /\ j \in Nat /\ j' = j + 1 /\ stage = "cfar" /\ stage' = "cfar"
      /\ UNCHANGED <<preNoise, cleaned, startBin, i, k, out>>
  BY FoundAreBins DEF CfarStep, DetectTypeOK
<1>2. /\ Found' = Found /\ FirstTested' = FirstTested /\ FirstTested \in Nat
      /\ Found \subseteq Bins
  BY <1>1, SameSpectrum, FoundAreBins
<1>3. /\ j >= FirstTested
      /\ \A n \in DOMAIN peaks : /\ peaks[n].bin \in FoundBelow(j)
                                 /\ peaks[n].mag = cleaned[peaks[n].bin]
      /\ \/ /\ Cardinality(FoundBelow(j)) = Len(peaks)
            /\ \A b \in FoundBelow(j) : Listed(b)
         \/ Cardinality(FoundBelow(j)) > MaxPeaks /\ Len(peaks) = MaxPeaks
  BY <1>1 DEF CfarInv
<1>4. /\ IsFiniteSet(FoundBelow(j)) /\ Cardinality(FoundBelow(j)) \in Nat
      /\ j \notin FoundBelow(j) /\ FoundBelow(j) \subseteq FoundBelow(j)'
  <2>1. FoundBelow(j) \in SUBSET Found BY DEF FoundBelow
  <2>2. j \notin FoundBelow(j) BY <1>1 DEF FoundBelow
  <2> QED BY <2>1, <2>2, FoundAreBins, FoundBelowNext
<1>5. /\ peaks \in Seq(Peak) /\ Len(peaks) <= MaxPeaks /\ PeakAt(j) \in Peak
      /\ PeakAt(j).bin = j /\ PeakAt(j).mag = cleaned[j]
  BY <1>1, PeakAtType DEF DetectTypeOK, PeakAt
<1>6. CASE Crosses(j) /\ Len(peaks) < MaxPeaks
  <2>1. peaks' = Append(peaks, PeakAt(j)) BY <1>6 DEF CfarStep
  <2>2. FoundBelow(j)' = FoundBelow(j) \union {j} BY <1>6, FoundBelowNext
  <2>3. DetectTypeOK'
    <3>1. peaks' \in Seq(Peak) /\ Len(peaks') <= MaxPeaks
      BY <1>5, <1>6, <2>1, Appended, Sizes
    <3> QED BY <1>1, <3>1 DEF DetectTypeOK, Peak
  <2>4. ASSUME NEW n \in DOMAIN peaks'
        PROVE  peaks'[n] = (IF n \in DOMAIN peaks THEN peaks[n] ELSE PeakAt(j))
    BY <1>5, <2>1, Appended
  <2>5. NoDoubles(peaks)'
    <3>1. \A n \in DOMAIN peaks : peaks[n].bin # j BY <1>3, <1>4
    <3> QED BY <1>5, <2>1, <2>4, <3>1, Appended DEF NoDoubles
  <2>6. \A n \in DOMAIN peaks' : /\ peaks'[n].bin \in FoundBelow(j)'
                                 /\ peaks'[n].mag = cleaned[peaks'[n].bin]
    BY <1>3, <1>5, <2>2, <2>4
  <2>7. Cardinality(FoundBelow(j)') = Len(peaks')
    <3>1. Cardinality(FoundBelow(j)') = Cardinality(FoundBelow(j)) + 1
      BY <1>4, <2>2, FS_AddElement
    <3>2. Cardinality(FoundBelow(j)) = Len(peaks)
      <4>1. \/ Cardinality(FoundBelow(j)) = Len(peaks)
            \/ Len(peaks) = MaxPeaks
        BY <1>3
      <4>2. Len(peaks) # MaxPeaks BY <1>5, <1>6, Sizes
      <4> QED BY <4>1, <4>2
    <3>3. Len(peaks') = Len(peaks) + 1 BY <1>5, <2>1, Appended
    <3> QED BY <3>1, <3>2, <3>3
  <2>8. \A b \in FoundBelow(j)' : \E n \in DOMAIN peaks' : peaks'[n].bin = b
    <3>1. CASE Cardinality(FoundBelow(j)) > MaxPeaks /\ Len(peaks) = MaxPeaks
      BY <1>6, <3>1, Sizes
    <3>2. CASE \A b \in FoundBelow(j) : Listed(b)
      <4>1. /\ DOMAIN peaks \subseteq DOMAIN peaks'
            /\ Len(peaks) + 1 \in DOMAIN peaks' /\ peaks'[Len(peaks) + 1].bin = j
            /\ \A n \in DOMAIN peaks : peaks'[n] = peaks[n]
        BY <1>5, <2>1, Appended
      <4>2. \A b \in FoundBelow(j) : \E n \in DOMAIN peaks' : peaks'[n].bin = b
        BY <3>2, <4>1 DEF Listed
      <4> QED BY <2>2, <4>1, <4>2
    <3> QED BY <1>3, <3>1, <3>2
  <2>9. CfarInv' BY <1>1, <1>2, <1>3, <2>6, <2>7, <2>8 DEF CfarInv, Listed
  <2> QED
    BY <1>1, <2>3, <2>5, <2>9
    DEF RealInv, PairInv, OutInv, CompactInv, ValidInv, LocalPeaksSurvive
<1>7. CASE ~ (Crosses(j) /\ Len(peaks) < MaxPeaks)
  <2>1. peaks' = peaks BY <1>7 DEF CfarStep
  <2>2. DetectTypeOK' BY <1>1, <2>1 DEF DetectTypeOK, Peak
  <2>3. NoDoubles(peaks)' BY <2>1 DEF NoDoubles
  <2>4. \/ /\ Cardinality(FoundBelow(j)') = Len(peaks)
           /\ \A b \in FoundBelow(j)' : Listed(b)
        \/ Cardinality(FoundBelow(j)') > MaxPeaks /\ Len(peaks) = MaxPeaks
    <3>1. CASE ~ Crosses(j) BY <1>3, <3>1, FoundBelowNext
    <3>2. CASE Crosses(j)
      <4>1. FoundBelow(j)' = FoundBelow(j) \union {j} BY <3>2, FoundBelowNext
      <4>2. Cardinality(FoundBelow(j)') = Cardinality(FoundBelow(j)) + 1
        BY <1>4, <4>1, FS_AddElement
      <4>3. Len(peaks) = MaxPeaks BY <1>5, <1>7, <3>2, Sizes, LenProperties
      <4> QED BY <1>3, <1>4, <4>2, <4>3, Sizes
    <3> QED BY <3>1, <3>2
  <2>5. CfarInv' BY <1>1, <1>2, <1>3, <1>4, <2>1, <2>4 DEF CfarInv, Listed
  <2> QED
    BY <1>1, <2>2, <2>3, <2>5
    DEF RealInv, PairInv, OutInv, CompactInv, ValidInv, LocalPeaksSurvive
<1> QED BY <1>6, <1>7

\* Once all bins are tested, what lies below the next one is all that crosses.
LEMMA CfarEndInv == ASSUME DetectInv, CfarEnd PROVE DetectInv'
<1> USE DEF DetectInv
<1>1. /\ j \notin Tested /\ j \in Nat /\ stage = "cfar" /\ stage' = "sort" /\ i' = 1 /\ k' = 2
      /\ UNCHANGED <<preNoise, cleaned, startBin, j, out>>
  BY DEF CfarEnd, StartPairs, DetectTypeOK
<1>2. j >= FirstTested /\ FirstTested \in Nat /\ Found \subseteq Tested
  BY <1>1, FoundAreBins DEF CfarInv
<1>3. FoundBelow(j) = Found
  <2>1. \A b \in Tested : b < j BY <1>1, <1>2, Sizes DEF Tested
  <2> QED BY <1>2, <2>1 DEF FoundBelow
<1>4. /\ \A n \in DOMAIN peaks : peaks[n].bin \in Found /\ peaks[n].mag = cleaned[peaks[n].bin]
      /\ Cardinality(Found) <= MaxPeaks => \A b \in Found : Listed(b)
  <2>1. Cardinality(Found) \in Nat BY FoundAreBins
  <2> QED BY <1>1, <1>3, <2>1, Sizes DEF CfarInv
<1>5. peaks = <<>> => Found = {}
  <2>1. ASSUME peaks = <<>> PROVE Found = {}
    <3>1. Len(peaks) = 0 BY <2>1
    <3>2. \A b \in Found : Listed(b) BY <1>1, <1>3, <3>1, Sizes DEF CfarInv
    <3> QED BY <2>1, <3>2 DEF Listed
  <2> QED BY <2>1
<1>6. \/ peaks' = <<FallbackPeak>> /\ Found = {} /\ FallbackPeak \in Peak /\ Real(FallbackPeak)
      \/ peaks' = peaks
  BY <1>5, FallbackType DEF CfarEnd
<1>7. DetectTypeOK'
  <2>1. peaks' \in Seq(Peak) /\ Len(peaks') <= MaxPeaks
    <3>1. CASE peaks' = peaks BY <3>1 DEF DetectTypeOK
    <3>2. CASE peaks' = <<FallbackPeak>> /\ FallbackPeak \in Peak
      <4> HIDE DEF Peak
      <4> QED BY <3>2, Sizes
    <3> QED BY <1>6, <3>1, <3>2
  <2>2. out = <<>> BY <1>1 DEF OutInv
  <2> QED BY <1>1, <2>1, <2>2 DEF DetectTypeOK, Peak
<1>8. NoDoubles(peaks)'
  <2>1. CASE peaks' = peaks BY <2>1 DEF NoDoubles
  <2>2. CASE peaks' = <<FallbackPeak>> BY <2>2 DEF NoDoubles
  <2> QED BY <1>6, <2>1, <2>2
<1>9. RealInv'
  <2>1. \A n \in DOMAIN peaks' : Real(peaks'[n])
    <3>1. CASE peaks' = peaks BY <1>4, <3>1 DEF Real
    <3>2. CASE peaks' = <<FallbackPeak>> /\ Real(FallbackPeak) BY <3>2
    <3> QED BY <1>6, <3>1, <3>2
  <2>2. Found' = Found /\ Searched' = Searched /\ cleaned' = cleaned BY <1>1, SameSpectrum
  <2> QED BY <2>1, <2>2 DEF RealInv, Real, NoBin
<1>10. PairInv'
  <2>1. Found' = Found /\ \A b : LocalPeak(b)' <=> LocalPeak(b) BY <1>1, SameSpectrum
  <2>2. \A b : LocalPeak(b) => b \in Found BY DEF LocalPeak
  <2>3. Cardinality(Found) <= MaxPeaks =>
          \A b \in Found : \E n \in DOMAIN peaks' : peaks'[n].bin = b
    BY <1>4, <1>6 DEF Listed
  <2>4. Bins' = Bins BY DEF Bins
  <2> QED BY <1>1, <2>1, <2>2, <2>3, <2>4 DEF PairInv, Listed
<1> QED
  BY <1>1, <1>7, <1>8, <1>9, <1>10 DEF CfarInv, OutInv, CompactInv, ValidInv, LocalPeaksSurvive
-----------------------------------------------------------------------------
(***************************************************************************)
(* Sorting and merging                                                     *)
(***************************************************************************)
LEMMA PairInHand ==
  ASSUME DetectInv, stage \in {"sort", "merge"}, ~PairsDone
  PROVE  /\ peaks \in Seq(Peak) /\ DOMAIN peaks = 1 .. Len(peaks)
         /\ i \in DOMAIN peaks /\ k \in DOMAIN peaks /\ i < k
<1>1. peaks \in Seq(Peak) /\ DOMAIN peaks = 1 .. Len(peaks) /\ Len(peaks) \in Nat
  BY LenProperties DEF DetectInv, DetectTypeOK
<1>2. i < k /\ i \in Nat \ {0} /\ k \in Nat \ {0} BY DEF DetectInv, DetectTypeOK, PairInv
<1> QED BY <1>1, <1>2 DEF PairsDone

\* A round of the two nested loops keeps the invariant if it keeps what the
\* invariant says of the list.
LEMMA PairRound ==
  ASSUME DetectInv, stage \in {"sort", "merge"}, ~PairsDone, NextPair,
         UNCHANGED <<stage, preNoise, cleaned, startBin, j, out>>,
         peaks' \in Seq(Peak), Len(peaks') = Len(peaks), NoDoubles(peaks'),
         \A n \in DOMAIN peaks' : Real(peaks'[n]),
         \A b \in Found : LocalPeak(b) /\ Listed(b) =>
                           \E n \in DOMAIN peaks' : peaks'[n].bin = b
  PROVE  DetectInv'
<1>1. i \in DOMAIN peaks /\ i < k /\ i \in Nat \ {0} /\ k \in Nat \ {0} /\ out = <<>>
  BY PairInHand DEF DetectInv, DetectTypeOK, OutInv
<1>2. i' \in Nat \ {0} /\ k' \in Nat \ {0} /\ i' < k' /\ i <= i' BY <1>1 DEF NextPair
<1>3. DetectTypeOK'
  <2>1. Len(out) < i' BY <1>1, <1>2
  <2> QED BY <1>2, <2>1 DEF DetectInv, DetectTypeOK, Peak
<1>4. /\ Found' = Found /\ Searched' = Searched /\ Bins' = Bins
      /\ \A b : LocalPeak(b)' <=> LocalPeak(b)
  BY SameSpectrum DEF Bins
<1>5. RealInv' BY <1>4 DEF RealInv, Real, NoBin
<1>6. PairInv'
  <2>1. \A b : LocalPeak(b) => b \in Found BY DEF LocalPeak
  <2> QED BY <1>2, <1>4, <2>1 DEF DetectInv, PairInv, Listed
<1>7. NoDoubles(peaks)' BY DEF NoDoubles, NoBin
<1> QED
  BY <1>1, <1>3, <1>5, <1>6, <1>7
  DEF DetectInv, CfarInv, OutInv, CompactInv, ValidInv, LocalPeaksSurvive

LEMMA SortStepInv == ASSUME DetectInv, SortStep PROVE DetectInv'
<1>1. /\ stage = "sort" /\ ~PairsDone /\ NextPair
      /\ UNCHANGED <<stage, preNoise, cleaned, startBin, j, out>>
  BY DEF SortStep
<1>2. /\ peaks \in Seq(Peak) /\ i \in DOMAIN peaks /\ k \in DOMAIN peaks
      /\ i \in 1 .. Len(peaks) /\ k \in 1 .. Len(peaks) /\ DOMAIN peaks = 1 .. Len(peaks)
  BY <1>1, PairInHand
<1>3. NoDoubles(peaks) /\ \A n \in DOMAIN peaks : Real(peaks[n])
  BY <1>1 DEF DetectInv, RealInv
<1>4. CASE peaks' = peaks BY <1>1, <1>2, <1>3, <1>4, PairRound DEF Listed
<1>5. CASE peaks' = [peaks EXCEPT ![i] = peaks[k], ![k] = peaks[i]]
  <2> HIDE DEF Peak
  <2>1. peaks[i] \in Peak /\ peaks[k] \in Peak BY <1>2
  <2>2. peaks' \in Seq(Peak) /\ Len(peaks') = Len(peaks) /\ DOMAIN peaks' = DOMAIN peaks
    BY <1>2, <1>5, <2>1
  <2>3. \A n \in DOMAIN peaks : peaks'[n] = IF n = k THEN peaks[i]
                                          ELSE IF n = i THEN peaks[k] ELSE peaks[n]
    BY <1>2, <1>5
  <2>4. NoDoubles(peaks') BY <1>2, <1>3, <2>2, <2>3 DEF NoDoubles
  <2>5. \A n \in DOMAIN peaks' : Real(peaks'[n]) BY <1>2, <1>3, <2>2, <2>3
  <2>6. \A b : Listed(b) => \E n \in DOMAIN peaks' : peaks'[n].bin = b
    BY <1>2, <2>2, <2>3 DEF Listed
  <2> QED BY <1>1, <2>2, <2>4, <2>5, <2>6, PairRound
<1> QED BY <1>4, <1>5 DEF SortStep

LEMMA SortEndInv == ASSUME DetectInv, SortEnd PROVE DetectInv'
<1>1. /\ stage = "sort" /\ stage' = "merge" /\ i' = 1 /\ k' = 2
      /\ UNCHANGED <<preNoise, cleaned, startBin, j, peaks, out>>
  BY DEF SortEnd, StartPairs
<1>2. out = <<>> BY <1>1 DEF DetectInv, OutInv
<1>3. DetectTypeOK' BY <1>1, <1>2 DEF DetectInv, DetectTypeOK, Peak
<1>4. /\ Found' = Found /\ Searched' = Searched /\ Bins' = Bins
      /\ \A b : LocalPeak(b)' <=> LocalPeak(b)
  BY <1>1, SameSpectrum DEF Bins
<1>5. RealInv' BY <1>1, <1>4 DEF DetectInv, RealInv, Real, NoBin
<1>6. PairInv' BY <1>1, <1>4 DEF DetectInv, PairInv, Listed
<1>7. NoDoubles(peaks)' BY <1>1 DEF DetectInv, NoDoubles, NoBin
<1> QED
  BY <1>1, <1>2, <1>3, <1>5, <1>6, <1>7
  DEF DetectInv, CfarInv, OutInv, CompactInv, ValidInv, LocalPeaksSurvive

\* Of two peaks close to each other a local peak is the one that stays.
LEMMA LocalPeakStays ==
  ASSUME NEW p, NEW q, NEW b \in Found, LocalPeak(b), DetectTypeOK,
         p.bin = b, Real(p), Real(q), Adjacent(p, q) \/ Adjacent(q, p), q.bin # b
  PROVE  q.mag < p.mag
<1>1. b # NoBin /\ q.bin # NoBin BY FoundAreBins DEF Adjacent
<1>2. /\ p.mag = cleaned[b]
      /\ q.bin \in Found /\ q.mag = cleaned[q.bin]
  BY <1>1 DEF Real
<1>3. Dist(b, q.bin) <= MergeBins
  <2>1. b \in Int /\ q.bin \in Int BY <1>2, FoundAreBins DEF Bins
  <2> QED BY <2>1 DEF Adjacent, Dist
<1> QED BY <1>2, <1>3 DEF LocalPeak

\* Two neighbours become one: no bin is doubled, and no local peak lost.
LEMMA MergeStepInv == ASSUME DetectInv, MergeStep PROVE DetectInv'
<1>1. /\ stage = "merge" /\ ~PairsDone /\ NextPair
      /\ UNCHANGED <<stage, preNoise, cleaned, startBin, j, out>>
  BY DEF MergeStep
<1>2. /\ peaks \in Seq(Peak) /\ i \in DOMAIN peaks /\ k \in DOMAIN peaks /\ i # k
      /\ i \in 1 .. Len(peaks) /\ k \in 1 .. Len(peaks) /\ DOMAIN peaks = 1 .. Len(peaks)
  BY <1>1, PairInHand
<1>3. NoDoubles(peaks) /\ \A n \in DOMAIN peaks : Real(peaks[n])
  BY <1>1 DEF DetectInv, RealInv
<1>4. CASE peaks' = peaks BY <1>1, <1>2, <1>3, <1>4, PairRound DEF Listed
<1>5. CASE Adjacent(peaks[i], peaks[k]) /\ peaks' = Joined
  <2> DEFINE kept == Merged(peaks[i], peaks[k])
             gone == [peaks[k] EXCEPT !.bin = NoBin]
  <2>1. peaks[i] \in Peak /\ peaks[k] \in Peak /\ kept \in {peaks[i], peaks[k]}
    BY <1>2 DEF Merged
  <2>2. gone \in Peak /\ gone.bin = NoBin BY <2>1, Sizes DEF Peak
  <2>3. peaks' = [peaks EXCEPT ![i] = kept, ![k] = gone] BY <1>2, <1>5 DEF Joined
  <2> HIDE DEF kept, gone, Peak
  <2>4. peaks' \in Seq(Peak) /\ Len(peaks') = Len(peaks) /\ DOMAIN peaks' = DOMAIN peaks
    BY <1>2, <2>1, <2>2, <2>3
  <2>5. \A n \in DOMAIN peaks : peaks'[n] = IF n = k THEN gone ELSE IF n = i THEN kept ELSE peaks[n]
    BY <1>2, <2>3
  <2>6. NoDoubles(peaks') BY <1>2, <1>3, <2>1, <2>2, <2>4, <2>5 DEF NoDoubles
  <2>7. \A n \in DOMAIN peaks' : Real(peaks'[n])
    BY <1>2, <1>3, <2>1, <2>2, <2>4, <2>5 DEF Real
  <2>8. ASSUME NEW b \in Found, LocalPeak(b), NEW n \in DOMAIN peaks, peaks[n].bin = b
        PROVE  \E m \in DOMAIN peaks' : peaks'[m].bin = b
    <3>0. b # NoBin /\ DetectTypeOK /\ peaks[i].mag \in Int /\ peaks[k].mag \in Int
      BY <2>1, FoundAreBins, Sizes DEF DetectInv, Peak, Powers
    <3>1. CASE n = i
      <4>1. peaks[k].bin # b BY <1>2, <1>3, <2>8, <3>0, <3>1 DEF NoDoubles
      <4>2. peaks[k].mag < peaks[i].mag
        BY <1>2, <1>3, <1>5, <2>8, <3>0, <3>1, <4>1, LocalPeakStays
      <4>3. kept = peaks[i] BY <3>0, <4>2 DEF kept, Merged
      <4> QED BY <1>2, <2>4, <2>5, <2>8, <3>1, <4>3
    <3>2. CASE n = k
      <4>1. peaks[i].bin # b BY <1>2, <1>3, <2>8, <3>0, <3>2 DEF NoDoubles
      <4>2. peaks[i].mag < peaks[k].mag
        BY <1>2, <1>3, <1>5, <2>8, <3>0, <3>2, <4>1, LocalPeakStays
      <4>3. kept = peaks[k] BY <3>0, <4>2 DEF kept, Merged
      <4> QED BY <1>2, <2>4, <2>5, <2>8, <3>2, <4>3
    <3>3. CASE n # i /\ n # k BY <2>4, <2>5, <2>8, <3>3
    <3> QED BY <3>1, <3>2, <3>3
  <2> QED BY <1>1, <2>4, <2>6, <2>7, <2>8, PairRound DEF Listed
<1> QED BY <1>4, <1>5 DEF MergeStep
-----------------------------------------------------------------------------
(***************************************************************************)
(* Writing the list back                                                   *)
(***************************************************************************)
LEMMA MergeEndInv == ASSUME DetectInv, MergeEnd PROVE DetectInv'
<1>1. /\ stage = "merge" /\ stage' = "compact" /\ i' = 1 /\ out' = <<>>
      /\ UNCHANGED <<preNoise, cleaned, startBin, j, peaks, k>>
  BY DEF MergeEnd
<1>2. peaks \in Seq(Peak) /\ DOMAIN peaks = 1 .. Len(peaks) /\ Len(peaks) \in Nat
  BY LenProperties DEF DetectInv, DetectTypeOK
<1>3. DetectTypeOK' BY <1>1 DEF DetectInv, DetectTypeOK, Peak
<1>4. /\ Found' = Found /\ Searched' = Searched /\ Bins' = Bins
      /\ \A b : LocalPeak(b)' <=> LocalPeak(b)
  BY <1>1, SameSpectrum DEF Bins
<1>5. RealInv' BY <1>1, <1>4 DEF DetectInv, RealInv, Real, NoBin
<1>6. OutInv' BY <1>1, <1>2 DEF OutInv, NoDoubles
<1>7. CompactInv' BY <1>1, <1>2, <1>4 DEF DetectInv, PairInv, CompactInv, Listed
<1>8. NoDoubles(peaks)' BY <1>1 DEF DetectInv, NoDoubles, NoBin
<1> QED
  BY <1>1, <1>3, <1>5, <1>6, <1>7, <1>8
  DEF DetectInv, CfarInv, PairInv, ValidInv, LocalPeaksSurvive

\* A round of either loop, which writes the peak back or drops it.
LEMMA ListRound ==
  ASSUME DetectInv, stage \in {"compact", "validate"}, i <= Len(peaks), i' = i + 1,
         UNCHANGED <<stage, preNoise, cleaned, startBin, j, peaks, k>>,
         \/ out' = out
         \/ out' = Append(out, peaks[i]) /\ peaks[i].bin # NoBin
  PROVE  /\ DetectTypeOK' /\ OutInv'
         /\ \A n \in DOMAIN out' : out'[n] = IF n \in DOMAIN out THEN out[n] ELSE peaks[i]
<1>1. /\ peaks \in Seq(Peak) /\ DOMAIN peaks = 1 .. Len(peaks) /\ Len(peaks) \in Nat
      /\ out \in Seq(Peak) /\ DOMAIN out = 1 .. Len(out) /\ Len(out) \in Nat /\ Len(out) < i
      /\ i \in Nat \ {0}
  BY LenProperties DEF DetectInv, DetectTypeOK
<1>2. i \in DOMAIN peaks /\ peaks[i] \in Peak BY <1>1
<1>3. NoDoubles(peaks) /\ NoDoubles(out) /\ \A n \in DOMAIN out :
        out[n].bin # NoBin /\ \E m \in DOMAIN peaks : m < i /\ out[n] = peaks[m]
  BY DEF DetectInv, OutInv
<1> HIDE DEF Peak
<1>4. CASE out' = out
  <2>1. DetectTypeOK' BY <1>1, <1>4 DEF DetectInv, DetectTypeOK, Peak
  <2>2. \A n \in DOMAIN out : \E m \in DOMAIN peaks : m < i + 1 /\ out[n] = peaks[m]
    BY <1>1, <1>3
  <2>3. OutInv' BY <1>1, <1>3, <1>4, <2>2 DEF OutInv, NoDoubles, NoBin
  <2> QED BY <1>4, <2>1, <2>3
<1>5. CASE out' = Append(out, peaks[i]) /\ peaks[i].bin # NoBin
  <2>1. /\ out' \in Seq(Peak) /\ Len(out') = Len(out) + 1 /\ DOMAIN out' = 1 .. Len(out) + 1
        /\ \A n \in 1 .. Len(out) : out'[n] = out[n]
        /\ out'[Len(out) + 1] = peaks[i]
    BY <1>1, <1>2, <1>5, Appended
  <2>2. \A n \in DOMAIN out' : out'[n] = IF n \in DOMAIN out THEN out[n] ELSE peaks[i]
    BY <1>1, <2>1
  <2>3. DetectTypeOK'
    <3>1. Len(out') < i' BY <1>1, <2>1
    <3> QED BY <1>1, <2>1, <3>1 DEF DetectInv, DetectTypeOK, Peak
  <2>4. \A n \in DOMAIN out' :
          out'[n].bin # NoBin /\ \E m \in DOMAIN peaks : m < i + 1 /\ out'[n] = peaks[m]
    <3> SUFFICES ASSUME NEW n \in DOMAIN out'
                 PROVE  out'[n].bin # NoBin
                        /\ \E m \in DOMAIN peaks : m < i + 1 /\ out'[n] = peaks[m]
      OBVIOUS
    <3>1. CASE n \in DOMAIN out BY <1>1, <1>3, <2>2, <3>1
    <3>2. CASE n \notin DOMAIN out
      <4>1. out'[n] = peaks[i] BY <2>2, <3>2
      <4>2. i \in DOMAIN peaks /\ i < i + 1 BY <1>1, <1>2
      <4> QED BY <1>5, <4>1, <4>2
    <3> QED BY <3>1, <3>2
  <2>5. \A n \in DOMAIN out : out[n].bin # peaks[i].bin
    <3> SUFFICES ASSUME NEW n \in DOMAIN out PROVE out[n].bin # peaks[i].bin OBVIOUS
    <3>1. PICK m \in DOMAIN peaks : m < i /\ out[n] = peaks[m] BY <1>3
    <3>2. m # i BY <1>1, <3>1
    <3> QED BY <1>2, <1>3, <1>5, <3>1, <3>2 DEF NoDoubles
  <2>6. NoDoubles(out') BY <1>1, <1>3, <2>1, <2>2, <2>5 DEF NoDoubles
  <2>7. OutInv'
    <3>1. NoDoubles(out)' BY <2>6 DEF NoDoubles, NoBin
    <3>2. i' <= Len(peaks') + 1 BY <1>1
    <3> QED BY <2>4, <3>1, <3>2 DEF OutInv, NoBin
  <2> QED BY <2>2, <2>3, <2>7
<1> QED BY <1>4, <1>5

LEMMA CompactStepInv == ASSUME DetectInv, CompactStep PROVE DetectInv'
<1>1. /\ stage = "compact" /\ i <= Len(peaks) /\ i' = i + 1
      /\ UNCHANGED <<stage, preNoise, cleaned, startBin, j, peaks, k>>
      /\ out' = IF peaks[i].bin # NoBin THEN Append(out, peaks[i]) ELSE out
  BY DEF CompactStep
<1>2. DetectTypeOK' /\ OutInv' BY <1>1, ListRound
<1>3. /\ Found' = Found /\ Searched' = Searched /\ Bins' = Bins
      /\ \A b : LocalPeak(b)' <=> LocalPeak(b)
  BY <1>1, SameSpectrum DEF Bins
<1>4. RealInv' BY <1>1, <1>3 DEF DetectInv, RealInv, Real, NoBin
<1>5. NoDoubles(peaks)' BY <1>1 DEF DetectInv, NoDoubles, NoBin
<1>6. CompactInv'
  <2>1. SUFFICES ASSUME Cardinality(Found) <= MaxPeaks, NEW b \in Bins, LocalPeak(b)
                 PROVE  \/ \E n \in DOMAIN out' : out'[n].bin = b
                        \/ \E m \in DOMAIN peaks : m >= i + 1 /\ peaks[m].bin = b
    BY <1>1, <1>3 DEF CompactInv
  <2>2. /\ peaks \in Seq(Peak) /\ DOMAIN peaks = 1 .. Len(peaks) /\ Len(peaks) \in Nat
        /\ out \in Seq(Peak) /\ i \in Nat \ {0} /\ DetectTypeOK
    BY LenProperties DEF DetectInv, DetectTypeOK
  <2>3. b # NoBin BY Sizes
  <2>4. peaks[i] \in Peak BY <1>1, <2>2
  <2> HIDE DEF Peak
  <2>5. CASE \E n \in DOMAIN out : out[n].bin = b
    <3>1. \A n \in DOMAIN out : n \in DOMAIN out' /\ out'[n] = out[n]
      BY <1>1, <2>2, <2>4, Appended
    <3> QED BY <2>5, <3>1
  <2>6. CASE \E m \in DOMAIN peaks : m >= i /\ peaks[m].bin = b
    <3>1. PICK m \in DOMAIN peaks : m >= i /\ peaks[m].bin = b BY <2>6
    <3>2. CASE m = i
      <4>1. out' = Append(out, peaks[i]) BY <1>1, <2>3, <3>1, <3>2
      <4> QED BY <2>2, <2>4, <3>1, <3>2, <4>1, Appended
    <3>3. CASE m # i BY <2>2, <3>1, <3>3
    <3> QED BY <3>2, <3>3
  <2> QED BY <1>1, <2>1, <2>5, <2>6 DEF DetectInv, CompactInv
<1> QED
  BY <1>1, <1>2, <1>4, <1>5, <1>6
  DEF DetectInv, CfarInv, PairInv, ValidInv, LocalPeaksSurvive

LEMMA ValidateStepInv == ASSUME DetectInv, ValidateStep PROVE DetectInv'
<1>1. /\ stage = "validate" /\ i <= Len(peaks) /\ i' = i + 1
      /\ UNCHANGED <<stage, preNoise, cleaned, startBin, j, peaks, k>>
      /\ \/ out' = out
         \/ out' = Append(out, peaks[i]) /\ peaks[i].bin # NoBin /\ peaks[i].mag # 0
  BY DEF ValidateStep, Valid
<1>2. /\ DetectTypeOK' /\ OutInv'
      /\ \A n \in DOMAIN out' : out'[n] = IF n \in DOMAIN out THEN out[n] ELSE peaks[i]
  BY <1>1, ListRound
<1>3. /\ Found' = Found /\ Searched' = Searched /\ Bins' = Bins
      /\ \A b : LocalPeak(b)' <=> LocalPeak(b)
  BY <1>1, SameSpectrum DEF Bins
<1>4. RealInv' BY <1>1, <1>3 DEF DetectInv, RealInv, Real, NoBin
<1>5. NoDoubles(peaks)' BY <1>1 DEF DetectInv, NoDoubles, NoBin
<1>6. ValidInv'
  <2>1. \A n \in DOMAIN out : out[n].mag # 0 BY <1>1 DEF DetectInv, ValidInv
  <2>2. CASE out' = out BY <1>1, <2>1, <2>2 DEF ValidInv
  <2>3. CASE peaks[i].mag # 0 BY <1>1, <1>2, <2>1, <2>3 DEF ValidInv
  <2> QED BY <1>1, <2>2, <2>3
<1>7. LocalPeaksSurvive' BY <1>1, <1>3 DEF DetectInv, LocalPeaksSurvive
<1> QED
  BY <1>1, <1>2, <1>4, <1>5, <1>6, <1>7 DEF DetectInv, CfarInv, PairInv, CompactInv

\* The list becomes what the loop wrote.
LEMMA ListEndTypes ==
  ASSUME DetectInv, stage \in {"compact", "validate"}, NEW next, ListEnd(next),
         next \in {"validate", "ready"}
  PROVE  /\ DetectTypeOK' /\ NoDoubles(peaks)' /\ OutInv' /\ RealInv'
         /\ i > Len(peaks)
<1>1. /\ i > Len(peaks) /\ stage' = next /\ peaks' = out /\ i' = 1 /\ out' = <<>>
      /\ UNCHANGED <<preNoise, cleaned, startBin, j, k>>
  BY DEF ListEnd, Rewritten
<1>2. /\ peaks \in Seq(Peak) /\ Len(peaks) \in Nat /\ i \in Nat /\ Len(peaks) <= MaxPeaks
      /\ out \in Seq(Peak) /\ Len(out) \in Nat /\ Len(out) < i /\ i <= Len(peaks) + 1
      /\ DOMAIN out = 1 .. Len(out)
  BY LenProperties DEF DetectInv, DetectTypeOK, OutInv
<1>3. NoDoubles(out) /\ \A n \in DOMAIN out :
        out[n].bin # NoBin /\ \E m \in DOMAIN peaks : m < i /\ out[n] = peaks[m]
  BY DEF DetectInv, OutInv
<1>4. DetectTypeOK'
  <2>1. Len(peaks') <= MaxPeaks BY <1>1, <1>2, Sizes
  <2> QED BY <1>1, <1>2, <2>1 DEF DetectInv, DetectTypeOK, Peak
<1>5. NoDoubles(peaks)' BY <1>1, <1>3 DEF NoDoubles, NoBin
<1>6. OutInv'
  <2>1. Len(peaks') \in Nat BY <1>1, <1>2
  <2> QED BY <1>1, <2>1 DEF OutInv, NoDoubles
<1>7. Found' = Found /\ Searched' = Searched BY <1>1, SameSpectrum
<1>8. \A n \in DOMAIN out : Real(out[n])
  <2>1. \A m \in DOMAIN peaks : Real(peaks[m]) BY DEF DetectInv, RealInv
  <2> QED BY <1>3, <2>1
<1>9. RealInv' BY <1>1, <1>7, <1>8 DEF RealInv, Real, NoBin
<1> QED BY <1>1, <1>4, <1>5, <1>6, <1>9

LEMMA CompactEndInv == ASSUME DetectInv, CompactEnd PROVE DetectInv'
<1>1. stage = "compact" /\ ListEnd("validate") BY DEF CompactEnd
<1>2. /\ DetectTypeOK' /\ NoDoubles(peaks)' /\ OutInv' /\ RealInv' /\ i > Len(peaks)
  BY <1>1, ListEndTypes
<1>3. stage' = "validate" /\ peaks' = out /\ out' = <<>> /\ UNCHANGED <<cleaned, startBin>>
  BY <1>1 DEF ListEnd, Rewritten
<1>4. Found' = Found /\ Bins' = Bins /\ \A b : LocalPeak(b)' <=> LocalPeak(b)
  BY <1>3, SameSpectrum DEF Bins
<1>5. DOMAIN peaks = 1 .. Len(peaks) /\ Len(peaks) \in Nat /\ i \in Nat
  BY LenProperties DEF DetectInv, DetectTypeOK
<1>6. LocalPeaksSurvive'
  BY <1>1, <1>2, <1>3, <1>4, <1>5 DEF DetectInv, CompactInv, LocalPeaksSurvive
<1> QED
  BY <1>2, <1>3, <1>6 DEF DetectInv, CfarInv, PairInv, CompactInv, ValidInv

LEMMA ValidateEndInv == ASSUME DetectInv, ValidateEnd PROVE DetectInv'
<1>1. stage = "validate" /\ ListEnd("ready") BY DEF ValidateEnd
<1>2. DetectTypeOK' /\ NoDoubles(peaks)' /\ OutInv' /\ RealInv' BY <1>1, ListEndTypes
<1>3. stage' = "ready" /\ peaks' = out BY <1>1 DEF ListEnd, Rewritten
<1>4. ValidInv' BY <1>1, <1>3 DEF DetectInv, OutInv, ValidInv, NoBin
<1> QED
  BY <1>2, <1>3, <1>4 DEF DetectInv, CfarInv, PairInv, CompactInv, LocalPeaksSurvive

LEMMA ReturnInv == ASSUME DetectInv, Return PROVE DetectInv'
<1>1. stage = "ready" /\ stage' = "idle"
      /\ UNCHANGED <<preNoise, cleaned, startBin, j, peaks, i, k, out>>
  BY DEF Return
<1>2. DetectTypeOK' /\ NoDoubles(peaks)'
  BY <1>1 DEF DetectInv, DetectTypeOK, Peak, NoDoubles, NoBin
<1> QED
  BY <1>1, <1>2
  DEF DetectInv, CfarInv, RealInv, PairInv, OutInv, CompactInv, ValidInv, LocalPeaksSurvive

LEMMA SameInv == ASSUME DetectInv, UNCHANGED detectVars PROVE DetectInv'
<1>1. UNCHANGED <<stage, preNoise, cleaned, startBin, j, peaks, i, k, out>> BY DEF detectVars
<1>2. DetectTypeOK' /\ NoDoubles(peaks)'
  BY <1>1 DEF DetectInv, DetectTypeOK, Peak, NoDoubles, NoBin
<1>3. /\ Found' = Found /\ Searched' = Searched /\ Bins' = Bins /\ FirstTested' = FirstTested
      /\ FoundBelow(j)' = FoundBelow(j) /\ \A b : LocalPeak(b)' <=> LocalPeak(b)
  BY <1>1, SameSpectrum DEF Bins, FoundBelow
<1>4. CfarInv' BY <1>1, <1>3 DEF DetectInv, CfarInv, Listed
<1>5. RealInv' BY <1>1, <1>3 DEF DetectInv, RealInv, Real, NoBin
<1>6. PairInv' /\ CompactInv' /\ LocalPeaksSurvive'
  BY <1>1, <1>3 DEF DetectInv, PairInv, CompactInv, LocalPeaksSurvive, Listed
<1>7. OutInv' /\ ValidInv' BY <1>1 DEF DetectInv, OutInv, ValidInv, NoDoubles, NoBin
<1> QED BY <1>2, <1>4, <1>5, <1>6, <1>7 DEF DetectInv

LEMMA DetectStepInv == DetectInv /\ DetectStep => DetectInv'
BY CfarStepInv, CfarEndInv, SortStepInv, SortEndInv, MergeStepInv, MergeEndInv,
   CompactStepInv, CompactEndInv, ValidateStepInv, ValidateEndInv
DEF DetectStep
-----------------------------------------------------------------------------
(***************************************************************************)
(* Around the detector                                                     *)
(***************************************************************************)
LEMMA RangeSizes ==
  /\ ScanTotal \in Nat \ {0} /\ Decay \in Nat \ {0}
  /\ PhysicsNear \in Nat /\ BoundaryMax \in Nat /\ BoundaryMargin \in Nat
  /\ PhysicsNear <= BoundaryMax /\ BoundaryMax < HalfSize
  /\ \A n \in 1 .. MaxScans : Spectra[n] \subseteq [Bins -> Powers]
  /\ MaxScans \in Nat
BY RangeAssumption, LenProperties DEF MaxScans

\* Wherever the clutter has decayed, the near field ends within its limits.
LEMMA BoundaryInLimits ==
  ASSUME NEW mean PROVE FindBoundary(mean) \in PhysicsNear .. BoundaryMax
<1>1. ASSUME NEW b \in Nat PROVE Clamped(b) \in PhysicsNear .. BoundaryMax
  BY RangeSizes DEF Clamped, Larger
<1>2. ASSUME NEW Q \in SUBSET (PhysicsNear .. HalfSize - 1), Q # {} PROVE Min(Q) \in Nat
  <2>1. Q \in SUBSET Nat BY RangeSizes
  <2>2. Min(Q) \in Q BY <2>1, <1>2, Least DEF Min
  <2> QED BY <2>1, <2>2
<1> DEFINE peak  == Best(mean, 0 .. CouplingBins - 1)
           quiet == {b \in PhysicsNear .. HalfSize - 1 : mean[b] < Larger(peak \div Decay, 1)}
           b     == BoundaryMargin + (IF quiet = {} THEN PhysicsNear ELSE Min(quiet))
<1>3. FindBoundary(mean) = IF peak = 0 THEN PhysicsNear ELSE Clamped(b) BY DEF FindBoundary
<1>4. b \in Nat
  <2>1. quiet \in SUBSET (PhysicsNear .. HalfSize - 1) OBVIOUS
  <2> HIDE DEF quiet
  <2>2. CASE quiet = {} BY <2>2, RangeSizes
  <2>3. CASE quiet # {}
    <3>1. Min(quiet) \in Nat BY <1>2, <2>1, <2>3
    <3> QED BY <2>3, <3>1, RangeSizes
  <2> QED BY <2>2, <2>3
<1> HIDE DEF peak, b
<1> QED BY <1>1, <1>3, <1>4, RangeSizes

LEMMA SumType ==
  ASSUME NEW s \in [Bins -> Nat], NEW t \in [Bins -> Nat] PROVE Plus(s, t) \in [Bins -> Nat]
BY DEF Plus

LEMMA SilenceType == Silence \in [Bins -> Nat] /\ Silence \in [Bins -> Powers]
BY Sizes DEF Silence, Powers

LEMMA PowersAreNat == ASSUME NEW s \in [Bins -> Powers] PROVE s \in [Bins -> Nat]
BY Sizes DEF Powers

\* The mean of the clean frames' spectra.
LEMMA MeanType ==
  ASSUME clutter_sum \in [Bins -> Nat], clutter_mean \in [Bins -> Nat], clean_frames \in Nat
  PROVE  ComputedMean \in [Bins -> Nat]
<1>1. CASE clean_frames = 0 BY <1>1 DEF ComputedMean
<1>2. CASE clean_frames # 0
  <2>1. \A b \in Bins : clutter_sum[b] \div clean_frames \in Nat BY <1>2
  <2> QED BY <1>2, <2>1 DEF ComputedMean
<1> QED BY <1>1, <1>2

LEMMA WithoutClutterType ==
  ASSUME NEW s \in [Bins -> Powers], NEW mean \in [Bins -> Nat]
  PROVE  WithoutClutter(s, mean) \in [Bins -> Powers]
BY MinusPower DEF WithoutClutter

\* A validated peak lies past the start of the search, and is the only one at
\* its bin.
LEMMA ReadyPeaks ==
  ASSUME DetectInv, stage = "ready", NEW b \in Bins
  PROVE  /\ Cardinality(PeaksAt(b)) \in {0, 1}
         /\ Cardinality(PeaksAt(b)) # 0 => b >= startBin
<1>1. CASE PeaksAt(b) = {} BY <1>1, FS_EmptySet
<1>2. CASE PeaksAt(b) # {}
  <2>1. PICK n \in DOMAIN peaks : peaks[n].bin = b BY <1>2 DEF PeaksAt
  <2>2. b # NoBin BY Sizes
  <2>3. PeaksAt(b) = {n} BY <2>1, <2>2 DEF PeaksAt, DetectInv, NoDoubles
  <2>4. Real(peaks[n]) /\ peaks[n].mag # 0 BY <2>1 DEF DetectInv, RealInv, ValidInv
  <2>5. b \in Found \/ b \in Searched BY <2>1, <2>2, <2>4 DEF Real
  <2>6. b >= startBin
    <3>1. CASE b \in Found
      <4>1. DetectTypeOK BY DEF DetectInv
      <4>2. startBin <= b BY <3>1, <4>1, FoundAreBins
      <4>3. startBin \in Nat /\ b \in Nat BY <4>1 DEF DetectTypeOK, Bins
      <4> QED BY <4>2, <4>3
    <3>2. CASE b \in Searched
      BY <3>2, Sizes DEF Searched, DetectInv, DetectTypeOK
    <3> QED BY <2>5, <3>1, <3>2
  <2> QED BY <2>3, <2>6, FS_Singleton
<1> QED BY <1>1, <1>2
-----------------------------------------------------------------------------
(***************************************************************************)
(* The steps of the scan                                                   *)
(***************************************************************************)
LEMMA InitInvariant == Init => IInv
<1> SUFFICES ASSUME Init PROVE IInv OBVIOUS
<1>1. DetectInv BY InitDetect DEF Init
<1>2. rpa_nf \in [Bins -> 0 .. analyzed_frames * Word]
  BY Sizes DEF Init, Silence
<1>3. TypeOK
  <2>1. spectrum \in [Frames -> [Bins -> Powers]] /\ peak_store \in [Frames -> Powers]
    BY SilenceType, Sizes DEF Init, Powers
  <2> QED BY <1>1, <1>2, <2>1, SilenceType, RangeSizes, Sizes DEF Init, TypeOK, DetectInv, NoSummary
<1>4. stage = "idle" BY DEF Init, DetectInit
<1>5. LoopInv /\ PastNearField BY <1>4 DEF Init, LoopInv, PastNearField, Silence, NoSummary
<1> QED BY <1>1, <1>3, <1>5 DEF IInv

LEMMA StartScanStep == ASSUME IInv, StartScan PROVE IInv'
<1>1. /\ phase' = "fft" /\ scans' = scans + 1 /\ scans < MaxScans /\ frame_idx' = 0
      /\ frame_saturated' = {} /\ clutter_sum' = Silence /\ clutter_mean' = Silence
      /\ clean_frames' = 0 /\ pass2_frames' = 0 /\ analyzed_frames' = 0
      /\ rpa_raw' = Silence /\ rpa_nf' = Silence /\ cfar_hist' = Silence
      /\ summary' = NoSummary /\ phase = "idle"
      /\ UNCHANGED <<spectrum, near_field_bins, peak_store, detectVars>>
  BY DEF StartScan, ClearedProfile
<1>2. DetectInv' BY <1>1, SameInv DEF IInv
<1>3. stage' = "idle" BY <1>1 DEF IInv, LoopInv, detectVars
<1>4. TypeOK'
  <2>1. rpa_nf' \in [Bins -> 0 .. analyzed_frames' * Word] BY <1>1, Sizes DEF Silence
  <2>2. scans' \in 0 .. MaxScans BY <1>1, RangeSizes DEF IInv, TypeOK
  <2>3. /\ {summary'.valid, summary'.confirmed, summary'.degraded} \subseteq BOOLEAN
        /\ summary'.bin \in Bins
    BY <1>1, Sizes DEF NoSummary
  <2>4. /\ clutter_sum' \in [Bins -> Nat] /\ clutter_mean' \in [Bins -> Nat]
        /\ rpa_raw' \in [Bins -> Nat] /\ cfar_hist' \in [Bins -> Nat]
    BY <1>1, SilenceType
  <2>5. /\ frame_idx' \in 0 .. ScanTotal /\ pass2_frames' \in 0 .. ScanTotal
        /\ clean_frames' \in Nat /\ analyzed_frames' \in Nat /\ frame_saturated' \subseteq Frames
    BY <1>1, RangeSizes
  <2>6. UNCHANGED <<spectrum, near_field_bins, peak_store>> /\ phase' = "fft" BY <1>1
  <2> QED
    BY <1>2, <2>1, <2>2, <2>3, <2>4, <2>5, <2>6
    DEF IInv, TypeOK, DetectInv, MaxScans, Frames, Bins, Powers
<1>5. LoopInv' /\ PastNearField'
  BY <1>1, <1>3 DEF IInv, TypeOK, LoopInv, PastNearField, Silence, Bins
<1> QED BY <1>2, <1>4, <1>5 DEF IInv

LEMMA FftFrameStep == ASSUME IInv, FftFrame PROVE IInv'
<1>1. /\ phase = "fft" /\ frame_idx < ScanTotal /\ frame_idx' = frame_idx + 1
      /\ UNCHANGED <<phase, scans, clutter_mean, near_field_bins, pass2_frames,
                     analyzed_frames, rpa_raw, rpa_nf, cfar_hist, peak_store, summary,
                     detectVars>>
  BY DEF FftFrame, resultVars
<1>2. PICK s \in Spectra[scans] :
        /\ spectrum' = [spectrum EXCEPT ![frame_idx] = s]
        /\ \/ /\ frame_saturated' = frame_saturated \union {frame_idx}
              /\ UNCHANGED <<clutter_sum, clean_frames>>
           \/ /\ clutter_sum' = Plus(clutter_sum, s) /\ clean_frames' = clean_frames + 1
              /\ UNCHANGED frame_saturated
  BY DEF FftFrame
<1>3. DetectInv' BY <1>1, SameInv DEF IInv
<1>4. stage' = stage /\ stage = "idle" BY <1>1 DEF IInv, LoopInv, detectVars
<1>5. s \in [Bins -> Powers] /\ frame_idx \in Frames
  <2>1. scans \in 1 .. MaxScans BY <1>1, RangeSizes DEF IInv, TypeOK, LoopInv
  <2>2. frame_idx \in Frames BY <1>1, RangeSizes DEF IInv, TypeOK, Frames
  <2> QED BY <1>2, <2>1, <2>2, RangeSizes
<1>6. TypeOK'
  <2>1. spectrum' \in [Frames -> [Bins -> Powers]] BY <1>2, <1>5 DEF IInv, TypeOK
  <2>2. /\ clutter_sum' \in [Bins -> Nat] /\ clean_frames' \in Nat
        /\ frame_saturated' \subseteq Frames
    BY <1>2, <1>5, SumType, PowersAreNat DEF IInv, TypeOK
  <2>3. frame_idx' \in 0 .. ScanTotal BY <1>1, RangeSizes DEF IInv, TypeOK
  <2> QED
    BY <1>1, <1>3, <2>1, <2>2, <2>3
    DEF IInv, TypeOK, DetectInv, MaxScans, Frames, Bins, Powers
<1>7. LoopInv' /\ PastNearField' BY <1>1, <1>4 DEF IInv, LoopInv, PastNearField, Bins
<1> QED BY <1>3, <1>6, <1>7 DEF IInv

\* The near field moves while no bin is counted and no frame is in the detector.
LEMMA ModelClutterStep == ASSUME IInv, ModelClutter PROVE IInv'
<1>1. /\ phase = "fft" /\ phase' = "range" /\ clutter_mean' = ComputedMean
      /\ near_field_bins' = NearFieldSet(FindBoundary(ComputedMean))
      /\ pass2_frames' = frame_idx /\ analyzed_frames' = 0 /\ frame_idx' = 0
      /\ UNCHANGED <<scans, spectrum, frame_saturated, clutter_sum, clean_frames, rpa_raw,
                     rpa_nf, cfar_hist, peak_store, summary, detectVars>>
  BY DEF ModelClutter, resultVars
<1>2. DetectInv' BY <1>1, SameInv DEF IInv
<1>3. stage' = stage /\ stage = "idle" BY <1>1 DEF IInv, LoopInv, detectVars
<1>4. near_field_bins' \in PhysicsNear .. BoundaryMax
  BY <1>1, BoundaryInLimits, RangeSizes, Sizes DEF NearFieldSet
<1>5. clutter_mean' \in [Bins -> Nat] BY <1>1, MeanType DEF IInv, TypeOK
<1>6. TypeOK'
  <2>1. rpa_nf' = rpa_nf /\ analyzed_frames' = analyzed_frames BY <1>1 DEF IInv, LoopInv
  <2>2. (rpa_nf \in [Bins -> 0 .. analyzed_frames * Word])' BY <2>1 DEF IInv, TypeOK, Bins
  <2>3. /\ frame_idx' \in 0 .. ScanTotal /\ pass2_frames' \in 0 .. ScanTotal
        /\ analyzed_frames' \in Nat /\ phase' = "range"
    BY <1>1, RangeSizes DEF IInv, TypeOK
  <2>4. UNCHANGED <<scans, spectrum, frame_saturated, clutter_sum, clean_frames, rpa_raw,
                    cfar_hist, peak_store, summary>>
    BY <1>1
  <2> QED
    BY <1>2, <1>4, <1>5, <2>2, <2>3, <2>4
    DEF IInv, TypeOK, DetectInv, MaxScans, Frames, Bins, Powers
<1>7. LoopInv' /\ PastNearField' BY <1>1, <1>3 DEF IInv, LoopInv, PastNearField, Bins
<1> QED BY <1>2, <1>6, <1>7 DEF IInv
LEMMA SkipSaturatedStep == ASSUME IInv, SkipSaturated PROVE IInv'
<1>1. /\ phase = "range" /\ stage = "idle" /\ frame_idx < pass2_frames
      /\ peak_store' = [peak_store EXCEPT ![frame_idx] = NoBin]
      /\ frame_idx' = frame_idx + 1
      /\ UNCHANGED <<phase, scans, storeVars, near_field_bins, pass2_frames, analyzed_frames,
                     rpa_raw, rpa_nf, cfar_hist, summary, detectVars>>
  BY DEF SkipSaturated
<1>2. DetectInv' BY <1>1, SameInv DEF IInv
<1>3. stage' = stage BY <1>1 DEF detectVars
<1>4. TypeOK'
  <2>1. peak_store' \in [Frames -> Powers] BY <1>1, Sizes DEF IInv, TypeOK
  <2>2. frame_idx' \in 0 .. ScanTotal BY <1>1, RangeSizes DEF IInv, TypeOK
  <2>3. (rpa_nf \in [Bins -> 0 .. analyzed_frames * Word])' BY <1>1 DEF IInv, TypeOK, Bins
  <2>4. UNCHANGED <<phase, scans, storeVars, near_field_bins, pass2_frames, analyzed_frames,
                    rpa_raw, cfar_hist, summary>>
    BY <1>1
  <2> QED
    BY <1>2, <2>1, <2>2, <2>3, <2>4
    DEF IInv, TypeOK, DetectInv, storeVars, MaxScans, Frames, Bins, Powers
<1>5. LoopInv' /\ PastNearField' BY <1>1, <1>3 DEF IInv, LoopInv, PastNearField, Bins
<1> QED BY <1>2, <1>4, <1>5 DEF IInv

\* Both profiles take the frame, and it is counted as analysed.
LEMMA LoadFrameStep == ASSUME IInv, LoadFrame PROVE IInv'
<1> DEFINE pre == WithoutClutter(spectrum[frame_idx], clutter_mean)
<1>1. /\ phase = "range" /\ frame_idx < pass2_frames /\ Begin(pre, near_field_bins)
      /\ rpa_raw' = Plus(rpa_raw, pre) /\ rpa_nf' = Plus(rpa_nf, NoiseFloor(pre))
      /\ analyzed_frames' = analyzed_frames + 1
      /\ UNCHANGED <<phase, scans, frame_idx, storeVars, near_field_bins, pass2_frames,
                     cfar_hist, peak_store, summary>>
  BY DEF LoadFrame
<1>2. pre \in [Bins -> Powers]
  <2>1. frame_idx \in Frames BY <1>1, RangeSizes DEF IInv, TypeOK, Frames
  <2> QED BY <2>1, WithoutClutterType DEF IInv, TypeOK
<1>3. near_field_bins \in Nat BY RangeSizes DEF IInv, TypeOK
<1> HIDE DEF pre
<1>4. DetectInv' BY <1>1, <1>2, <1>3, BeginStep DEF IInv
<1>5. stage = "idle" /\ stage' = "cfar" /\ startBin' = CfarStart(near_field_bins)
  BY <1>1 DEF Begin
<1>6. TypeOK'
  <2>1. rpa_raw' \in [Bins -> Nat] BY <1>1, <1>2, PowersAreNat, SumType DEF IInv, TypeOK
  <2>2. rpa_nf' \in [Bins -> 0 .. analyzed_frames' * Word]
    <3> DEFINE floor == NoiseFloor(pre)
               bound == analyzed_frames * Word
    <3>1. floor \in [Bins -> Powers] BY <1>2, NoiseFloorType
    <3>2. bound \in Nat /\ (analyzed_frames + 1) * Word = bound + Word
      BY Sizes DEF IInv, TypeOK
    <3>3. rpa_nf \in [Bins -> 0 .. bound] BY DEF IInv, TypeOK
    <3> HIDE DEF floor, bound
    <3>4. \A b \in Bins : rpa_nf[b] + floor[b] \in 0 .. bound + Word
      BY <3>1, <3>2, <3>3, Sizes DEF Powers
    <3>5. Plus(rpa_nf, floor) \in [Bins -> 0 .. bound + Word] BY <3>4 DEF Plus
    <3> QED BY <1>1, <3>2, <3>5 DEF floor
  <2>3. (rpa_nf \in [Bins -> 0 .. analyzed_frames * Word])' BY <2>2 DEF Bins
  <2>4. analyzed_frames' \in Nat BY <1>1 DEF IInv, TypeOK
  <2>5. UNCHANGED <<phase, scans, frame_idx, storeVars, near_field_bins, pass2_frames,
                    cfar_hist, peak_store, summary>>
    BY <1>1
  <2> QED
    BY <1>4, <2>1, <2>3, <2>4, <2>5
    DEF IInv, TypeOK, DetectInv, storeVars, MaxScans, Frames, Bins, Powers
<1>7. LoopInv'
  <2>1. \A b \in Bins : cfar_hist[b] < analyzed_frames + 1 BY DEF IInv, TypeOK, LoopInv
  <2>2. \A b \in Bins : cfar_hist[b] \in Nat /\ cfar_hist[b] <= analyzed_frames
    BY DEF IInv, TypeOK, LoopInv
  <2>3. analyzed_frames \in Nat /\ analyzed_frames' = analyzed_frames + 1 /\ scans > 0
    BY <1>1 DEF IInv, TypeOK, LoopInv
  <2>4. Bins' = Bins /\ cfar_hist' = cfar_hist /\ scans' = scans /\ phase' = "range"
        /\ frame_idx' < pass2_frames'
    BY <1>1 DEF Bins
  <2>5. startBin' = CfarStart(near_field_bins)' BY <1>1, <1>5 DEF CfarStart
  <2> QED BY <1>5, <2>1, <2>2, <2>3, <2>4, <2>5 DEF LoopInv
<1>8. PastNearField' BY <1>1 DEF IInv, PastNearField, Bins, CfarStart
<1> QED BY <1>4, <1>6, <1>7, <1>8 DEF IInv

LEMMA DetectScanStep == ASSUME IInv, Detect PROVE IInv'
<1>1. DetectStep /\ UNCHANGED scanVars BY DEF Detect
<1>2. DetectInv' BY <1>1, DetectStepInv DEF IInv
<1>3. UNCHANGED <<phase, scans, frame_idx, storeVars, near_field_bins, pass2_frames,
                  analyzed_frames, rpa_raw, rpa_nf, cfar_hist, peak_store, summary>>
  BY <1>1 DEF scanVars, resultVars
<1>4. stage # "idle" /\ UNCHANGED startBin
  BY <1>1 DEF DetectStep, CfarStep, CfarEnd, SortStep, SortEnd, MergeStep, MergeEnd, CompactStep,
     CompactEnd, ValidateStep, ValidateEnd, ListEnd
<1>5. TypeOK'
  BY <1>2, <1>3 DEF IInv, TypeOK, DetectInv, storeVars, MaxScans, Frames, Bins, Powers
<1>6. LoopInv' /\ PastNearField'
  BY <1>3, <1>4 DEF IInv, LoopInv, PastNearField, Bins, CfarStart
<1> QED BY <1>2, <1>5, <1>6 DEF IInv

\* A frame adds at most one to a bin, since no two of its peaks share one.
LEMMA CountPeaksStep == ASSUME IInv, CountPeaks PROVE IInv'
<1>1. /\ phase = "range" /\ Return /\ stage = "ready" /\ stage' = "idle"
      /\ peak_store' = [peak_store EXCEPT ![frame_idx] = FrameBin]
      /\ cfar_hist' = [b \in Bins |-> cfar_hist[b] + Cardinality(PeaksAt(b))]
      /\ frame_idx' = frame_idx + 1
      /\ UNCHANGED <<phase, scans, storeVars, near_field_bins, pass2_frames, analyzed_frames,
                     rpa_raw, rpa_nf, summary>>
  BY DEF CountPeaks, Return
<1>2. DetectInv' BY <1>1, ReturnInv DEF IInv
<1>3. /\ frame_idx < pass2_frames /\ startBin = CfarStart(near_field_bins)
      /\ \A b \in Bins : cfar_hist[b] < analyzed_frames
  BY <1>1 DEF IInv, LoopInv
<1>4. \A b \in Bins : /\ Cardinality(PeaksAt(b)) \in {0, 1}
                      /\ Cardinality(PeaksAt(b)) # 0 => b >= startBin
  BY <1>1, ReadyPeaks DEF IInv
<1>5. cfar_hist \in [Bins -> Nat] BY DEF IInv, TypeOK
<1>6. TypeOK'
  <2>1. cfar_hist' \in [Bins -> Nat] BY <1>1, <1>4, <1>5
  <2>2. FrameBin \in Powers
    <3>1. CASE peaks # <<>>
      <4>1. peaks[1] \in Peak BY <3>1 DEF IInv, DetectInv, DetectTypeOK
      <4>2. peaks[1].bin \in Powers BY <4>1 DEF Peak
      <4> QED BY <3>1, <4>2 DEF FrameBin
    <3>2. CASE peaks = <<>>
      <4>1. Searched \in SUBSET Bins /\ cleaned \in [Bins -> Powers]
        BY FoundAreBins DEF IInv, DetectInv, DetectTypeOK
      <4>2. FirstMax(cleaned, Searched) \in Powers BY <4>1, BestIsPower, Sizes
      <4> QED BY <3>2, <4>2 DEF FrameBin
    <3> QED BY <3>1, <3>2
  <2>3. peak_store' \in [Frames -> Powers] BY <1>1, <2>2 DEF IInv, TypeOK
  <2>4. frame_idx' \in 0 .. ScanTotal BY <1>1, <1>3, RangeSizes DEF IInv, TypeOK
  <2>5. (rpa_nf \in [Bins -> 0 .. analyzed_frames * Word])' BY <1>1 DEF IInv, TypeOK, Bins
  <2>6. UNCHANGED <<phase, scans, storeVars, near_field_bins, pass2_frames, analyzed_frames,
                    rpa_raw, summary>>
    BY <1>1
  <2> QED
    BY <1>2, <2>1, <2>3, <2>4, <2>5, <2>6
    DEF IInv, TypeOK, DetectInv, storeVars, MaxScans, Frames, Bins, Powers
<1>7. LoopInv'
  <2>1. \A b \in Bins : cfar_hist'[b] <= analyzed_frames
    <3> SUFFICES ASSUME NEW b \in Bins PROVE cfar_hist'[b] <= analyzed_frames OBVIOUS
    <3>1. cfar_hist'[b] = cfar_hist[b] + Cardinality(PeaksAt(b)) BY <1>1
    <3>2. cfar_hist[b] \in Nat /\ analyzed_frames \in Nat BY <1>5 DEF IInv, TypeOK
    <3> QED BY <1>3, <1>4, <3>1, <3>2
  <2> QED BY <1>1, <2>1 DEF IInv, LoopInv, Bins
<1>8. PastNearField'
  <2>1. \A b \in Bins : cfar_hist'[b] > 0 => b >= CfarStart(near_field_bins)
    <3> SUFFICES ASSUME NEW b \in Bins, cfar_hist'[b] > 0 PROVE b >= CfarStart(near_field_bins)
      OBVIOUS
    <3>1. cfar_hist'[b] = cfar_hist[b] + Cardinality(PeaksAt(b)) BY <1>1
    <3>2. CASE Cardinality(PeaksAt(b)) = 0
      <4>1. cfar_hist[b] > 0 BY <1>5, <3>1, <3>2
      <4> QED BY <1>1, <4>1 DEF IInv, PastNearField
    <3>3. CASE Cardinality(PeaksAt(b)) # 0 BY <1>3, <1>4, <3>3
    <3> QED BY <3>2, <3>3
  <2> QED BY <1>1, <2>1 DEF PastNearField, Bins, CfarStart
<1> QED BY <1>2, <1>6, <1>7, <1>8 DEF IInv

\* The profile and where it is searched.
LEMMA MeanProfileType ==
  ASSUME TypeOK
  PROVE  /\ MeanProfile \in [Bins -> Nat] /\ analyzed_frames * Word \in Nat
         /\ \A b \in Bins : MeanProfile[b] <= analyzed_frames * Word
<1> DEFINE top == analyzed_frames * Word
<1>1. top \in Nat /\ analyzed_frames \in Nat BY Sizes DEF TypeOK
<1>2. rpa_nf \in [Bins -> 0 .. top] BY DEF TypeOK
<1> HIDE DEF top
<1>3. MeanProfile \in [Bins -> 0 .. top]
  <2>1. CASE analyzed_frames = 0 BY <1>1, <2>1 DEF MeanProfile, Silence
  <2>2. CASE analyzed_frames # 0
    <3>1. \A v \in 0 .. top : v \div analyzed_frames \in 0 .. top BY <1>1, <2>2
    <3>2. \A b \in Bins : rpa_nf[b] \div analyzed_frames \in 0 .. top BY <1>2, <3>1
    <3> QED BY <2>2, <3>2 DEF MeanProfile
  <2> QED BY <2>1, <2>2
<1>4. MeanProfile \in [Bins -> Nat] /\ \A b \in Bins : MeanProfile[b] <= top BY <1>1, <1>3
<1> QED BY <1>1, <1>4 DEF top

LEMMA GateBins ==
  ASSUME TypeOK
  PROVE  /\ CfarStart(near_field_bins) \in Nat /\ Gate \in SUBSET Bins
         /\ \A b \in Bins : b \in Gate <=> b >= CfarStart(near_field_bins)
<1>1. near_field_bins + HalfWin \in Nat /\ DcSkip \in Nat BY RangeSizes, Sizes DEF TypeOK
<1>2. CfarStart(near_field_bins) \in Nat BY <1>1, LargerType DEF CfarStart
<1> HIDE DEF CfarStart
<1> QED BY <1>2, Sizes DEF Gate, Bins

\* The reported bin is one of the profile's, and a valid one is in the gate.
LEMMA SummariseStep == ASSUME IInv, Summarise PROVE IInv'
<1>1. /\ phase = "range" /\ stage = "idle" /\ phase' = "idle"
      /\ UNCHANGED <<scans, frame_idx, storeVars, near_field_bins, pass2_frames,
                     analyzed_frames, rpa_raw, rpa_nf, cfar_hist, peak_store, detectVars>>
  BY DEF Summarise, resultVars
<1> DEFINE peak == FirstMax(MeanProfile, Gate)
<1>2. /\ summary'.bin = peak /\ {summary'.valid, summary'.confirmed, summary'.degraded} \subseteq BOOLEAN
      /\ summary'.valid => Best(MeanProfile, Gate) # 0
  BY DEF Summarise, Prominent
<1>3. DetectInv' /\ stage' = "idle" BY <1>1, SameInv DEF IInv, detectVars
<1>5. Gate \in SUBSET Bins /\ \A b \in Gate : b >= CfarStart(near_field_bins)
  BY GateBins DEF IInv
<1>6. peak \in Bins /\ (Best(MeanProfile, Gate) # 0 => peak \in Gate)
  <2>1. CASE \A b \in Gate : MeanProfile[b] = 0 BY <2>1, Sizes DEF FirstMax, Best
  <2>2. CASE ~ \A b \in Gate : MeanProfile[b] = 0
    <3> DEFINE top == analyzed_frames * Word
    <3>1. MeanProfile \in [Bins -> Nat] /\ top \in Nat /\ \A b \in Gate : MeanProfile[b] <= top
      BY <1>5, MeanProfileType DEF IInv
    <3> HIDE DEF top
    <3>2. peak \in Gate BY <1>5, <2>2, <3>1, FirstMaxIsMax
    <3> QED BY <1>5, <3>2
  <2> QED BY <2>1, <2>2
<1> HIDE DEF peak
<1>7. TypeOK'
  <2>1. (rpa_nf \in [Bins -> 0 .. analyzed_frames * Word])' BY <1>1 DEF IInv, TypeOK, Bins
  <2>2. UNCHANGED <<scans, frame_idx, storeVars, near_field_bins, pass2_frames,
                    analyzed_frames, rpa_raw, cfar_hist, peak_store>> /\ phase' = "idle"
    BY <1>1
  <2>3. /\ {summary'.valid, summary'.confirmed, summary'.degraded} \subseteq BOOLEAN
        /\ summary'.bin \in Bins
    BY <1>2, <1>6
  <2> QED
    BY <1>3, <2>1, <2>2, <2>3
    DEF IInv, TypeOK, DetectInv, storeVars, MaxScans, Frames, Bins, Powers
<1>8. LoopInv' BY <1>1, <1>3 DEF IInv, LoopInv, Bins
<1>9. PastNearField'
  BY <1>1, <1>2, <1>5, <1>6 DEF IInv, PastNearField, Bins, CfarStart
<1> QED BY <1>3, <1>7, <1>8, <1>9 DEF IInv

LEMMA StutterStep == ASSUME IInv, UNCHANGED vars PROVE IInv'
<1>1. UNCHANGED detectVars /\ UNCHANGED scanVars BY DEF vars
<1>2. DetectInv' /\ stage' = stage /\ startBin' = startBin
  BY <1>1, SameInv DEF IInv, detectVars
<1>3. UNCHANGED <<phase, scans, frame_idx, storeVars, near_field_bins, pass2_frames,
                  analyzed_frames, rpa_raw, rpa_nf, cfar_hist, peak_store, summary>>
  BY <1>1 DEF scanVars, resultVars
<1>4. TypeOK'
  BY <1>2, <1>3 DEF IInv, TypeOK, DetectInv, storeVars, MaxScans, Frames, Bins, Powers
<1>5. LoopInv' /\ PastNearField'
  BY <1>2, <1>3 DEF IInv, LoopInv, PastNearField, Bins, CfarStart
<1> QED BY <1>2, <1>4, <1>5 DEF IInv

LEMMA StepInvariant == IInv /\ [Next]_vars => IInv'
BY StartScanStep, FftFrameStep, ModelClutterStep, SkipSaturatedStep, LoadFrameStep,
   DetectScanStep, CountPeaksStep, SummariseStep, StutterStep
DEF Next

-----------------------------------------------------------------------------
(***************************************************************************)
(* Sums over the frames of a scan                                          *)
(***************************************************************************)
LEMMA FramesFinite ==
  ASSUME NEW S \in SUBSET Frames PROVE IsFiniteSet(S) /\ Cardinality(S) \in Nat
<1>1. IsFiniteSet(Frames)
  <2>1. 0 \in Int /\ ScanTotal - 1 \in Int BY RangeSizes
  <2> QED BY <2>1, FS_Interval DEF Frames
<1> QED BY <1>1, FS_Subset, FS_CardinalityType

LEMMA SumOverEmpty == \A s : SumOver(s, {}) = Silence
BY TotalEmpty DEF SumOver, Silence

LEMMA SumOverSame ==
  ASSUME NEW s, NEW t, NEW S \in SUBSET Frames, \A f \in S : s[f] = t[f]
  PROVE  SumOver(s, S) = SumOver(t, S)
<1> SUFFICES ASSUME NEW b \in Bins PROVE SumOver(s, S)[b] = SumOver(t, S)[b] BY DEF SumOver
<1> DEFINE g == [f \in Frames |-> s[f][b]]
           h == [f \in Frames |-> t[f][b]]
<1>1. IsFiniteSet(S) /\ \A f \in S : g[f] = h[f] BY FramesFinite
<1>2. SumOver(s, S)[b] = Total(g, S) /\ SumOver(t, S)[b] = Total(h, S) BY DEF SumOver
<1> HIDE DEF g, h
<1>3. Total(g, S) = Total(h, S) BY <1>1, TotalSame
<1> QED BY <1>2, <1>3

LEMMA SumOverAdd ==
  ASSUME NEW s \in [Frames -> [Bins -> Nat]], NEW S \in SUBSET Frames, NEW f \in Frames, f \notin S
  PROVE  SumOver(s, S \union {f}) = Plus(SumOver(s, S), s[f])
<1> SUFFICES ASSUME NEW b \in Bins
    PROVE SumOver(s, S \union {f})[b] = SumOver(s, S)[b] + s[f][b]
  BY DEF SumOver, Plus
<1> DEFINE g == [e \in Frames |-> s[e][b]]
<1>1. IsFiniteSet(S) /\ \A e \in S \union {f} : g[e] \in Nat BY FramesFinite
<1>2. SumOver(s, S)[b] = Total(g, S) /\ SumOver(s, S \union {f})[b] = Total(g, S \union {f})
  BY DEF SumOver
<1>3. g[f] = s[f][b] OBVIOUS
<1> HIDE DEF g
<1>4. Total(g, S \union {f}) = Total(g, S) + g[f] BY <1>1, TotalAdd
<1> QED BY <1>2, <1>3, <1>4

LEMMA FloorsType ==
  ASSUME NEW s \in [Frames -> [Bins -> Powers]], NEW mean \in [Bins -> Nat]
  PROVE  Floors(s, mean) \in [Frames -> [Bins -> Nat]]
<1> SUFFICES ASSUME NEW f \in Frames
    PROVE NoiseFloor(WithoutClutter(s[f], mean)) \in [Bins -> Nat]
  BY DEF Floors
<1>1. WithoutClutter(s[f], mean) \in [Bins -> Powers] BY WithoutClutterType
<1> HIDE DEF Floors
<1>2. NoiseFloor(WithoutClutter(s[f], mean)) \in [Bins -> Powers] BY <1>1, NoiseFloorType
<1> QED BY <1>2, PowersAreNat

\* Taking one more frame.
LEMMA BelowNext ==
  ASSUME NEW n \in Nat
  PROVE  /\ n \in frame_saturated => Below(n + 1) = Below(n)
         /\ n \notin frame_saturated => Below(n + 1) = Below(n) \union {n}
         /\ n \notin Below(n)
<1>1. \A f : f \in 0 .. (n + 1) - 1 <=> f \in 0 .. n - 1 \/ f = n OBVIOUS
<1>2. n \notin 0 .. n - 1 OBVIOUS
<1> QED BY <1>1, <1>2 DEF Below

LEMMA BelowFrames ==
  ASSUME NEW n \in 0 .. ScanTotal PROVE Below(n) \in SUBSET Frames
BY RangeSizes DEF Below, Frames

-----------------------------------------------------------------------------
(***************************************************************************)
(* What the steps add to the sums                                          *)
(***************************************************************************)
LEMMA InitSums == Init => SumInv
BY DEF Init, SumInv, Fresh, FirstPass, SecondPass, OfThisScan, Result, Reported, Silence

\* Once a scan has begun, one has.
LEMMA StaysFresh == ASSUME IInv, SumInv, Next PROVE Fresh'
<1>1. scans \in Nat BY DEF IInv, TypeOK
<1>2. CASE StartScan BY <1>1, <1>2 DEF StartScan, Fresh
<1>3. CASE ~StartScan
  <2>1. phase # "idle"
    BY <1>3 DEF Next, FftFrame, ModelClutter, SkipSaturated, LoadFrame, Detect, CountPeaks, Summarise,
       IInv, LoopInv, DetectStep, CfarStep, CfarEnd, SortStep, SortEnd, MergeStep, MergeEnd,
       CompactStep, CompactEnd, ValidateStep, ValidateEnd, ListEnd
  <2>2. scans' = scans
    BY <1>3 DEF Next, FftFrame, ModelClutter, SkipSaturated, LoadFrame, Detect, CountPeaks, Summarise,
       scanVars
  <2>3. scans # 0 BY <1>1, <2>1 DEF IInv, LoopInv
  <2> QED BY <2>2, <2>3 DEF Fresh
<1> QED BY <1>2, <1>3

LEMMA StartScanSums == ASSUME IInv, SumInv, StartScan PROVE SumInv'
<1>0. Fresh' BY StaysFresh DEF Next
<1>1. /\ phase' = "fft" /\ frame_idx' = 0 /\ frame_saturated' = {} /\ clutter_sum' = Silence
      /\ clutter_mean' = Silence /\ clean_frames' = 0 /\ rpa_nf' = Silence
  BY DEF StartScan, ClearedProfile
<1>2. (Below(frame_idx))' = {} BY <1>1 DEF Below
<1>3. (SumOver(spectrum, Below(frame_idx)))' = Silence
  BY <1>2, TotalEmpty DEF SumOver, Silence, Bins
<1>4. Cardinality({}) = 0 BY FS_EmptySet
<1>5. FirstPass' BY <1>1, <1>2, <1>3, <1>4 DEF FirstPass, Silence, Bins
<1> QED BY <1>0, <1>1, <1>5 DEF SumInv, SecondPass, OfThisScan, Result, Reported

LEMMA FftFrameSums == ASSUME IInv, SumInv, FftFrame PROVE SumInv'
<1>0. Fresh' BY StaysFresh DEF Next
<1>1. PICK s \in Spectra[scans], is_saturated \in BOOLEAN :
        /\ spectrum' = [spectrum EXCEPT ![frame_idx] = s]
        /\ IF is_saturated
           THEN /\ frame_saturated' = frame_saturated \union {frame_idx}
                /\ UNCHANGED <<clutter_sum, clean_frames>>
           ELSE /\ clutter_sum' = Plus(clutter_sum, s)
                /\ clean_frames' = clean_frames + 1
                /\ UNCHANGED frame_saturated
  BY DEF FftFrame
<1>2. /\ phase = "fft" /\ phase' = "fft" /\ frame_idx \in Frames /\ frame_idx \in 0 .. ScanTotal
      /\ frame_idx \in Nat /\ frame_idx' = frame_idx + 1 /\ clutter_mean' = clutter_mean
      /\ rpa_nf' = rpa_nf
  BY RangeSizes DEF FftFrame, resultVars, IInv, TypeOK, Frames
<1>3. /\ frame_saturated \subseteq 0 .. frame_idx - 1
      /\ clean_frames = Cardinality(Below(frame_idx))
      /\ clutter_sum = SumOver(spectrum, Below(frame_idx))
      /\ clutter_mean = Silence /\ rpa_nf = Silence
  BY <1>2 DEF SumInv, FirstPass
<1>4. /\ Below(frame_idx) \in SUBSET Frames /\ frame_idx \notin Below(frame_idx)
      /\ frame_idx \notin frame_saturated
      /\ IsFiniteSet(Below(frame_idx)) /\ Cardinality(Below(frame_idx)) \in Nat
  <2>1. Below(frame_idx) \in SUBSET Frames BY <1>2, BelowFrames
  <2>2. frame_idx \notin frame_saturated BY <1>2, <1>3
  <2> QED BY <1>2, <2>1, <2>2, BelowNext, FramesFinite
<1>5. /\ spectrum' \in [Frames -> [Bins -> Nat]] /\ spectrum'[frame_idx] = s
      /\ \A f \in Below(frame_idx) : spectrum'[f] = spectrum[f]
  <2>1. spectrum \in [Frames -> [Bins -> Nat]]
    <3>1. \A f \in Frames : spectrum[f] \in [Bins -> Nat] BY PowersAreNat DEF IInv, TypeOK
    <3> QED BY <3>1 DEF IInv, TypeOK
  <2>2. s \in [Bins -> Nat]
    <3>1. scans \in 1 .. MaxScans BY <1>2, RangeSizes DEF IInv, TypeOK, LoopInv
    <3> QED BY <3>1, RangeSizes, PowersAreNat
  <2> QED BY <1>1, <1>2, <1>4, <2>1, <2>2
<1>6. SumOver(spectrum', Below(frame_idx)) = clutter_sum BY <1>3, <1>4, <1>5, SumOverSame
<1> DEFINE next == (0 .. frame_idx) \ frame_saturated'
<1>7. (Below(frame_idx))' = next
  <2>1. frame_idx' - 1 = frame_idx BY <1>2
  <2> QED BY <2>1 DEF Below
<1>8. (SumOver(spectrum, Below(frame_idx)))' = SumOver(spectrum', next)
  BY <1>7 DEF SumOver, Bins, Frames
<1>9. /\ frame_saturated' \subseteq 0 .. frame_idx
      /\ clean_frames' = Cardinality(next) /\ clutter_sum' = SumOver(spectrum', next)
  <2>1. \A f : f \in 0 .. frame_idx <=> f \in 0 .. frame_idx - 1 \/ f = frame_idx BY <1>2
  <2>2. CASE is_saturated
    <3>1. next = Below(frame_idx) BY <1>1, <2>1, <2>2, <1>4 DEF Below
    <3> HIDE DEF next
    <3> QED BY <1>1, <1>2, <1>3, <1>6, <2>1, <2>2, <3>1
  <2>3. CASE ~is_saturated
    <3>1. next = Below(frame_idx) \union {frame_idx} BY <1>1, <2>1, <2>3, <1>4 DEF Below
    <3> HIDE DEF next
    <3>2. SumOver(spectrum', next) = Plus(SumOver(spectrum', Below(frame_idx)), s)
      BY <1>2, <1>4, <1>5, <3>1, SumOverAdd
    <3>3. Cardinality(next) = Cardinality(Below(frame_idx)) + 1
      BY <1>4, <3>1, FS_AddElement
    <3> QED BY <1>1, <1>2, <1>3, <1>6, <2>1, <2>3, <3>2, <3>3
  <2> QED BY <2>2, <2>3
<1> HIDE DEF next
<1>10. FirstPass'
  <2>1. frame_saturated' \subseteq 0 .. frame_idx' - 1 BY <1>2, <1>9
  <2> QED BY <1>2, <1>3, <1>7, <1>8, <1>9, <2>1 DEF FirstPass, Silence, Bins
<1> QED BY <1>0, <1>2, <1>10 DEF SumInv, SecondPass, OfThisScan, Result, Reported

LEMMA ModelClutterSums == ASSUME IInv, SumInv, ModelClutter PROVE SumInv'
<1>0. Fresh' BY StaysFresh DEF Next
<1>1. /\ phase = "fft" /\ phase' = "range" /\ clutter_mean' = ComputedMean
      /\ near_field_bins' = NearFieldSet(FindBoundary(ComputedMean))
      /\ pass2_frames' = frame_idx /\ analyzed_frames' = 0 /\ frame_idx' = 0
      /\ UNCHANGED <<scans, spectrum, frame_saturated, rpa_nf, stage>>
  BY DEF ModelClutter, resultVars, detectVars
<1>2. /\ clean_frames = Cardinality(Below(frame_idx))
      /\ clutter_sum = SumOver(spectrum, Below(frame_idx))
      /\ clutter_mean = Silence /\ rpa_nf = Silence
  BY <1>1 DEF SumInv, FirstPass
<1>3. stage = "idle" /\ frame_idx \in 0 .. ScanTotal BY <1>1 DEF IInv, LoopInv, TypeOK
<1>4. ComputedMean = Mean(spectrum, Below(frame_idx))
  <2>1. IsFiniteSet(Below(frame_idx)) BY <1>3, BelowFrames, FramesFinite
  <2>2. clean_frames = 0 <=> Below(frame_idx) = {} BY <1>2, <2>1, FS_EmptySet
  <2>3. CASE Below(frame_idx) = {} BY <1>2, <2>2, <2>3 DEF ComputedMean, Mean
  <2>4. CASE Below(frame_idx) # {} BY <1>2, <2>2, <2>4 DEF ComputedMean, Mean
  <2> QED BY <2>3, <2>4
<1>5. (ScanMean)' = Mean(spectrum, Below(frame_idx))
  BY <1>1 DEF ScanMean, CleanFrames, Below, Mean, SumOver, Bins, Frames, Silence
<1>6. near_field_bins' = FindBoundary(ComputedMean)
  <2>1. FindBoundary(ComputedMean) \in PhysicsNear .. BoundaryMax BY BoundaryInLimits
  <2>2. FindBoundary(ComputedMean) \in PhysicsNear .. HalfSize BY <2>1, RangeSizes, Sizes
  <2> QED BY <1>1, <2>2 DEF NearFieldSet
<1>7. (FindBoundary(ScanMean))' = FindBoundary((ScanMean)')
  BY DEF FindBoundary
<1>8. OfThisScan' BY <1>1, <1>4, <1>5, <1>6, <1>7 DEF OfThisScan
<1>9. SecondPass'
  <2>1. frame_idx' <= pass2_frames' BY <1>1, <1>3
  <2>2. (Taken)' = 0 BY <1>1, <1>3 DEF Taken
  <2>3. (Below(Taken))' = {} BY <2>2 DEF Below
  <2>4. (SumOver(Floors(spectrum, clutter_mean), Below(Taken)))' = Silence
    BY <2>3, TotalEmpty DEF SumOver, Silence, Bins
  <2>5. Cardinality({}) = 0 BY FS_EmptySet
  <2>6. 0 .. frame_idx' - 1 = {} BY <1>1
  <2> QED BY <1>1, <1>2, <2>1, <2>3, <2>4, <2>5, <2>6 DEF SecondPass
<1> QED BY <1>0, <1>1, <1>8, <1>9 DEF SumInv, FirstPass, Result, Reported

\* The second pass leaves what the first has left.
LEMMA SameScan ==
  ASSUME UNCHANGED <<spectrum, frame_saturated, pass2_frames, clutter_mean, near_field_bins>>
  PROVE  /\ (ScanMean)' = ScanMean /\ (FindBoundary(ScanMean))' = FindBoundary(ScanMean)
         /\ ScanProfile' = ScanProfile
         /\ \A S : (SumOver(Floors(spectrum, clutter_mean), S))' = SumOver(Floors(spectrum, clutter_mean), S)
         /\ (CfarStart(near_field_bins))' = CfarStart(near_field_bins)
<1>1. (ScanMean)' = ScanMean
  BY DEF ScanMean, CleanFrames, Mean, SumOver, Bins, Frames, Silence
<1>2. (FindBoundary(ScanMean))' = FindBoundary(ScanMean) BY <1>1 DEF FindBoundary
<1>3. CleanFrames' = CleanFrames BY DEF CleanFrames
<1>4. ScanProfile' = ScanProfile BY <1>1, <1>3 DEF ScanProfile
<1>5. \A S : (SumOver(Floors(spectrum, clutter_mean), S))' = SumOver(Floors(spectrum, clutter_mean), S)
  OBVIOUS
<1>6. (CfarStart(near_field_bins))' = CfarStart(near_field_bins) OBVIOUS
<1> QED BY <1>1, <1>2, <1>4, <1>5, <1>6

\* A frame is remembered by one of the bins searched, or by 0.
LEMMA FrameBinPast ==
  ASSUME DetectInv, stage = "ready"
  PROVE  FrameBin \in (startBin .. HalfSize - 1) \union {0}
<1>1. DetectTypeOK /\ startBin \in Nat BY DEF DetectInv, DetectTypeOK
<1>2. Searched \subseteq startBin .. HalfSize - 1 BY <1>1, Sizes DEF Searched
<1>3. CASE peaks # <<>>
  <2>1. 1 \in DOMAIN peaks BY <1>1, <1>3 DEF DetectTypeOK
  <2>2. Real(peaks[1]) /\ peaks[1].mag # 0 /\ peaks[1].bin # NoBin
    BY <2>1 DEF DetectInv, RealInv, ValidInv
  <2>3. CASE peaks[1].bin \in Found
    <3> DEFINE b == peaks[1].bin
    <3>1. b \in Bins /\ startBin <= b BY <1>1, <2>3, FoundAreBins
    <3>2. b \in startBin .. HalfSize - 1
      <4> HIDE DEF b
      <4> QED BY <1>1, <3>1, Sizes DEF Bins
    <3> QED BY <1>3, <3>2 DEF FrameBin
  <2>4. CASE peaks[1].bin \in Searched BY <1>2, <1>3, <2>4 DEF FrameBin
  <2> QED BY <2>2, <2>3, <2>4 DEF Real
<1>4. CASE peaks = <<>>
  <2>1. Searched \in SUBSET Bins /\ cleaned \in [Bins -> Powers]
    BY <1>1, FoundAreBins DEF DetectTypeOK
  <2>2. CASE \A b \in Searched : cleaned[b] = 0 BY <1>4, <2>2 DEF FrameBin, FirstMax
  <2>3. CASE ~ \A b \in Searched : cleaned[b] = 0
    <3>1. FirstMax(cleaned, Searched) \in Searched BY <2>1, <2>3, BestIsPower
    <3> QED BY <1>2, <1>4, <3>1 DEF FrameBin
  <2> QED BY <2>2, <2>3
<1> QED BY <1>3, <1>4

LEMMA SkipSaturatedSums == ASSUME IInv, SumInv, SkipSaturated PROVE SumInv'
<1>0. Fresh' BY StaysFresh DEF Next
<1>1. /\ phase = "range" /\ phase' = "range" /\ stage = "idle" /\ frame_idx < pass2_frames
      /\ frame_idx \in frame_saturated
      /\ peak_store' = [peak_store EXCEPT ![frame_idx] = NoBin]
      /\ frame_idx' = frame_idx + 1
      /\ UNCHANGED <<spectrum, frame_saturated, clutter_mean, near_field_bins, pass2_frames,
                     analyzed_frames, rpa_nf, stage>>
  BY DEF SkipSaturated, storeVars, detectVars
<1>2. /\ frame_idx \in Nat /\ pass2_frames \in Nat /\ peak_store \in [Frames -> Powers]
      /\ frame_idx \in Frames
  BY <1>1, RangeSizes DEF IInv, TypeOK, Frames
<1>3. /\ analyzed_frames = Cardinality(Below(frame_idx))
      /\ rpa_nf = SumOver(Floors(spectrum, clutter_mean), Below(frame_idx))
      /\ \A f \in 0 .. frame_idx - 1 :
           peak_store[f] \in (CfarStart(near_field_bins) .. HalfSize - 1) \union {0, NoBin}
  BY <1>1 DEF SumInv, SecondPass, Taken
<1>4. (Below(Taken))' = Below(frame_idx)
  <2>1. (Below(Taken))' = Below(frame_idx + 1) BY <1>1 DEF Taken, Below
  <2> QED BY <1>1, <1>2, <2>1, BelowNext
<1>5. (SumOver(Floors(spectrum, clutter_mean), Below(Taken)))' = rpa_nf
  BY <1>1, <1>3, <1>4, SameScan
<1>6. \A f \in 0 .. frame_idx' - 1 :
        peak_store'[f] \in (CfarStart(near_field_bins) .. HalfSize - 1) \union {0, NoBin}
  <2>1. \A f \in 0 .. frame_idx' - 1 : f = frame_idx \/ f \in 0 .. frame_idx - 1
    BY <1>1, <1>2
  <2>2. peak_store'[frame_idx] = NoBin /\ \A f \in 0 .. frame_idx - 1 : peak_store'[f] = peak_store[f]
    BY <1>1, <1>2
  <2> QED BY <1>3, <2>1, <2>2
<1>7. SecondPass'
  <2>1. frame_idx' <= pass2_frames' BY <1>1, <1>2
  <2> QED BY <1>1, <1>3, <1>4, <1>5, <1>6, <2>1, SameScan DEF SecondPass
<1>8. OfThisScan' BY <1>1, SameScan DEF SumInv, OfThisScan
<1> QED BY <1>0, <1>1, <1>7, <1>8 DEF SumInv, FirstPass, Result, Reported

LEMMA LoadFrameSums == ASSUME IInv, SumInv, LoadFrame PROVE SumInv'
<1>0. Fresh' BY StaysFresh DEF Next
<1> DEFINE pre == WithoutClutter(spectrum[frame_idx], clutter_mean)
<1>1. /\ phase = "range" /\ phase' = "range" /\ stage = "idle" /\ stage' = "cfar"
      /\ frame_idx < pass2_frames /\ frame_idx \notin frame_saturated
      /\ rpa_nf' = Plus(rpa_nf, NoiseFloor(pre))
      /\ analyzed_frames' = analyzed_frames + 1
      /\ UNCHANGED <<spectrum, frame_saturated, clutter_mean, near_field_bins, pass2_frames,
                     frame_idx, peak_store>>
  BY DEF LoadFrame, Begin, storeVars
<1>2. /\ frame_idx \in Nat /\ pass2_frames \in Nat /\ frame_idx \in Frames
      /\ frame_idx \in 0 .. ScanTotal
  BY <1>1, RangeSizes DEF IInv, TypeOK, Frames
<1>3. /\ analyzed_frames = Cardinality(Below(frame_idx))
      /\ rpa_nf = SumOver(Floors(spectrum, clutter_mean), Below(frame_idx))
      /\ \A f \in 0 .. frame_idx - 1 :
           peak_store[f] \in (CfarStart(near_field_bins) .. HalfSize - 1) \union {0, NoBin}
  BY <1>1 DEF SumInv, SecondPass, Taken
<1>4. (Below(Taken))' = Below(frame_idx) \union {frame_idx}
  <2>1. (Below(Taken))' = Below(frame_idx + 1) BY <1>1 DEF Taken, Below
  <2> QED BY <1>1, <1>2, <2>1, BelowNext
<1>5. /\ Below(frame_idx) \in SUBSET Frames /\ frame_idx \notin Below(frame_idx)
      /\ IsFiniteSet(Below(frame_idx)) /\ Cardinality(Below(frame_idx)) \in Nat
  <2>1. Below(frame_idx) \in SUBSET Frames BY <1>2, BelowFrames
  <2> QED BY <1>2, <2>1, BelowNext, FramesFinite
<1>6. Floors(spectrum, clutter_mean) \in [Frames -> [Bins -> Nat]]
  BY FloorsType DEF IInv, TypeOK
<1>7. Floors(spectrum, clutter_mean)[frame_idx] = NoiseFloor(pre) BY <1>2 DEF Floors
<1> HIDE DEF pre
<1>8. (SumOver(Floors(spectrum, clutter_mean), Below(Taken)))' = rpa_nf'
  <2>1. SumOver(Floors(spectrum, clutter_mean), Below(frame_idx) \union {frame_idx})
          = Plus(rpa_nf, NoiseFloor(pre))
    BY <1>2, <1>3, <1>5, <1>6, <1>7, SumOverAdd
  <2> QED BY <1>1, <1>4, <2>1, SameScan
<1>9. analyzed_frames' = (Cardinality(Below(Taken)))'
  BY <1>1, <1>3, <1>4, <1>5, FS_AddElement
<1>10. SecondPass'
  <2>1. frame_idx' <= pass2_frames' BY <1>1, <1>2
  <2> QED BY <1>1, <1>3, <1>8, <1>9, <2>1, SameScan DEF SecondPass
<1>11. OfThisScan' BY <1>1, SameScan DEF SumInv, OfThisScan
<1> QED BY <1>0, <1>1, <1>10, <1>11 DEF SumInv, FirstPass, Result, Reported

LEMMA DetectSums == ASSUME IInv, SumInv, Detect PROVE SumInv'
<1>0. Fresh' BY StaysFresh DEF Next
<1>1. stage # "idle" /\ stage' # "idle"
  BY DEF Detect, DetectStep, CfarStep, CfarEnd, SortStep, SortEnd, MergeStep, MergeEnd, CompactStep,
     CompactEnd, ValidateStep, ValidateEnd, ListEnd
<1>2. phase = "range" BY <1>1 DEF IInv, LoopInv
<1>3. UNCHANGED <<phase, scans, frame_idx, spectrum, frame_saturated, clutter_mean,
                  near_field_bins, pass2_frames, analyzed_frames, rpa_nf, peak_store>>
  BY DEF Detect, scanVars, storeVars, resultVars
<1>4. (Below(Taken))' = Below(Taken) BY <1>1, <1>3 DEF Below, Taken
<1>5. SecondPass' BY <1>2, <1>3, <1>4, SameScan DEF SumInv, SecondPass
<1>6. OfThisScan' BY <1>2, <1>3, SameScan DEF SumInv, OfThisScan
<1> QED BY <1>0, <1>2, <1>3, <1>5, <1>6 DEF SumInv, FirstPass, Result, Reported

LEMMA CountPeaksSums == ASSUME IInv, SumInv, CountPeaks PROVE SumInv'
<1>0. Fresh' BY StaysFresh DEF Next
<1>1. /\ phase = "range" /\ phase' = "range" /\ stage = "ready" /\ stage' = "idle"
      /\ peak_store' = [peak_store EXCEPT ![frame_idx] = FrameBin]
      /\ frame_idx' = frame_idx + 1
      /\ UNCHANGED <<spectrum, frame_saturated, clutter_mean, near_field_bins, pass2_frames,
                     analyzed_frames, rpa_nf>>
  BY DEF CountPeaks, Return, storeVars
<1>2. frame_idx < pass2_frames /\ startBin = CfarStart(near_field_bins)
  BY <1>1 DEF IInv, LoopInv
<1>3. /\ frame_idx \in Nat /\ pass2_frames \in Nat /\ peak_store \in [Frames -> Powers]
      /\ frame_idx \in Frames
  BY <1>2, RangeSizes DEF IInv, TypeOK, Frames
<1>4. FrameBin \in (CfarStart(near_field_bins) .. HalfSize - 1) \union {0}
  BY <1>1, <1>2, FrameBinPast DEF IInv
<1>5. (Below(Taken))' = Below(Taken) BY <1>1 DEF Below, Taken
<1>6. \A f \in 0 .. frame_idx' - 1 :
        peak_store'[f] \in (CfarStart(near_field_bins) .. HalfSize - 1) \union {0, NoBin}
  <2>1. \A f \in 0 .. frame_idx' - 1 : f = frame_idx \/ f \in 0 .. frame_idx - 1
    BY <1>1, <1>3
  <2>2. /\ peak_store'[frame_idx] = FrameBin
        /\ \A f \in 0 .. frame_idx - 1 : peak_store'[f] = peak_store[f]
    BY <1>1, <1>3
  <2>3. \A f \in 0 .. frame_idx - 1 :
          peak_store[f] \in (CfarStart(near_field_bins) .. HalfSize - 1) \union {0, NoBin}
    BY <1>1 DEF SumInv, SecondPass
  <2> QED BY <1>4, <2>1, <2>2, <2>3
<1>7. SecondPass'
  <2>1. frame_idx' <= pass2_frames' BY <1>1, <1>2, <1>3
  <2>2. /\ analyzed_frames = Cardinality(Below(Taken))
        /\ rpa_nf = SumOver(Floors(spectrum, clutter_mean), Below(Taken))
    BY <1>1 DEF SumInv, SecondPass
  <2> QED BY <1>1, <1>5, <1>6, <2>1, <2>2, SameScan DEF SecondPass
<1>8. OfThisScan' BY <1>1, SameScan DEF SumInv, OfThisScan
<1> QED BY <1>0, <1>1, <1>7, <1>8 DEF SumInv, FirstPass, Result, Reported

LEMMA SummariseSums == ASSUME IInv, SumInv, Summarise PROVE SumInv'
<1>0. Fresh' BY StaysFresh DEF Next
<1>1. /\ phase = "range" /\ phase' = "idle" /\ stage = "idle" /\ frame_idx = pass2_frames
      /\ UNCHANGED <<spectrum, frame_saturated, clutter_mean, near_field_bins, pass2_frames,
                     analyzed_frames, rpa_nf, cfar_hist>>
      /\ summary'.bin = FirstMax(MeanProfile, Gate)
      /\ summary'.valid = Prominent(Best(MeanProfile, Gate), Baseline(FirstMax(MeanProfile, Gate)))
      /\ summary'.hits = Total(cfar_hist, Gate)
  BY DEF Summarise, storeVars, resultVars
<1>2. Below(Taken) = CleanFrames BY <1>1 DEF Below, Taken, CleanFrames
<1>3. /\ analyzed_frames = Cardinality(CleanFrames)
      /\ rpa_nf = SumOver(Floors(spectrum, clutter_mean), CleanFrames)
      /\ clutter_mean = ScanMean /\ near_field_bins = FindBoundary(ScanMean)
  BY <1>1, <1>2 DEF SumInv, SecondPass, OfThisScan
<1>4. MeanProfile = ScanProfile
  <2>1. IsFiniteSet(CleanFrames)
    <3>1. frame_idx \in 0 .. ScanTotal /\ Taken = frame_idx BY <1>1 DEF IInv, TypeOK, Taken
    <3> QED BY <1>2, <3>1, BelowFrames, FramesFinite
  <2>2. analyzed_frames = 0 <=> CleanFrames = {} BY <1>3, <2>1, FS_EmptySet
  <2> QED BY <1>3, <2>2 DEF MeanProfile, ScanProfile, Mean
<1>5. /\ MeanProfile' = MeanProfile /\ Gate' = Gate /\ ScanProfile' = ScanProfile
      /\ \A b : (Baseline(b))' = Baseline(b)
  <2>1. MeanProfile' = MeanProfile /\ Gate' = Gate BY <1>1 DEF MeanProfile, Gate
  <2>2. \A b : (BaselineBins(b))' = BaselineBins(b) BY <1>1 DEF BaselineBins
  <2>3. \A b : (Baseline(b))' = Baseline(b) BY <2>1, <2>2 DEF Baseline
  <2> QED BY <1>1, <2>1, <2>3, SameScan
<1>6. Result'
  <2> DEFINE base == Baseline(summary.bin)
  <2>1. summary'.bin = FirstMax(MeanProfile', Gate') BY <1>1, <1>5
  <2>2. base' = Baseline(FirstMax(MeanProfile, Gate)) BY <1>1, <1>5
  <2> HIDE DEF base
  <2>3. (summary.valid => Prominent(Best(MeanProfile, Gate), base))'
    BY <1>1, <1>5, <2>2
  <2>4. (summary.hits = Total(cfar_hist, Gate))' BY <1>1, <1>5
  <2> QED BY <1>4, <1>5, <2>1, <2>3, <2>4 DEF Result, base
<1>7. OfThisScan' BY <1>1, <1>3, SameScan DEF OfThisScan
<1> QED BY <1>0, <1>1, <1>6, <1>7 DEF SumInv, FirstPass, SecondPass

LEMMA StutterSums == ASSUME SumInv, UNCHANGED vars PROVE SumInv'
BY DEF SumInv, vars, scanVars, storeVars, resultVars, detectVars, FirstPass, SecondPass, OfThisScan,
   Fresh, Bins, Result, Reported, Below, Taken, ScanMean, ScanProfile, CleanFrames, MeanProfile, Gate, Baseline,
   BaselineBins

\* The sums are those of this scan's clean frames.
LEMMA SumsStep == IInv /\ SumInv /\ [Next]_vars => SumInv'
BY StartScanSums, FftFrameSums, ModelClutterSums, SkipSaturatedSums, LoadFrameSums, DetectSums,
   CountPeaksSums, SummariseSums, StutterSums
DEF Next

-----------------------------------------------------------------------------
(***************************************************************************)
(* What is reported                                                        *)
(***************************************************************************)
LEMMA StandsOut == ASSUME IInv, SumInv PROVE TargetStandsOut
<1> SUFFICES ASSUME Reported, summary.valid PROVE TargetStandsOut BY DEF TargetStandsOut
<1> DEFINE peak == summary.bin
           cells == BaselineBins(peak)
           low == {b \in cells : MinRatioQ8 * ScanProfile[b] <= 256 * ScanProfile[peak]}
           base == Baseline(peak)
           top == analyzed_frames * Word
<1>1. /\ MeanProfile = ScanProfile /\ peak = FirstMax(MeanProfile, Gate)
      /\ Prominent(Best(MeanProfile, Gate), base)
  BY DEF SumInv, Result
<1>2. /\ MeanProfile \in [Bins -> Nat] /\ top \in Nat
      /\ \A b \in Bins : MeanProfile[b] <= top
  BY MeanProfileType DEF IInv
<1>3. Gate \in SUBSET Bins BY GateBins DEF IInv
<1>4. Best(MeanProfile, Gate) # 0 /\ base # 0
      /\ Best(MeanProfile, Gate) * 256 >= MinRatioQ8 * base
  BY <1>1 DEF Prominent
<1>5. ~ \A b \in Gate : MeanProfile[b] = 0 BY <1>4 DEF Best
<1> HIDE DEF top
<1>6. /\ peak \in Gate /\ \A b \in Gate : MeanProfile[b] <= MeanProfile[peak]
      /\ Best(MeanProfile, Gate) = MeanProfile[peak]
  <2>1. \A b \in Gate : MeanProfile[b] <= top BY <1>2, <1>3
  <2>2. /\ FirstMax(MeanProfile, Gate) \in Gate
        /\ \A c \in Gate : MeanProfile[c] <= MeanProfile[FirstMax(MeanProfile, Gate)]
    BY <1>2, <1>3, <1>5, <2>1, FirstMaxIsMax
  <2> QED BY <1>1, <1>5, <2>2 DEF Best
<1>7. cells \in SUBSET Bins /\ IsFiniteSet(cells) /\ Cardinality(cells) \in Nat
  BY BinsFinite DEF BaselineBins
<1>8. cells # {} /\ base = Kth(cells, MeanProfile, Cardinality(cells) \div 2)
  BY <1>4 DEF Baseline, BaselineRank
<1> HIDE DEF cells, base
<1>9. Cardinality(cells) # 0 BY <1>7, <1>8, FS_EmptySet
<1> DEFINE half == Cardinality(cells) \div 2
<1>10. half \in Nat /\ half < Cardinality(cells) /\ 2 * (half + 1) > Cardinality(cells)
  BY <1>7, <1>9
<1>11. base = Kth(cells, MeanProfile, half) BY <1>8
<1> HIDE DEF half
<1>12. base \in {MeanProfile[c] : c \in cells} /\ half < AtMost(cells, MeanProfile, base)
  BY <1>2, <1>7, <1>10, <1>11, KthRank
<1> DEFINE under == {b \in cells : MeanProfile[b] <= base}
<1>13. under \subseteq low
  <2> SUFFICES ASSUME NEW b \in under PROVE b \in low OBVIOUS
  <2>1. b \in cells /\ MeanProfile[b] <= base /\ MeanProfile[b] \in Nat /\ base \in Nat
        /\ MeanProfile[peak] \in Nat
    BY <1>2, <1>3, <1>6, <1>7, <1>12
  <2>2. MinRatioQ8 \in Nat BY RangeAssumption
  <2>3. MinRatioQ8 * MeanProfile[b] <= MinRatioQ8 * base
    <3> DEFINE x == MeanProfile[b]
    <3>1. x \in Nat /\ x <= base BY <2>1
    <3> HIDE DEF x
    <3>2. MinRatioQ8 * x <= MinRatioQ8 * base BY <2>1, <2>2, <3>1
    <3> QED BY <3>2 DEF x
  <2>4. MinRatioQ8 * base <= 256 * MeanProfile[peak] BY <1>4, <1>6, <2>1
  <2>5. MinRatioQ8 * base \in Nat /\ MinRatioQ8 * MeanProfile[b] \in Nat
    BY <2>1, <2>2
  <2>6. MinRatioQ8 * MeanProfile[b] <= 256 * MeanProfile[peak]
    BY <2>1, <2>3, <2>4, <2>5
  <2> QED BY <1>1, <2>1, <2>6
<1>14. 2 * Cardinality(low) > Cardinality(cells)
  <2>1. IsFiniteSet(low) BY <1>7, FS_Subset
  <2> HIDE DEF low
  <2>2. Cardinality(under) <= Cardinality(low) /\ Cardinality(low) \in Nat
        /\ Cardinality(under) \in Nat
    BY <1>13, <2>1, FS_Subset, FS_CardinalityType
  <2>3. half < Cardinality(under) BY <1>12 DEF AtMost
  <2> QED BY <1>7, <1>10, <2>2, <2>3
<1> QED BY <1>1, <1>6, <1>14 DEF TargetStandsOut, cells

LEMMA NothingNearby == ASSUME IInv, SumInv PROVE NothingFromNearField
<1>1. CASE phase = "fft" BY <1>1 DEF NothingFromNearField, Reported
<1>2. CASE phase # "fft" /\ scans = 0
  BY <1>2 DEF NothingFromNearField, Reported, SumInv, Fresh, IInv, LoopInv
<1>3. CASE phase # "fft" /\ scans # 0
  <2>1. phase = "range" \/ Reported BY <1>3 DEF Reported, IInv, TypeOK
  <2>2. near_field_bins = FindBoundary(ScanMean) BY <2>1 DEF SumInv, OfThisScan
  <2>3. Far = Gate BY <2>2 DEF Far, Gate
  <2>4. Gate \in SUBSET Bins /\ \A b \in Bins : b \in Gate <=> b >= CfarStart(near_field_bins)
    BY GateBins DEF IInv
  <2>5. \A b \in Bins : cfar_hist[b] > 0 => b \in Far
    BY <1>3, <2>3, <2>4 DEF IInv, PastNearField
  <2>6. phase = "range" => \A f \in 0 .. frame_idx - 1 : peak_store[f] \in Far \union {0, NoBin}
    BY <2>3 DEF SumInv, SecondPass, Gate
  <2>7. Reported /\ summary.valid => summary.bin \in Far
    BY <2>3, <2>4 DEF IInv, PastNearField, TypeOK, Reported
  <2>8. Total(cfar_hist, Bins) = Total(cfar_hist, Gate)
    <3>1. IsFiniteSet(Bins) BY BinsFinite
    <3>2. \A b \in Bins : cfar_hist[b] \in Nat BY DEF IInv, TypeOK
    <3>3. \A b \in Bins \ Gate : cfar_hist[b] = 0 BY <2>3, <2>5, <3>2
    <3> QED BY <2>4, <3>1, <3>2, <3>3, TotalZeros
  <2>9. Reported => summary.hits = Total(cfar_hist, Bins) BY <2>8 DEF SumInv, Result
  <2> QED BY <2>5, <2>6, <2>7, <2>9 DEF NothingFromNearField
<1> QED BY <1>1, <1>2, <1>3

LEMMA OfThisScanOnly == ASSUME SumInv PROVE TargetOfThisScan
<1> SUFFICES ASSUME Reported PROVE TargetOfThisScan BY DEF TargetOfThisScan
<1>1. near_field_bins = FindBoundary(ScanMean) /\ MeanProfile = ScanProfile
      /\ summary.bin = FirstMax(MeanProfile, Gate)
  BY DEF SumInv, OfThisScan, Result
<1> QED BY <1>1 DEF TargetOfThisScan, Gate

-----------------------------------------------------------------------------
(***************************************************************************)
(* Theorems                                                                *)
(***************************************************************************)
\* The peak list through the loops that rewrite it, and the accumulators of a
\* scan around it (cfar_detect.c; both passes of main.c).
THEOREM InvariantHolds == Spec => []IInv
<1> QED BY InitInvariant, StepInvariant, PTL DEF Spec

\* Types, the limits of the near field among them (clutter_rem_find_boundary).
THEOREM TypeCorrect == Spec => []TypeOK
<1>1. IInv => TypeOK BY DEF IInv
<1> QED BY <1>1, InvariantHolds, PTL

\* Each peak that comes out of sorting, merging and validation is another bin
\* that crossed the threshold, with its power, or the fallback of a frame where
\* none did (cfar_detect_1d, merge_adjacent_peaks, peak_validate).
THEOREM PeaksAreReal == Spec => []PeaksReal
<1>1. IInv => PeaksReal BY DEF IInv, DetectInv, RealInv, Real, NoDoubles, PeaksReal
<1> QED BY <1>1, InvariantHolds, PTL

\* Merging loses no locally strongest detection, in whatever order it meets
\* them (merge_adjacent_peaks).
THEOREM LocalPeaksStay == Spec => []LocalPeaksSurvive
<1>1. IInv => LocalPeaksSurvive BY DEF IInv, DetectInv
<1> QED BY <1>1, InvariantHolds, PTL

\* A histogram bin never exceeds the frames analysed (the second pass's counts).
THEOREM CountedOnce == Spec => []OneHitPerFrame
<1>1. IInv => OneHitPerFrame BY DEF IInv, LoopInv, OneHitPerFrame
<1> QED BY <1>1, InvariantHolds, PTL

\* The sums are those of this scan's clean frames, whatever the scan before left
\* in the same memory (both passes of main.c, clutter_rem.c).
THEOREM SumsHold == Spec => [](IInv /\ SumInv)
<1> QED BY InitInvariant, StepInvariant, InitSums, SumsStep, PTL DEF Spec

\* The reported bin is the peak of the profile of this scan's clean frames and of
\* nothing else (clutter_rem_compute_mean, rpa_nf and the summary of main.c).
THEOREM OfThisScanAlone == Spec => []TargetOfThisScan
<1> QED BY SumsHold, OfThisScanOnly, PTL

\* A reported target is the greatest of the profile and MinRatioQ8 / 256 times as
\* strong as most of its neighbourhood (the prominence test of main.c).
THEOREM ReportedStandsOut == Spec => []TargetStandsOut
<1> QED BY SumsHold, StandsOut, PTL

\* Neither a detection nor a frame's peak nor the target lies in the near field of
\* this scan's own clutter, and the summary counts every detection
\* (clutter_rem_find_boundary, pre_filter_set_near_field_bins, cfar_start).
THEOREM NothingFromOwnNearField == Spec => []NothingFromNearField
<1> QED BY SumsHold, NothingNearby, PTL
===============================================================================
