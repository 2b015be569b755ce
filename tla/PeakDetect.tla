------------------------------ MODULE PeakDetect ------------------------------
(***************************************************************************)
(* What main.c does to one frame of a scan once clutter is removed: the    *)
(* noise floor is subtracted, the near field blanked, OS-CFAR lists the    *)
(* bins that stand out, the list is sorted, neighbours are merged and each *)
(* peak is validated.  One step is one round of one of the code's loops,   *)
(* so that what the loops keep can be proved.                              *)
(*                                                                         *)
(* A spectrum is a function from bins to powers below Word.  The peak list *)
(* is the C array peaks[0 .. num_peaks - 1] as a sequence.  The            *)
(* interpolated magnitude, a float in the code, is an exact fraction.      *)
(***************************************************************************)
EXTENDS Integers, Sequences, FiniteSets

CONSTANTS
  HalfSize,      \* FFT_HALF_SIZE, 1024
  DcSkip,        \* DC_SKIP_BINS, 3
  Guard, Train,  \* CFAR_GUARD, 2, and CFAR_TRAIN, 8
  OsK,           \* CFAR_OS_K, 12
  ThreshQ8,      \* CFAR_THRESH_Q8, 2212
  NoiseWin,      \* NOISE_WIN, 64
  NoiseMedianK,  \* NOISE_MEDIAN_K, 24
  MaxPeaks,      \* MAX_PEAKS_PER_FRAME, 50
  MergeBins,     \* MERGE_BINS, 4
  MinSnrQ8,      \* VALIDATE_MIN_SNR_Q8, 512
  MinWidth,      \* VALIDATE_MIN_WIDTH, 2
  MaxWidth,      \* VALIDATE_MAX_WIDTH, 20
  Word           \* what a u32 wraps at, 2^32

HalfWin == Guard + Train
Bins == 0 .. HalfSize - 1
Powers == 0 .. Word - 1

\* The freq_index of a peak that was merged away, 0xFFFFFFFF.
NoBin == Word - 1

ASSUME DetectAssumption ==
  /\ {HalfSize, DcSkip, Guard, Train, OsK, ThreshQ8, MergeBins, MinSnrQ8} \subseteq Nat
  /\ {NoiseWin, MaxPeaks, Word, MinWidth, MaxWidth} \subseteq Nat
  /\ Train > 0 /\ OsK < 2 * Train /\ MaxPeaks > 0
  /\ NoiseMedianK \in 0 .. NoiseWin - 1
  /\ HalfSize > 2 * HalfWin /\ HalfSize < Word

VARIABLES
  stage,     \* which loop is running; "idle" between frames
  preNoise,  \* pre_noise: the spectrum without clutter
  cleaned,   \* the same without noise floor and near field
  startBin,  \* cfar_start
  j,         \* cfar_detect_1d: the bin under test
  peaks,     \* peaks[0 .. num_peaks - 1]
  i, k,      \* the loops over the list
  out        \* what the loop in progress has written back

detectVars == <<stage, preNoise, cleaned, startBin, j, peaks, i, k, out>>

-----------------------------------------------------------------------------
(***************************************************************************)
(* Noise floor                                                             *)
(***************************************************************************)
Larger(a, b) == IF a > b THEN a ELSE b
Dist(a, b) == IF a > b THEN a - b ELSE b - a
Minus(a, b) == IF a > b THEN a - b ELSE 0

\* How many of the cells hold at most v.
AtMost(cells, s, v) == Cardinality({c \in cells : s[c] <= v})

\* insert_sort and an index: element n, from 0, of the cells' sorted values.
Kth(cells, s, n) ==
  CHOOSE v \in {s[c] : c \in cells} :
    /\ n < AtMost(cells, s, v)
    /\ \A c \in cells : n < AtMost(cells, s, s[c]) => v <= s[c]

\* The samples the noise at bin b is estimated from.
Samples(s, b) ==
  {c \in Bins : /\ Dist(c, b) <= NoiseWin \div 2
                /\ Dist(c, b) > Guard
                /\ s[c] # 0}

\* The index into n sorted samples.
NoiseRank(n) == (n * NoiseMedianK) \div NoiseWin

\* noise_floor_estimate
NoiseFloor(s) ==
  [b \in Bins |->
     LET cells == Samples(s, b)
     IN IF cells = {} THEN s[b]
        ELSE Minus(s[b], Kth(cells, s, NoiseRank(Cardinality(cells))))]

\* near_field_mask
NearFieldMask(s, bound) == [b \in Bins |-> IF b < bound THEN 0 ELSE s[b]]

\* cfar_start, from the near-field boundary.
CfarStart(bound) == Larger(bound + HalfWin, DcSkip)

-----------------------------------------------------------------------------
(***************************************************************************)
(* CFAR                                                                    *)
(***************************************************************************)
\* first_j: cfar_detect_1d's own margin comes on top of that of cfar_start.
FirstTested == Larger(startBin, DcSkip) + HalfWin
Tested == FirstTested .. HalfSize - HalfWin - 1

TrainingCells(b) == {c \in Bins : Dist(c, b) > Guard /\ Dist(c, b) <= HalfWin}

\* OS-CFAR: the power exceeds a multiple of the OsK-th training cell.
Crosses(b) == cleaned[b] * 256 > ThreshQ8 * Kth(TrainingCells(b), cleaned, OsK)

\* peak_interpolate: y1 - (y0 - y2)^2 / (8 (y0 - 2 y1 + y2)), or the power
\* itself where that is undefined.
Interpolated(b) ==
  LET slope == cleaned[b - 1] - cleaned[b + 1]
      curve == cleaned[b - 1] - 2 * cleaned[b] + cleaned[b + 1]
      num   == 8 * curve * cleaned[b] - slope * slope
  IN IF b = 0 \/ b >= HalfSize - 1 \/ curve = 0 THEN <<cleaned[b], 1>>
     ELSE IF curve > 0 THEN <<num, 8 * curve>>
     ELSE <<-num, -8 * curve>>

Higher(x, y) == x[1] * y[2] > y[1] * x[2]

PeakAt(b) == [bin |-> b, mag |-> cleaned[b], top |-> Interpolated(b)]

\* The first bin of S with the greatest power, 0 if all powers are 0.
FirstMax(s, S) ==
  IF \A b \in S : s[b] = 0 THEN 0
  ELSE CHOOSE b \in S : \A c \in S : s[c] < s[b] \/ (s[c] = s[b] /\ b <= c)

Best(s, S) == IF \A b \in S : s[b] = 0 THEN 0 ELSE s[FirstMax(s, S)]

\* Where the search without CFAR looks.
Searched == startBin .. HalfSize - HalfWin - 1

\* No bin crossed: the greatest power is returned as a peak all the same.
FallbackPeak ==
  [bin |-> FirstMax(cleaned, Searched), mag |-> Best(cleaned, Searched),
   top |-> <<Best(cleaned, Searched), 1>>]

-----------------------------------------------------------------------------
(***************************************************************************)
(* The steps                                                               *)
(***************************************************************************)
DetectInit ==
  /\ stage = "idle"
  /\ preNoise = [b \in Bins |-> 0] /\ cleaned = [b \in Bins |-> 0]
  /\ startBin = 0 /\ j = 0
  /\ peaks = <<>> /\ i = 1 /\ k = 2 /\ out = <<>>

\* The order of the two layers.
Prepared(pre, bound) == NearFieldMask(NoiseFloor(pre), bound)

\* The spectrum without clutter of the next frame, with the scan's boundary.
Begin(pre, bound) ==
  /\ stage = "idle"
  /\ stage' = "cfar"
  /\ preNoise' = pre /\ cleaned' = Prepared(pre, bound)
  /\ startBin' = CfarStart(bound)
  /\ j' = Larger(startBin', DcSkip) + HalfWin
  /\ peaks' = <<>>
  /\ UNCHANGED <<i, k, out>>

StartPairs == i' = 1 /\ k' = 2

\* The next round of "for (i..) for (k = i + 1..)".
NextPair ==
  IF k < Len(peaks) THEN k' = k + 1 /\ i' = i ELSE i' = i + 1 /\ k' = i + 2

PairsDone == k > Len(peaks)

\* One bin under test; the list takes the first MaxPeaks that cross.
CfarStep ==
  /\ stage = "cfar" /\ j \in Tested
  /\ j' = j + 1
  /\ peaks' = IF Crosses(j) /\ Len(peaks) < MaxPeaks THEN Append(peaks, PeakAt(j))
              ELSE peaks
  /\ UNCHANGED <<stage, preNoise, cleaned, startBin, i, k, out>>

CfarEnd ==
  /\ stage = "cfar" /\ j \notin Tested
  /\ stage' = "sort"
  /\ peaks' = IF peaks = <<>> THEN <<FallbackPeak>> ELSE peaks
  /\ StartPairs
  /\ UNCHANGED <<preNoise, cleaned, startBin, j, out>>

\* The exchange sort, by interpolated magnitude.
SortStep ==
  /\ stage = "sort" /\ ~PairsDone
  /\ peaks' = IF Higher(peaks[k].top, peaks[i].top)
              THEN [peaks EXCEPT ![i] = peaks[k], ![k] = peaks[i]] ELSE peaks
  /\ NextPair
  /\ UNCHANGED <<stage, preNoise, cleaned, startBin, j, out>>

SortEnd ==
  /\ stage = "sort" /\ PairsDone
  /\ stage' = "merge"
  /\ StartPairs
  /\ UNCHANGED <<preNoise, cleaned, startBin, j, peaks, out>>

\* Mutant of Merged: the first of the two wins, whichever is stronger.
MergedFirst(p, q) == p

\* Of two neighbours the stronger one stays, in the first one's place.
Merged(p, q) == IF p.mag >= q.mag THEN p ELSE q

Adjacent(p, q) == p.bin # NoBin /\ q.bin # NoBin /\ Dist(p.bin, q.bin) <= MergeBins

\* Mutant of Joined: the second one stays in the list.
JoinedKept == [peaks EXCEPT ![i] = Merged(peaks[i], peaks[k])]

Joined == [peaks EXCEPT ![i] = Merged(peaks[i], peaks[k]), ![k].bin = NoBin]

\* merge_adjacent_peaks
MergeStep ==
  /\ stage = "merge" /\ ~PairsDone
  /\ peaks' = IF Adjacent(peaks[i], peaks[k]) THEN Joined ELSE peaks
  /\ NextPair
  /\ UNCHANGED <<stage, preNoise, cleaned, startBin, j, out>>

MergeEnd ==
  /\ stage = "merge" /\ PairsDone
  /\ stage' = "compact"
  /\ i' = 1 /\ out' = <<>>
  /\ UNCHANGED <<preNoise, cleaned, startBin, j, peaks, k>>

CompactStep ==
  /\ stage = "compact" /\ i <= Len(peaks)
  /\ out' = IF peaks[i].bin # NoBin THEN Append(out, peaks[i]) ELSE out
  /\ i' = i + 1
  /\ UNCHANGED <<stage, preNoise, cleaned, startBin, j, peaks, k>>

\* Mutant of Rewritten: the number of peaks is not reduced.
RewrittenStale == out \o SubSeq(peaks, Len(out) + 1, Len(peaks))

\* The list as the loop wrote it back, over itself.
Rewritten == out

ListEnd(next) ==
  /\ i > Len(peaks)
  /\ stage' = next
  /\ peaks' = Rewritten
  /\ i' = 1 /\ out' = <<>>
  /\ UNCHANGED <<preNoise, cleaned, startBin, j, k>>

CompactEnd == stage = "compact" /\ ListEnd("validate")

\* peak_validate's noise estimate, from the spectrum before the noise floor.
NoiseEstimate(b) ==
  LET cells == Samples(preNoise, b)
  IN IF cells = {} THEN 0 ELSE Kth(cells, preNoise, NoiseRank(Cardinality(cells)))

Loud(p) ==
  LET noise == NoiseEstimate(p.bin)
  IN noise = 0 \/ (p.mag * 256) \div noise >= MinSnrQ8

\* The -3 dB level, in 32 bits.
HalfPower(mag) == ((mag * 181) % Word) \div 256

\* From one side of the peak to the other, to the first bins at the level or below.
Width(p) ==
  LET above(c) == cleaned[c] > HalfPower(p.mag)
      left  == CHOOSE b \in 0 .. p.bin : /\ b = 0 \/ ~above(b)
                                         /\ \A c \in b + 1 .. p.bin : above(c)
      right == CHOOSE b \in p.bin .. HalfSize - 1 : /\ b = HalfSize - 1 \/ ~above(b)
                                                    /\ \A c \in p.bin .. b - 1 : above(c)
  IN right - left

Valid(p) == p.bin # NoBin /\ p.mag # 0 /\ Loud(p) /\ Width(p) \in MinWidth .. MaxWidth

\* peak_validate
ValidateStep ==
  /\ stage = "validate" /\ i <= Len(peaks)
  /\ out' = IF Valid(peaks[i]) THEN Append(out, peaks[i]) ELSE out
  /\ i' = i + 1
  /\ UNCHANGED <<stage, preNoise, cleaned, startBin, j, peaks, k>>

ValidateEnd == stage = "validate" /\ ListEnd("ready")

DetectStep ==
  \/ CfarStep \/ CfarEnd
  \/ SortStep \/ SortEnd
  \/ MergeStep \/ MergeEnd
  \/ CompactStep \/ CompactEnd
  \/ ValidateStep \/ ValidateEnd

\* The caller has used the peaks.
Return ==
  /\ stage = "ready"
  /\ stage' = "idle"
  /\ UNCHANGED <<preNoise, cleaned, startBin, j, peaks, i, k, out>>

-----------------------------------------------------------------------------
(***************************************************************************)
(* Properties                                                              *)
(***************************************************************************)
Peak == [bin : Powers, mag : Powers, top : Int \X Int]

\* Types.
DetectTypeOK ==
  /\ stage \in {"idle", "cfar", "sort", "merge", "compact", "validate", "ready"}
  /\ preNoise \in [Bins -> Powers] /\ cleaned \in [Bins -> Powers]
  /\ startBin \in Nat /\ j \in Nat
  /\ peaks \in Seq(Peak) /\ Len(peaks) <= MaxPeaks
  /\ i \in Nat \ {0} /\ k \in Nat \ {0}
  /\ out \in Seq(Peak) /\ Len(out) < i

\* The bins OS-CFAR detects.
Found == {b \in Tested : Crosses(b)}

\* Sorting by one magnitude, merging by another, compacting and validating one
\* list in place neither invent nor double a peak: each one returned is another
\* bin that crossed the threshold, with that bin's power.  Only in a frame where
\* none crossed is it the greatest of the searched bins.
PeaksReal ==
  stage \in {"compact", "validate", "ready"} =>
    /\ \A n \in DOMAIN peaks : peaks[n].bin # NoBin =>
         \/ peaks[n].bin \in Found /\ peaks[n].mag = cleaned[peaks[n].bin]
         \/ Found = {} /\ peaks[n].bin \in Searched /\ peaks[n].mag = cleaned[peaks[n].bin]
         \/ Found = {} /\ peaks[n].mag = 0
    /\ \A n, m \in DOMAIN peaks :
         n # m /\ peaks[n].bin = peaks[m].bin => peaks[n].bin = NoBin

\* A bin that crossed and is stronger than all that crossed nearby.
LocalPeak(b) ==
  /\ b \in Found
  /\ \A c \in Found \ {b} : Dist(b, c) <= MergeBins => cleaned[c] < cleaned[b]

\* merge_adjacent_peaks overwrites a peak by a later neighbour and goes on from
\* there, in the order of another magnitude: still no distinct target is lost.
\* Unless the list overflowed, the locally strongest detections all survive.
LocalPeaksSurvive ==
  stage = "validate" /\ Cardinality(Found) <= MaxPeaks =>
    \A b \in Bins : LocalPeak(b) => \E n \in DOMAIN peaks : peaks[n].bin = b

\* The bins around a peak's that are above 1/sqrt(2) of its power.
HalfPowerBins(p) ==
  {c \in Bins : \A d \in Bins :
     (d \in c .. p.bin \/ d \in p.bin .. c) => 2 * cleaned[d] * cleaned[d] > p.mag * p.mag}

\* radar_config.h: a peak less than VALIDATE_MIN_WIDTH bins wide is a noise spike.
SpikesRejected ==
  stage = "ready" => \A n \in DOMAIN peaks : Cardinality(HalfPowerBins(peaks[n])) >= MinWidth
===============================================================================
