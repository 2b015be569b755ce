------------------------------ MODULE RangeDetection ------------------------------
(***************************************************************************)
(* What main.c computes from the spectra of a scan.  The first pass stores *)
(* every frame's spectrum and adds up the clean ones; their mean is the    *)
(* clutter, and bounds the near field.  The second pass takes each clean   *)
(* frame through PeakDetect, adds what it finds to a histogram and the     *)
(* cleaned spectrum to a profile, from which the summary is decided.  The  *)
(* accumulators are fixed places in memory that every scan reuses.         *)
(*                                                                         *)
(* How a spectrum reaches memory, and how the first pass can break off, is *)
(* RangePipeline's subject: here a pass simply ends after some frame.      *)
(***************************************************************************)
EXTENDS PeakDetect, FiniteSetsExt

CONSTANTS
  Spectra,         \* bound: the power spectra of the frames of each scan
  ScanTotal,       \* SCAN_TOTAL_FRAMES: the frames of a capture
  PhysicsNear,     \* PHYSICS_NEAR_FIELD_BINS, 100
  CouplingBins,    \* the bins the self-coupling peak is looked for in, 50
  Decay,           \* 10^(BOUNDARY_DB_DOWN / 10), 100
  BoundaryMargin,  \* BOUNDARY_MARGIN, 10
  BoundaryMax,     \* BOUNDARY_MAX_BINS, 200
  BaseNear,        \* the baseline's distance from the peak, 30
  BaseFar,         \* and its end, 60
  MinRatioQ8,      \* PROMINENCE_MIN_RATIO_Q8, 768
  NearRadius,      \* CFAR hits within this many bins confirm a target, 5
  ConfirmHits      \* if there are this many, 3

ASSUME RangeAssumption ==
  /\ Spectra \in Seq(SUBSET [Bins -> Powers])
  /\ {ScanTotal, CouplingBins, Decay} \subseteq Nat \ {0}
  /\ {PhysicsNear, BoundaryMargin, BoundaryMax} \subseteq Nat
  /\ {BaseNear, BaseFar, MinRatioQ8, NearRadius, ConfirmHits} \subseteq Nat
  /\ PhysicsNear <= BoundaryMax /\ BoundaryMax < HalfSize /\ BaseNear < BaseFar

VARIABLES
  phase,       \* "idle", "fft" or "range"
  scans,       \* bound: scans so far
  frame_idx,
  spectrum,    \* SPECTRUM_BASE
  frame_saturated,  \* the frames whose flag is set
  clutter_sum, clutter_mean, clean_frames,
  near_field_bins,  \* pre_filter.c's g_near_field_bins
  pass2_frames, analyzed_frames,
  rpa_raw, rpa_nf,  \* RANGE_PROFILE_BASE, RANGE_PROFILE_NF_BASE
  cfar_hist, cfar_wgt,
  peak_store,
  summary

storeVars == <<spectrum, frame_saturated, clutter_sum, clutter_mean, clean_frames>>
resultVars == <<rpa_raw, rpa_nf, cfar_hist, cfar_wgt, peak_store>>
scanVars == <<phase, scans, frame_idx, storeVars, near_field_bins, pass2_frames,
              analyzed_frames, resultVars, summary>>
vars == <<scanVars, detectVars>>

MaxScans == Len(Spectra)
Frames == 0 .. ScanTotal - 1
Silence == [b \in Bins |-> 0]
Plus(s, t) == [b \in Bins |-> s[b] + t[b]]

\* Every value is a sum over bins of one array.
Total(s, S) == MapThenSumSet(LAMBDA b : s[b], S)

NoSummary == [valid |-> FALSE, confirmed |-> FALSE, degraded |-> TRUE, bin |-> 0, hits |-> 0]

Init ==
  /\ DetectInit
  /\ phase = "idle" /\ scans = 0 /\ frame_idx = 0
  /\ spectrum = [f \in Frames |-> Silence] /\ frame_saturated = {}
  /\ clutter_sum = Silence /\ clutter_mean = Silence /\ clean_frames = 0
  /\ near_field_bins = PhysicsNear
  /\ pass2_frames = 0 /\ analyzed_frames = 0
  /\ rpa_raw = Silence /\ rpa_nf = Silence
  /\ cfar_hist = Silence /\ cfar_wgt = Silence
  /\ peak_store = [f \in Frames |-> 0]
  /\ summary = NoSummary

-----------------------------------------------------------------------------
(***************************************************************************)
(* First pass                                                              *)
(***************************************************************************)
\* Mutant of ClearedProfile: the profile of the last scan is kept.
KeptProfile == rpa_nf

ClearedProfile == Silence

\* clutter_rem_init and the memsets before the first pass.
StartScan ==
  /\ phase = "idle" /\ scans < MaxScans
  /\ phase' = "fft" /\ scans' = scans + 1 /\ frame_idx' = 0
  /\ frame_saturated' = {}
  /\ clutter_sum' = Silence /\ clutter_mean' = Silence /\ clean_frames' = 0
  /\ pass2_frames' = 0 /\ analyzed_frames' = 0
  /\ rpa_raw' = Silence /\ rpa_nf' = ClearedProfile
  /\ cfar_hist' = Silence /\ cfar_wgt' = Silence
  /\ summary' = NoSummary
  /\ UNCHANGED <<spectrum, near_field_bins, peak_store, detectVars>>

\* A frame's spectrum; only a clean one counts as clutter.
FftFrame ==
  /\ phase = "fft" /\ frame_idx < ScanTotal
  /\ \E s \in Spectra[scans], is_saturated \in BOOLEAN :
       /\ spectrum' = [spectrum EXCEPT ![frame_idx] = s]
       /\ IF is_saturated
          THEN /\ frame_saturated' = frame_saturated \union {frame_idx}
               /\ UNCHANGED <<clutter_sum, clean_frames>>
          ELSE /\ clutter_sum' = Plus(clutter_sum, s)
               /\ clean_frames' = clean_frames + 1
               /\ UNCHANGED frame_saturated
  /\ frame_idx' = frame_idx + 1
  /\ UNCHANGED <<phase, scans, clutter_mean, near_field_bins, pass2_frames,
                 analyzed_frames, resultVars, summary, detectVars>>

\* clutter_rem_compute_mean: without clean frames the mean stays as initialised.
ComputedMean ==
  IF clean_frames = 0 THEN clutter_mean
  ELSE [b \in Bins |-> clutter_sum[b] \div clean_frames]

Clamped(b) == IF b > BoundaryMax THEN BoundaryMax ELSE Larger(b, PhysicsNear)

\* clutter_rem_find_boundary: the first bin past the physical near field where
\* the clutter has decayed; if there is none, the near field itself.
FindBoundary(mean) ==
  LET peak  == Best(mean, 0 .. CouplingBins - 1)
      quiet == {b \in PhysicsNear .. HalfSize - 1 : mean[b] < Larger(peak \div Decay, 1)}
  IN IF peak = 0 THEN PhysicsNear
     ELSE Clamped(BoundaryMargin + (IF quiet = {} THEN PhysicsNear ELSE Min(quiet)))

\* Mutant of NearFieldSet: the boundary of the scan is not passed on.
NearFieldOld(b) == near_field_bins

\* pre_filter_set_near_field_bins
NearFieldSet(b) == IF b \in PhysicsNear .. HalfSize THEN b ELSE near_field_bins

\* The first pass has taken all frames, or broke off after some.
ModelClutter ==
  /\ phase = "fft"
  /\ phase' = "range"
  /\ clutter_mean' = ComputedMean
  /\ near_field_bins' = NearFieldSet(FindBoundary(ComputedMean))
  /\ pass2_frames' = frame_idx /\ analyzed_frames' = 0 /\ frame_idx' = 0
  /\ UNCHANGED <<scans, spectrum, frame_saturated, clutter_sum, clean_frames, resultVars,
                 summary, detectVars>>

-----------------------------------------------------------------------------
(***************************************************************************)
(* Second pass                                                             *)
(***************************************************************************)
\* Mutant of SkipSaturated: the pass as a while loop, whose increment "continue" skips.
SkipSaturatedAgain ==
  /\ phase = "range" /\ stage = "idle" /\ frame_idx < pass2_frames
  /\ frame_idx \in frame_saturated
  /\ peak_store' = [peak_store EXCEPT ![frame_idx] = NoBin]
  /\ UNCHANGED <<phase, scans, frame_idx, storeVars, near_field_bins, pass2_frames,
                 analyzed_frames, rpa_raw, rpa_nf, cfar_hist, cfar_wgt, summary, detectVars>>

\* A saturated frame is marked and skipped.
SkipSaturated ==
  /\ phase = "range" /\ stage = "idle" /\ frame_idx < pass2_frames
  /\ frame_idx \in frame_saturated
  /\ peak_store' = [peak_store EXCEPT ![frame_idx] = NoBin]
  /\ frame_idx' = frame_idx + 1
  /\ UNCHANGED <<phase, scans, storeVars, near_field_bins, pass2_frames, analyzed_frames,
                 rpa_raw, rpa_nf, cfar_hist, cfar_wgt, summary, detectVars>>

\* clutter_rem_apply
WithoutClutter(s, mean) == [b \in Bins |-> Minus(s[b], mean[b])]

\* A clean frame enters the detector; both profiles take it before the near
\* field is blanked.
LoadFrame ==
  /\ phase = "range" /\ frame_idx < pass2_frames /\ frame_idx \notin frame_saturated
  /\ LET pre == WithoutClutter(spectrum[frame_idx], clutter_mean)
     IN /\ Begin(pre, near_field_bins)
        /\ rpa_raw' = Plus(rpa_raw, pre)
        /\ rpa_nf' = Plus(rpa_nf, NoiseFloor(pre))
  /\ analyzed_frames' = analyzed_frames + 1
  /\ UNCHANGED <<phase, scans, frame_idx, storeVars, near_field_bins, pass2_frames,
                 cfar_hist, cfar_wgt, peak_store, summary>>

\* PeakDetect works on it.
Detect == DetectStep /\ UNCHANGED scanVars

\* The bin a frame is remembered by.
FrameBin ==
  IF peaks # <<>> THEN peaks[1].bin ELSE FirstMax(cleaned, Searched)

\* The powers of the validated peaks at bin b.
PeaksAt(b) == {n \in DOMAIN peaks : peaks[n].bin = b}

\* Every validated peak counts at its bin, with its power in 32 bits.
CountPeaks ==
  /\ phase = "range" /\ Return
  /\ peak_store' = [peak_store EXCEPT ![frame_idx] = FrameBin]
  /\ cfar_hist' = [b \in Bins |-> cfar_hist[b] + Cardinality(PeaksAt(b))]
  /\ cfar_wgt' = [b \in Bins |->
       (cfar_wgt[b] + MapThenSumSet(LAMBDA n : peaks[n].mag, PeaksAt(b))) % Word]
  /\ frame_idx' = frame_idx + 1
  /\ UNCHANGED <<phase, scans, storeVars, near_field_bins, pass2_frames, analyzed_frames,
                 rpa_raw, rpa_nf, summary>>

-----------------------------------------------------------------------------
(***************************************************************************)
(* Summary                                                                 *)
(***************************************************************************)
\* The profile averaged over the frames that went into it.
MeanProfile ==
  IF analyzed_frames = 0 THEN Silence ELSE [b \in Bins |-> rpa_nf[b] \div analyzed_frames]

\* Where a target is looked for.
Gate == CfarStart(near_field_bins) .. HalfSize - 1

\* The bins around a peak that its baseline is taken from.
BaselineBins(peak) ==
  LET from == IF peak > BaseFar THEN peak - BaseFar ELSE CfarStart(near_field_bins)
      to   == IF peak > BaseNear THEN peak - BaseNear ELSE CfarStart(near_field_bins)
  IN {b \in Bins : (from <= b /\ b < to) \/ (peak + BaseNear <= b /\ b < peak + BaseFar)}

\* Mutant of BaselineRank: the smallest value.
BaselineRankLow(n) == 0

BaselineRank(n) == n \div 2

\* Their median, 0 if there are none.
Baseline(peak) ==
  LET cells == BaselineBins(peak)
  IN IF cells = {} THEN 0 ELSE Kth(cells, MeanProfile, BaselineRank(Cardinality(cells)))

Prominent(value, base) == value # 0 /\ base # 0 /\ value * 256 >= MinRatioQ8 * base

NearHits(peak) == Total(cfar_hist, {b \in Bins : Dist(b, peak) <= NearRadius})

ScanQualityOK ==
  pass2_frames = ScanTotal /\ analyzed_frames = pass2_frames /\ frame_saturated = {}

Summarise ==
  /\ phase = "range" /\ stage = "idle" /\ frame_idx = pass2_frames
  /\ phase' = "idle"
  /\ LET peak  == FirstMax(MeanProfile, Gate)
         valid == Prominent(Best(MeanProfile, Gate), Baseline(peak))
     IN summary' = [valid     |-> valid,
                    confirmed |-> valid /\ NearHits(peak) >= ConfirmHits /\ ScanQualityOK,
                    degraded  |-> ~ScanQualityOK,
                    bin       |-> peak,
                    hits      |-> Total(cfar_hist, Gate)]
  /\ UNCHANGED <<scans, frame_idx, storeVars, near_field_bins, pass2_frames,
                 analyzed_frames, resultVars, detectVars>>

Next ==
  \/ StartScan
  \/ FftFrame
  \/ ModelClutter
  \/ SkipSaturated \/ LoadFrame \/ Detect \/ CountPeaks
  \/ Summarise

Spec == Init /\ [][Next]_vars

\* One thread that never waits here: it takes the next step.
FairSpec == Spec /\ WF_vars(Next)

-----------------------------------------------------------------------------
(***************************************************************************)
(* Properties                                                              *)
(***************************************************************************)
\* Types; of what is a sum over several peaks or bins (cfar_wgt, hits) it says
\* nothing.
TypeOK ==
  /\ DetectTypeOK
  /\ phase \in {"idle", "fft", "range"} /\ scans \in 0 .. MaxScans
  /\ frame_idx \in 0 .. ScanTotal /\ pass2_frames \in 0 .. ScanTotal
  /\ spectrum \in [Frames -> [Bins -> Powers]] /\ frame_saturated \subseteq Frames
  /\ clutter_sum \in [Bins -> Nat] /\ clutter_mean \in [Bins -> Nat]
  /\ clean_frames \in Nat /\ analyzed_frames \in Nat
  /\ near_field_bins \in PhysicsNear .. BoundaryMax
  /\ rpa_raw \in [Bins -> Nat] /\ rpa_nf \in [Bins -> 0 .. analyzed_frames * Word]
  /\ cfar_hist \in [Bins -> Nat] /\ peak_store \in [Frames -> Powers]
  /\ {summary.valid, summary.confirmed, summary.degraded} \subseteq BOOLEAN
  /\ summary.bin \in Bins

Reported == phase = "idle" /\ scans > 0

\* What the frames of the last scan say, all at once: those that were stored
\* and not flagged, their mean, and the profile over them.
CleanFrames == 0 .. pass2_frames - 1 \ frame_saturated

\* The sum of one array of spectra over a set of frames, bin by bin.
SumOver(s, S) == [b \in Bins |-> Total([f \in Frames |-> s[f][b]], S)]

Mean(s, S) ==
  IF S = {} THEN Silence ELSE [b \in Bins |-> SumOver(s, S)[b] \div Cardinality(S)]

ScanMean == Mean(spectrum, CleanFrames)

\* What each frame adds to the profile.
Floors(s, mean) == [f \in Frames |-> NoiseFloor(WithoutClutter(s[f], mean))]

ScanProfile == Mean(Floors(spectrum, ScanMean), CleanFrames)

\* Accumulated frame by frame, over two passes, in memory that earlier scans
\* used and with a near field that was theirs: the reported bin is the peak of
\* the profile of this scan's clean frames and of nothing else.
TargetOfThisScan ==
  Reported =>
    summary.bin = FirstMax(ScanProfile, CfarStart(FindBoundary(ScanMean)) .. HalfSize - 1)

\* A reported target is the peak of the profile and three times as strong as most
\* of its neighbourhood, whatever bins the ends of the range leave of it.
TargetStandsOut ==
  Reported /\ summary.valid =>
    LET peak == summary.bin
        low  == {b \in BaselineBins(peak) : MinRatioQ8 * ScanProfile[b] <= 256 * ScanProfile[peak]}
    IN /\ 2 * Cardinality(low) > Cardinality(BaselineBins(peak))
       /\ \A b \in Gate : ScanProfile[b] <= ScanProfile[peak]

\* The bins past the near field of this scan's clutter and past its margin.
Far == CfarStart(FindBoundary(ScanMean)) .. HalfSize - 1

\* No detection, frame peak or target lies in the near field of this scan's own
\* clutter, or so close that CFAR would take the blanking edge for background,
\* although the boundary moves from scan to scan and is kept in another file.
\* So the count of detections, which starts there, misses none.
NothingFromNearField ==
  /\ phase # "fft" => \A b \in Bins : cfar_hist[b] > 0 => b \in Far
  /\ phase = "range" => \A f \in 0 .. frame_idx - 1 : peak_store[f] \in Far \union {0, NoBin}
  /\ Reported /\ summary.valid => summary.bin \in Far
  /\ Reported => summary.hits = Total(cfar_hist, Bins)

\* A frame counts at most once at a bin, for all the moving and overwriting in
\* its list: a histogram bin never exceeds the frames analysed.
OneHitPerFrame == \A b \in Bins : cfar_hist[b] <= analyzed_frames

\* A scan that has begun is reported on, wherever its first pass ends.
ScanEnds == phase = "fft" ~> phase = "idle"
===============================================================================
