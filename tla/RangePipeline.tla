------------------------------ MODULE RangePipeline ------------------------------
(***************************************************************************)
(* The processing of a scan by main.c: a first pass sends every frame      *)
(* through the FPGA's FFT by DMA and stores the spectra, a second analyses *)
(* them and reports.  The CPU polls two DMA channels with a timeout, never *)
(* resets them, and goes back for the next scan whatever happened; the     *)
(* FPGA may stall and resume at any moment.  The spectra of the last scan  *)
(* stay in memory.                                                         *)
(*                                                                         *)
(* A spectrum is named by the scan and frame it was computed from.  The    *)
(* FPGA yields one spectrum per frame, in order, as its users expect, or   *)
(* does what ModFft shows of its last block: it puts out the first one     *)
(* after its reset twice.  A poll of a million reads outlasts a transfer   *)
(* by far, so it only runs out on a stalled FPGA.                          *)
(***************************************************************************)
EXTENDS Naturals, Sequences, FiniteSets

CONSTANTS
  Total,      \* SCAN_TOTAL_FRAMES: the frames of a complete array
  MaxFrames,  \* bound: frames of a capture
  ScanIds,    \* bound: scans are numbered modulo ScanIds
  MinValid    \* AOA_MIN_VALID_PERCENT

ASSUME PipelineAssumption ==
  /\ {Total, MaxFrames} \subseteq Nat \ {0}
  /\ ScanIds \in Nat /\ ScanIds > 1
  /\ MinValid \in 0 .. 100

VARIABLES
  pc,               \* where main is
  scan, num_frames, frame_idx,
  is_saturated,     \* of the frame in hand: its samples are clipped
  frame_saturated,  \* the frames whose flag is set
  spectrum,         \* SPECTRUM_BASE
  matrix, g_valid,  \* frame_buffer.c
  pl_format_error,
  summary,          \* what the last scan reported
  mm2s, s2mm,       \* the DMA channels: the frame being sent, and whether armed
  dma_rx_buf,
  fft,              \* the frames inside the FPGA
  doubling,         \* it puts out a spectrum twice: never, the next one, or it has
  stalled,          \* the FPGA makes no progress
  cxi6,             \* the loaded bitstream delivers the format main.c expects
  newest,           \* history: the last frame a transfer was started for
  before            \* history: that frame when the scan in hand began

scanVars == <<scan, num_frames, frame_idx, is_saturated, frame_saturated, spectrum,
              matrix, g_valid, pl_format_error>>
fpgaVars == <<fft, doubling, stalled, cxi6>>
sent == <<newest, before>>
vars == <<pc, scanVars, summary, mm2s, s2mm, dma_rx_buf, fpgaVars, sent>>

Indices == 0 .. MaxFrames - 1
Array == 0 .. Total - 1
Spectra == (0 .. ScanIds - 1) \X Indices
Empty == <<>>

NoSummary == [scan |-> 0, frames |-> 0, input |-> 0, used |-> Empty,
              degraded |-> TRUE, angle |-> FALSE]

Init ==
  /\ pc = "wait" /\ scan = 0 /\ num_frames = 0 /\ frame_idx = 0
  /\ is_saturated = FALSE /\ frame_saturated = {} /\ pl_format_error = FALSE
  /\ spectrum = [i \in Indices |-> Empty]
  /\ matrix = [i \in Array |-> Empty] /\ g_valid = {}
  /\ summary = NoSummary
  /\ mm2s = Empty /\ s2mm = FALSE /\ dma_rx_buf = Empty
  /\ fft = <<>> /\ doubling \in {"never", "next"} /\ stalled = FALSE /\ cxi6 \in BOOLEAN
  /\ newest = Empty /\ before = Empty

-----------------------------------------------------------------------------
(***************************************************************************)
(* First pass                                                              *)
(***************************************************************************)
\* Mutant of FlagsAtStart: frame_buffer_init clears the matrix only.
FlagsKept == g_valid

\* The elements of the array that are valid when a scan begins.
FlagsAtStart == {}

\* A received scan of n frames; the matrix and the flags are cleared, the
\* spectra are not.
BeginScan(n) ==
  /\ pc = "wait"
  /\ pc' = "arm"
  /\ scan' = (scan + 1) % ScanIds /\ num_frames' = n /\ frame_idx' = 0
  /\ is_saturated' = FALSE /\ frame_saturated' = {} /\ pl_format_error' = FALSE
  /\ matrix' = [i \in Array |-> Empty] /\ g_valid' = FlagsAtStart
  /\ before' = newest
  /\ UNCHANGED <<spectrum, summary, mm2s, s2mm, dma_rx_buf, fpgaVars, newest>>

\* Mutant of StartRefused: dma_recv_start's result is ignored.
StartNeverRefused == FALSE

\* XAxiDma_SimpleTransfer refuses a channel that is busy.
StartRefused == s2mm

\* dma_recv_start
Arm ==
  /\ pc = "arm" /\ frame_idx < num_frames
  /\ is_saturated' \in BOOLEAN
  /\ IF StartRefused
     THEN pc' = "analyse" /\ UNCHANGED s2mm
     ELSE pc' = "send" /\ s2mm' = TRUE
  /\ UNCHANGED <<scan, num_frames, frame_idx, frame_saturated, spectrum, matrix, g_valid,
                 pl_format_error, summary, mm2s, dma_rx_buf, fpgaVars, sent>>

\* The MM2S transfer starts, unless an earlier one is stuck.
Send ==
  /\ pc = "send"
  /\ IF mm2s = Empty
     THEN pc' = "sending" /\ mm2s' = <<scan, frame_idx>> /\ newest' = mm2s'
     ELSE pc' = "analyse" /\ UNCHANGED <<mm2s, newest>>
  /\ UNCHANGED <<scanVars, summary, s2mm, dma_rx_buf, fpgaVars, before>>

\* Mutant of GiveUpSending: the channel is reset, and drops the frame.
GiveUpAndReset == mm2s # Empty /\ stalled /\ pc' = "analyse" /\ mm2s' = Empty

\* The poll runs out; the channel keeps its frame.
GiveUpSending == mm2s # Empty /\ stalled /\ pc' = "analyse" /\ UNCHANGED mm2s

\* XAxiDma_Busy of MM2S.
SendWait ==
  /\ pc = "sending"
  /\ \/ mm2s = Empty /\ pc' = "receiving" /\ UNCHANGED mm2s
     \/ GiveUpSending
  /\ UNCHANGED <<scanVars, summary, s2mm, dma_rx_buf, fpgaVars, sent>>

\* dma_recv_wait, or its timeout.
RecvWait ==
  /\ pc = "receiving"
  /\ \/ ~s2mm /\ pc' = "store"
     \/ s2mm /\ stalled /\ pc' = "analyse"
  /\ UNCHANGED <<scanVars, summary, mm2s, s2mm, dma_rx_buf, fpgaVars, sent>>

\* A spectrum without the format marker ends the pass.
FormatMismatch ==
  /\ pc = "store" /\ ~cxi6
  /\ pc' = "analyse" /\ pl_format_error' = TRUE
  /\ UNCHANGED <<scan, num_frames, frame_idx, is_saturated, frame_saturated, spectrum,
                 matrix, g_valid, summary, mm2s, s2mm, dma_rx_buf, fpgaVars, sent>>

\* The frame has a row and a column in the array.
InArray == frame_idx \in Array

\* Flag the frame and store its spectrum; the matrix takes the frames of the
\* array, as zeros if saturated.
Store ==
  /\ pc = "store" /\ cxi6
  /\ \E clipped \in BOOLEAN :
       LET bad == is_saturated \/ clipped
       IN /\ frame_saturated' = frame_saturated \union (IF bad THEN {frame_idx} ELSE {})
          /\ IF InArray /\ ~bad
             THEN /\ matrix' = [matrix EXCEPT ![frame_idx] = dma_rx_buf]
                  /\ g_valid' = g_valid \union {frame_idx}
             ELSE UNCHANGED <<matrix, g_valid>>
  /\ spectrum' = [spectrum EXCEPT ![frame_idx] = dma_rx_buf]
  /\ frame_idx' = frame_idx + 1
  /\ pc' = IF frame_idx + 1 < num_frames THEN "arm" ELSE "analyse"
  /\ UNCHANGED <<scan, num_frames, is_saturated, pl_format_error, summary, mm2s, s2mm,
                 dma_rx_buf, fpgaVars, sent>>

-----------------------------------------------------------------------------
(***************************************************************************)
(* Second pass and report                                                  *)
(***************************************************************************)
Analyzed == {i \in 0 .. frame_idx - 1 : i \notin frame_saturated}

\* scan_quality_ok
QualityOK ==
  frame_idx = Total /\ Cardinality(Analyzed) = frame_idx /\ frame_saturated = {}

ArrayComplete == ~pl_format_error /\ frame_idx = Total

\* The angle gates; the spatial spectra decide the rest.
AngleGates ==
  /\ ArrayComplete
  /\ (Cardinality(g_valid) * 100) \div Total >= MinValid
  /\ Analyzed # {}

Analyse ==
  /\ pc = "analyse"
  /\ \E peaked \in BOOLEAN :
       summary' = [scan |-> scan, frames |-> frame_idx, input |-> num_frames,
                   used |-> [i \in Analyzed |-> spectrum[i]],
                   degraded |-> ~QualityOK, angle |-> AngleGates /\ peaked]
  /\ pc' = "wait" /\ before' = Empty
  /\ UNCHANGED <<scanVars, mm2s, s2mm, dma_rx_buf, fpgaVars, newest>>

Main ==
  \/ \E n \in 1 .. MaxFrames : BeginScan(n)
  \/ Arm \/ Send \/ SendWait \/ RecvWait \/ FormatMismatch \/ Store \/ Analyse

-----------------------------------------------------------------------------
(***************************************************************************)
(* The FPGA                                                                *)
(***************************************************************************)
FpgaTakes ==
  /\ ~stalled /\ mm2s # Empty
  /\ IF doubling = "next"
     THEN fft' = fft \o <<mm2s, mm2s>> /\ doubling' = "done"
     ELSE fft' = Append(fft, mm2s) /\ UNCHANGED doubling
  /\ mm2s' = Empty
  /\ UNCHANGED <<pc, scanVars, summary, s2mm, dma_rx_buf, stalled, cxi6, sent>>

FpgaDelivers ==
  /\ ~stalled /\ fft # <<>> /\ s2mm
  /\ dma_rx_buf' = Head(fft) /\ fft' = Tail(fft) /\ s2mm' = FALSE
  /\ UNCHANGED <<pc, scanVars, summary, mm2s, doubling, stalled, cxi6, sent>>

FpgaStalls ==
  /\ ~stalled /\ stalled' = TRUE
  /\ UNCHANGED <<pc, scanVars, summary, mm2s, s2mm, dma_rx_buf, fft, doubling, cxi6, sent>>
FpgaResumes ==
  /\ stalled /\ stalled' = FALSE
  /\ UNCHANGED <<pc, scanVars, summary, mm2s, s2mm, dma_rx_buf, fft, doubling, cxi6, sent>>

Fpga == FpgaTakes \/ FpgaDelivers

Next == Main \/ Fpga \/ FpgaStalls \/ FpgaResumes

Spec == Init /\ [][Next]_vars

\* The program runs on; an FPGA that is not stalled works.
FairSpec == Spec /\ WF_vars(Main) /\ WF_vars(Fpga)

-----------------------------------------------------------------------------
(***************************************************************************)
(* Properties                                                              *)
(***************************************************************************)
TypeOK ==
  /\ pc \in {"wait", "arm", "send", "sending", "receiving", "store", "analyse"}
  /\ scan \in 0 .. ScanIds - 1 /\ num_frames \in 0 .. MaxFrames
  /\ frame_idx \in 0 .. num_frames
  /\ frame_saturated \subseteq 0 .. frame_idx - 1 /\ g_valid \subseteq Array
  /\ spectrum \in [Indices -> Spectra \union {Empty}]
  /\ matrix \in [Array -> Spectra \union {Empty}]
  /\ {mm2s, dma_rx_buf, newest, before} \subseteq Spectra \union {Empty} /\ fft \in Seq(Spectra)
  /\ doubling \in {"never", "next", "done"}
  /\ {s2mm, stalled, cxi6, is_saturated, pl_format_error} \subseteq BOOLEAN

OwnSpectra ==
  /\ \A i \in DOMAIN summary.used : summary.used[i] = <<summary.scan, i>>
  /\ \A i \in g_valid : matrix[i] = <<scan, i>>

\* What a scan reports was computed from that scan, every spectrum from its own
\* frame, as long as the FPGA yields one for each: no spectrum that came late,
\* or was left by an earlier scan, is taken for another (dma_recv_start's
\* refusal, the break on every failure, pass2_frames).
ResultsFresh == doubling = "never" => OwnSpectra

\* Whatever stalls, and though the FPGA repeats one, a spectrum that a scan is
\* about to be reported from is never more than one frame behind: that of the
\* frame itself, of the one before it, or for the first frame that of the last
\* frame sent before the scan, were it of a scan broken off at any point (one
\* armed channel, one frame at a time).
OneBehind ==
  pc = "analyse" =>
    \A i \in Analyzed :
      \/ spectrum[i] = <<scan, i>>
      \/ i > 0 /\ spectrum[i] = <<scan, i - 1>>
      \/ i = 0 /\ spectrum[i] = before

\* The angle and the range of a scan rest on the same spectra, however far the
\* first pass came and whichever frames are clipped: the valid elements of the
\* matrix, which the angle is computed from, are the clean frames so far that
\* have a place in the array, each with the spectrum that the second pass reads
\* for it.  Nothing of an earlier scan, of a clipped frame or of one beyond the
\* array is valid (frame_buffer_init, frame_buffer_store_complex, frame_saturated
\* and the spectrum store, kept apart in two files).
StoresAgree ==
  pc # "wait" =>
    /\ g_valid = Analyzed \intersect Array
    /\ \A i \in g_valid : matrix[i] = spectrum[i]

\* A stall costs some scans, but not the board: once the FPGA stays up, every
\* later scan is processed in full.
RecoversFromStall ==
  cxi6 /\ <>[]~stalled => <>[](summary.frames = summary.input)

\* The inductive invariant behind ResultsFresh.  Until the FPGA has put a
\* spectrum out twice, at most one frame is on its
\* way to the FPGA or in it; while it is, the receive channel is armed, so that
\* no other frame can be sent, and it is the frame in hand if main still waits.
Busy == fft # <<>> \/ mm2s # Empty
Waiting(f) == \/ fft = <<f>> /\ mm2s = Empty
              \/ fft = <<>> /\ mm2s = f
Matched ==
  /\ Busy => s2mm /\ \E f \in Spectra : Waiting(f)
  /\ pc = "send" => s2mm /\ ~Busy
  /\ pc \in {"sending", "receiving"} =>
       IF s2mm THEN Waiting(<<scan, frame_idx>>) ELSE dma_rx_buf = <<scan, frame_idx>>
  /\ pc = "store" => ~s2mm /\ dma_rx_buf = <<scan, frame_idx>>
InHand == pc \in {"arm", "send", "sending", "receiving", "store"} => frame_idx < num_frames
StoredFresh == pc # "wait" => \A i \in 0 .. frame_idx - 1 : spectrum[i] = <<scan, i>>
Fresh == Matched /\ StoredFresh /\ OwnSpectra
IInv == TypeOK /\ InHand /\ StoresAgree /\ (doubling # "done" => Fresh)
=================================================================================
