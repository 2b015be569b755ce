--------------------------- MODULE RangePipelineProofs ---------------------------
(***************************************************************************)
(* Proofs about RangePipeline, for every number of frames, every length of *)
(* the array and every scan counter.  Angle and range rest on the same     *)
(* spectra; on an FPGA that puts out one spectrum per frame these are the  *)
(* scan's own, whatever stalls; and on one that repeats a spectrum none is *)
(* more than one frame late.  As long as no spectrum was repeated, the     *)
(* invariant follows the one frame that can be under way: the receive      *)
(* channel, refused while it is armed, keeps it the only one.  After a     *)
(* repetition it counts the frames under way instead.                      *)
(***************************************************************************)
EXTENDS RangePipeline, SequenceTheorems, TLAPS

LEMMA Sizes ==
  /\ Total \in Nat \ {0} /\ MaxFrames \in Nat \ {0}
  /\ ScanIds \in Nat /\ ScanIds > 1
BY PipelineAssumption

\* A spectrum is never the empty one.
LEMMA NotEmpty == \A f \in Spectra : f # Empty
<1> SUFFICES ASSUME NEW s \in 0 .. ScanIds - 1, NEW i \in Indices PROVE <<s, i>> # Empty
  BY DEF Spectra
<1>1. Len(<<s, i>>) = 2 /\ Len(Empty) = 0 BY DEF Empty
<1> QED BY <1>1

\* The frame in hand has a name.
LEMMA HandFrame ==
  ASSUME TypeOK, frame_idx < num_frames
  PROVE  <<scan, frame_idx>> \in Spectra /\ frame_idx \in Indices
BY Sizes DEF TypeOK, Spectra, Indices

LEMMA InitInvariant == Init => IInv
<1> SUFFICES ASSUME Init PROVE IInv OBVIOUS
<1>1. TypeOK BY Sizes DEF Init, TypeOK, Indices, Array
<1>2. InHand /\ Matched /\ StoredFresh BY <1>1 DEF Init, InHand, Matched, Busy, StoredFresh
<1>3. OwnSpectra /\ StoresAgree
  BY DEF Init, OwnSpectra, StoresAgree, NoSummary, Empty
<1> QED BY <1>1, <1>2, <1>3 DEF IInv, Fresh

\* A step that stores nothing and reports nothing keeps what was stored.
LEMMA KeepsResults ==
  UNCHANGED <<scan, matrix, g_valid, summary>> => (OwnSpectra => OwnSpectra')
BY DEF OwnSpectra, Array

LEMMA KeepsStores ==
  UNCHANGED <<matrix, g_valid, spectrum, frame_idx, frame_saturated>>
  /\ (pc' # "wait" => pc # "wait") => (StoresAgree => StoresAgree')
BY DEF StoresAgree, Analyzed, Array

LEMMA BeginScanStep ==
  ASSUME IInv, NEW n \in 1 .. MaxFrames, BeginScan(n)
  PROVE  IInv'
<1>1. TypeOK'
  <2>1. scan' \in 0 .. ScanIds - 1 /\ num_frames' \in 0 .. MaxFrames
        /\ frame_idx' \in 0 .. num_frames'
    BY Sizes DEF IInv, TypeOK, BeginScan
  <2>2. frame_saturated' = {} /\ g_valid' = {} /\ pc' = "arm"
        /\ matrix' \in [Array -> Spectra \union {Empty}]
    BY DEF BeginScan, FlagsAtStart
  <2>3. {s2mm, stalled, cxi6, is_saturated, pl_format_error}' \subseteq BOOLEAN
        /\ UNCHANGED doubling
    BY DEF IInv, TypeOK, BeginScan, fpgaVars
  <2>4. UNCHANGED <<spectrum, mm2s, dma_rx_buf, fft, newest>> /\ before' = newest
    BY DEF BeginScan, fpgaVars
  <2>5. Indices' = Indices /\ Array' = Array /\ Spectra' = Spectra /\ Empty' = Empty
    BY DEF Indices, Array, Spectra, Empty
  <2> QED BY <2>1, <2>2, <2>3, <2>4, <2>5 DEF IInv, TypeOK
<1>2. InHand' /\ StoresAgree'
  <2>1. frame_idx' = 0 /\ g_valid' = {} /\ num_frames' = n BY DEF BeginScan, FlagsAtStart
  <2>2. Analyzed' = {} BY <2>1 DEF Analyzed
  <2> QED BY <2>1, <2>2 DEF InHand, StoresAgree
<1>3. ASSUME Fresh PROVE Fresh'
  <2>1. Matched'
    BY <1>3 DEF Fresh, BeginScan, Matched, Busy, Waiting, fpgaVars, Spectra, Indices
  <2>2. StoredFresh' BY DEF BeginScan, StoredFresh
  <2>3. OwnSpectra' BY <1>3 DEF Fresh, BeginScan, FlagsAtStart, OwnSpectra
  <2> QED BY <2>1, <2>2, <2>3 DEF Fresh
<1>d. UNCHANGED doubling BY DEF BeginScan, fpgaVars
<1> QED BY <1>d, <1>1, <1>2, <1>3 DEF IInv

LEMMA ArmStep == ASSUME IInv, Arm PROVE IInv'
<1>1. TypeOK' BY DEF IInv, TypeOK, Arm, StartRefused, fpgaVars, sent, Array, Indices, Spectra
<1>2. InHand' /\ StoresAgree' BY KeepsStores DEF IInv, Arm, InHand
<1>3. ASSUME Fresh PROVE Fresh'
  <2>1. Matched'
    BY <1>3 DEF Fresh, Arm, StartRefused, Matched, Busy, Waiting, fpgaVars, Spectra, Indices
  <2>2. StoredFresh' BY <1>3 DEF Fresh, Arm, StoredFresh
  <2>3. OwnSpectra' BY <1>3, KeepsResults DEF Fresh, Arm
  <2> QED BY <2>1, <2>2, <2>3 DEF Fresh
<1>d. UNCHANGED doubling BY DEF Arm, fpgaVars
<1> QED BY <1>d, <1>1, <1>2, <1>3 DEF IInv

LEMMA SendStep == ASSUME IInv, Send PROVE IInv'
<1>h. <<scan, frame_idx>> \in Spectra BY HandFrame DEF IInv, InHand, Send
<1>1. TypeOK'
  BY <1>h DEF IInv, TypeOK, Send, scanVars, fpgaVars, Array, Indices, Spectra
<1>2. InHand' /\ StoresAgree' BY KeepsStores DEF IInv, Send, scanVars, InHand
<1>3. ASSUME Fresh PROVE Fresh'
  <2>1. Matched'
    BY <1>h, <1>3 DEF Fresh, Send, scanVars, Matched, Busy, Waiting, fpgaVars, Spectra, Indices
  <2>2. StoredFresh' BY <1>3 DEF Fresh, Send, scanVars, StoredFresh
  <2>3. OwnSpectra' BY <1>3, KeepsResults DEF Fresh, Send, scanVars
  <2> QED BY <2>1, <2>2, <2>3 DEF Fresh
<1>d. UNCHANGED doubling BY DEF Send, fpgaVars
<1> QED BY <1>d, <1>1, <1>2, <1>3 DEF IInv

\* Waiting on a channel changes the program counter only.
LEMMA WaitStep == ASSUME IInv, SendWait \/ RecvWait PROVE IInv'
<1>1. TypeOK'
  BY DEF IInv, TypeOK, SendWait, GiveUpSending, RecvWait, scanVars, fpgaVars, sent, Array,
         Indices, Spectra
<1>2. InHand' /\ StoresAgree'
  BY KeepsStores DEF IInv, SendWait, GiveUpSending, RecvWait, scanVars, InHand
<1>3. ASSUME Fresh PROVE Fresh'
  <2>1. Matched'
    <3>1. CASE SendWait
      BY <1>3, <3>1 DEF Fresh, SendWait, GiveUpSending, scanVars, Matched, Busy, Waiting,
                        fpgaVars, Spectra, Indices
    <3>2. CASE RecvWait /\ ~s2mm /\ pc' = "store"
      BY <1>3, <3>2 DEF Fresh, RecvWait, scanVars, Matched, Busy, Waiting, fpgaVars,
                        Spectra, Indices
    <3>3. CASE RecvWait /\ pc' = "analyse"
      BY <1>3, <3>3 DEF Fresh, RecvWait, scanVars, Matched, Busy, Waiting, fpgaVars,
                        Spectra, Indices
    <3> QED BY <3>1, <3>2, <3>3 DEF RecvWait
  <2>2. StoredFresh'
    BY <1>3 DEF Fresh, SendWait, GiveUpSending, RecvWait, scanVars, StoredFresh
  <2>3. OwnSpectra'
    BY <1>3, KeepsResults DEF Fresh, SendWait, GiveUpSending, RecvWait, scanVars
  <2> QED BY <2>1, <2>2, <2>3 DEF Fresh
<1>d. UNCHANGED doubling BY DEF SendWait, RecvWait, fpgaVars
<1> QED BY <1>d, <1>1, <1>2, <1>3 DEF IInv

LEMMA FormatMismatchStep == ASSUME IInv, FormatMismatch PROVE IInv'
<1>1. TypeOK' BY DEF IInv, TypeOK, FormatMismatch, fpgaVars, sent, Array, Indices, Spectra
<1>2. InHand' /\ StoresAgree' BY KeepsStores DEF IInv, FormatMismatch, InHand
<1>3. ASSUME Fresh PROVE Fresh'
  <2>1. Matched'
    BY <1>3 DEF Fresh, FormatMismatch, Matched, Busy, Waiting, fpgaVars, Spectra, Indices
  <2>2. StoredFresh' BY <1>3 DEF Fresh, FormatMismatch, StoredFresh
  <2>3. OwnSpectra' BY <1>3, KeepsResults DEF Fresh, FormatMismatch
  <2> QED BY <2>1, <2>2, <2>3 DEF Fresh
<1>d. UNCHANGED doubling BY DEF FormatMismatch, fpgaVars
<1> QED BY <1>d, <1>1, <1>2, <1>3 DEF IInv

\* The spectrum stored is that of the frame in hand.
LEMMA StoreStep == ASSUME IInv, Store PROVE IInv'
<1>h. /\ frame_idx \in Indices /\ frame_idx \in Nat /\ num_frames \in Nat
      /\ frame_idx < num_frames
  BY HandFrame, Sizes DEF IInv, InHand, TypeOK, Store
<1>1. TypeOK'
  <2>1. frame_saturated' \subseteq 0 .. frame_idx' - 1 /\ frame_idx' \in 0 .. num_frames'
    <3>1. frame_idx' = frame_idx + 1 /\ num_frames' = num_frames
          /\ frame_saturated' \subseteq frame_saturated \union {frame_idx}
      BY DEF Store
    <3>2. frame_saturated \subseteq 0 .. frame_idx - 1 BY DEF IInv, TypeOK
    <3> QED BY <1>h, <3>1, <3>2
  <2>2. /\ spectrum' \in [Indices -> Spectra \union {Empty}]
        /\ matrix' \in [Array -> Spectra \union {Empty}] /\ g_valid' \subseteq Array
    BY <1>h DEF IInv, TypeOK, Store, InArray
  <2>3. UNCHANGED <<scan, num_frames, is_saturated, pl_format_error, mm2s, s2mm, dma_rx_buf,
                    fft, doubling, stalled, cxi6, newest, before>>
        /\ pc' \in {"arm", "analyse"}
    BY DEF Store, fpgaVars, sent
  <2>4. Indices' = Indices /\ Array' = Array /\ Spectra' = Spectra /\ Empty' = Empty
    BY DEF Indices, Array, Spectra, Empty
  <2> QED BY <2>1, <2>2, <2>3, <2>4 DEF IInv, TypeOK
<1>2. InHand' BY <1>h DEF Store, InHand
<1>3. StoresAgree'
  <2>1. PICK bad \in BOOLEAN :
          /\ frame_saturated' = frame_saturated \union (IF bad THEN {frame_idx} ELSE {})
          /\ IF InArray /\ ~bad
             THEN /\ matrix' = [matrix EXCEPT ![frame_idx] = dma_rx_buf]
                  /\ g_valid' = g_valid \union {frame_idx}
             ELSE UNCHANGED <<matrix, g_valid>>
    BY DEF Store, IInv, TypeOK
  <2>2. /\ g_valid = Analyzed \intersect Array
        /\ \A i \in g_valid : matrix[i] = spectrum[i] /\ i \in 0 .. frame_idx - 1
    BY DEF IInv, StoresAgree, Store, Analyzed
  <2>3. /\ frame_idx' = frame_idx + 1 /\ frame_saturated \subseteq 0 .. frame_idx - 1
        /\ spectrum' = [spectrum EXCEPT ![frame_idx] = dma_rx_buf]
        /\ DOMAIN spectrum = Indices /\ DOMAIN matrix = Array /\ Array' = Array
    BY DEF IInv, TypeOK, Store, Array
  <2>4. Analyzed' = Analyzed \union (IF bad THEN {} ELSE {frame_idx})
    <3>1. frame_idx' - 1 = frame_idx /\ frame_idx \notin frame_saturated
      BY <1>h, <2>3
    <3>2. Analyzed' = {i \in 0 .. frame_idx : i \notin frame_saturated'}
      BY <3>1 DEF Analyzed
    <3>3. \A i \in 0 .. frame_idx - 1 : i \notin frame_saturated' <=> i \notin frame_saturated
      BY <1>h, <2>1
    <3>4. frame_idx \in frame_saturated' <=> bad BY <2>1, <3>1
    <3>5. 0 .. frame_idx = (0 .. frame_idx - 1) \union {frame_idx}
          /\ frame_idx \notin 0 .. frame_idx - 1
      BY <1>h
    <3> HIDE DEF Analyzed
    <3>6. CASE bad
      <4>1. \A i : i \in Analyzed' <=> i \in Analyzed
        BY <3>2, <3>3, <3>4, <3>5, <3>6 DEF Analyzed
      <4> QED BY <3>6, <4>1
    <3>7. CASE ~bad
      <4>1. \A i : i \in Analyzed' <=> i \in Analyzed \/ i = frame_idx
        BY <3>2, <3>3, <3>4, <3>5, <3>7 DEF Analyzed
      <4> QED BY <3>7, <4>1
    <3> QED BY <3>6, <3>7
  <2>5. g_valid' = Analyzed' \intersect Array
    <3>1. CASE InArray /\ ~bad BY <2>1, <2>2, <2>4, <3>1 DEF InArray
    <3>2. CASE bad BY <2>1, <2>2, <2>4, <3>2
    <3>3. CASE ~InArray /\ ~bad BY <2>1, <2>2, <2>4, <3>3 DEF InArray
    <3> QED BY <3>1, <3>2, <3>3
  <2>6. \A i \in g_valid' : matrix'[i] = spectrum'[i]
    <3>1. \A i \in g_valid : i # frame_idx /\ i \in Array BY <1>h, <2>2
    <3>2. CASE InArray /\ ~bad BY <1>h, <2>1, <2>2, <2>3, <3>1, <3>2 DEF InArray
    <3>3. CASE ~(InArray /\ ~bad) BY <2>1, <2>2, <2>3, <3>1, <3>3
    <3> QED BY <3>2, <3>3
  <2> QED BY <2>3, <2>5, <2>6 DEF StoresAgree
<1>4. ASSUME Fresh PROVE Fresh'
  <2>h. dma_rx_buf = <<scan, frame_idx>> BY <1>4 DEF Fresh, Matched, Store
  <2>1. Matched'
    BY <1>4 DEF Fresh, Store, Matched, Busy, Waiting, fpgaVars, Spectra, Indices
  <2>2. StoredFresh'
    <3>1. spectrum' = [spectrum EXCEPT ![frame_idx] = <<scan, frame_idx>>] /\ scan' = scan
          /\ frame_idx' = frame_idx + 1 /\ DOMAIN spectrum = Indices
      BY <2>h DEF Store, IInv, TypeOK
    <3>2. \A i \in 0 .. frame_idx - 1 : spectrum[i] = <<scan, i>> /\ i \in Indices
      BY <1>h, <1>4, Sizes DEF IInv, TypeOK, Fresh, StoredFresh, Store, Indices
    <3>3. \A i \in 0 .. frame_idx : spectrum'[i] = <<scan, i>>
      BY <1>h, <3>1, <3>2
    <3> QED BY <1>h, <3>1, <3>3 DEF StoredFresh
  <2>3. OwnSpectra'
    <3>1. UNCHANGED <<summary, scan>> BY DEF Store
    <3>2. \A i \in g_valid' : matrix'[i] = <<scan, i>>
      BY <1>4, <2>h DEF IInv, TypeOK, Fresh, OwnSpectra, Store, InArray
    <3> QED BY <1>4, <3>1, <3>2 DEF Fresh, OwnSpectra
  <2> QED BY <2>1, <2>2, <2>3 DEF Fresh
<1>d. UNCHANGED doubling BY DEF Store, fpgaVars
<1> QED BY <1>d, <1>1, <1>2, <1>3, <1>4 DEF IInv

\* What is reported is what was stored.
LEMMA AnalyseStep == ASSUME IInv, Analyse PROVE IInv'
<1>1. TypeOK' BY DEF IInv, TypeOK, Analyse, scanVars, fpgaVars, Array, Indices, Spectra
<1>2. InHand' BY DEF Analyse, InHand
<1>3. summary'.used = [i \in Analyzed |-> spectrum[i]] /\ summary'.scan = scan
  BY DEF Analyse
<1>4. StoresAgree' BY DEF Analyse, StoresAgree
<1>5. ASSUME Fresh PROVE Fresh'
  <2>1. Matched'
    BY <1>5 DEF Fresh, Analyse, Matched, Busy, Waiting, scanVars, fpgaVars, Spectra, Indices
  <2>2. StoredFresh' BY DEF Analyse, StoredFresh
  <2>3. OwnSpectra'
    <3>2. \A i \in Analyzed : spectrum[i] = <<scan, i>>
      BY <1>5 DEF Fresh, StoredFresh, Analyse, Analyzed
    <3>3. \A i \in g_valid' : matrix'[i] = <<scan', i>>
      BY <1>5 DEF Fresh, OwnSpectra, Analyse, scanVars
    <3> QED BY <1>3, <3>2, <3>3 DEF OwnSpectra
  <2> QED BY <2>1, <2>2, <2>3 DEF Fresh
<1>d. UNCHANGED doubling BY DEF Analyse, fpgaVars
<1> QED BY <1>d, <1>1, <1>2, <1>4, <1>5 DEF IInv

\* The FPGA takes the frame on its way in; it becomes the only one inside.
LEMMA FpgaTakesStep == ASSUME IInv, FpgaTakes PROVE IInv'
<1>1. mm2s \in Spectra BY DEF IInv, TypeOK, FpgaTakes
<1>2. fft' \in Seq(Spectra) /\ mm2s' = Empty
  <2>1. fft \in Seq(Spectra) BY DEF IInv, TypeOK
  <2>2. Append(fft, mm2s) \in Seq(Spectra) /\ fft \o <<mm2s, mm2s>> \in Seq(Spectra)
    BY <1>1, <2>1
  <2> QED BY <2>2 DEF FpgaTakes
<1>d. doubling' \in {"never", "done"} /\ (doubling' = "never" => doubling = "never")
  BY DEF IInv, TypeOK, FpgaTakes
<1>u. UNCHANGED <<pc, scan, num_frames, frame_idx, is_saturated, frame_saturated, spectrum,
                  matrix, g_valid, pl_format_error, s2mm, dma_rx_buf, stalled, cxi6, newest,
                  before>>
  BY DEF FpgaTakes, scanVars, sent
<1>3. TypeOK'
  <2>1. {mm2s', dma_rx_buf', newest', before'} \subseteq Spectra' \union {Empty'}
    BY <1>2, <1>u DEF IInv, TypeOK, Spectra, Indices, Empty
  <2>2. fft' \in Seq(Spectra') BY <1>2 DEF Spectra, Indices
  <2>3. doubling' \in {"never", "next", "done"} BY <1>d
  <2> QED BY <1>u, <2>1, <2>2, <2>3 DEF IInv, TypeOK, Array, Indices, Spectra, Empty
<1>4. InHand' /\ StoresAgree' BY KeepsStores DEF IInv, FpgaTakes, scanVars, InHand
<1>5. ASSUME Fresh, doubling = "never" PROVE Fresh'
  <2>1. fft = <<>> /\ s2mm
    BY <1>1, <1>5, NotEmpty DEF Fresh, Matched, Busy, Waiting, FpgaTakes
  <2>2. fft' = <<mm2s>> BY <1>5, <2>1 DEF FpgaTakes
  <2>3. \E f \in Spectra : Waiting(f)'
    <3>1. PICK f \in Spectra : f = mm2s BY <1>1
    <3> QED BY <1>2, <2>2, <3>1 DEF Waiting
  <2>4. pc \in {"sending", "receiving"} => mm2s = <<scan, frame_idx>>
    BY <1>1, <1>5, <2>1, NotEmpty DEF Fresh, Matched, Waiting, Empty, FpgaTakes
  <2>5. UNCHANGED <<pc, scan, frame_idx, s2mm, dma_rx_buf>> BY DEF FpgaTakes, scanVars
  <2>6. pc # "send" /\ pc # "store"
    BY <1>5, <2>1 DEF Fresh, Matched, Busy, FpgaTakes
  <2>7. Matched'
    BY <1>2, <2>1, <2>2, <2>3, <2>4, <2>5, <2>6 DEF Matched, Waiting, Spectra, Indices
  <2>8. StoredFresh' BY <1>5 DEF Fresh, FpgaTakes, scanVars, StoredFresh
  <2>9. OwnSpectra' BY <1>5, KeepsResults DEF Fresh, FpgaTakes, scanVars
  <2> QED BY <2>7, <2>8, <2>9 DEF Fresh
<1> QED BY <1>d, <1>3, <1>4, <1>5 DEF IInv

\* It delivers that frame, and is empty.
LEMMA FpgaDeliversStep == ASSUME IInv, FpgaDelivers PROVE IInv'
<1>1. TypeOK'
  <2>1. {mm2s', dma_rx_buf'} \subseteq Spectra \union {Empty} /\ fft' \in Seq(Spectra)
    <3>1. fft \in Seq(Spectra) /\ fft # <<>> BY DEF IInv, TypeOK, FpgaDelivers
    <3>2. Head(fft) \in Spectra /\ Tail(fft) \in Seq(Spectra) BY <3>1
    <3> QED BY <3>2 DEF IInv, TypeOK, FpgaDelivers
  <2>2. {s2mm, stalled, cxi6, is_saturated, pl_format_error}' \subseteq BOOLEAN
        /\ UNCHANGED doubling
    BY DEF IInv, TypeOK, FpgaDelivers, scanVars
  <2>3. UNCHANGED <<pc, scan, num_frames, frame_idx, frame_saturated, g_valid, spectrum,
                    matrix, newest, before>>
    BY DEF FpgaDelivers, scanVars, sent
  <2>4. Indices' = Indices /\ Array' = Array /\ Spectra' = Spectra /\ Empty' = Empty
    BY DEF Indices, Array, Spectra, Empty
  <2> QED BY <2>1, <2>2, <2>3, <2>4 DEF IInv, TypeOK
<1>2. InHand' /\ StoresAgree' BY KeepsStores DEF IInv, FpgaDelivers, scanVars, InHand
<1>3. ASSUME Fresh PROVE Fresh'
  <2>1. PICK f \in Spectra : fft = <<f>> /\ mm2s = Empty
    BY <1>3 DEF Fresh, Matched, Busy, Waiting, FpgaDelivers
  <2>2. dma_rx_buf' = f /\ fft' = <<>> /\ ~s2mm' /\ mm2s' = Empty
    BY <2>1 DEF FpgaDelivers
  <2>3. pc \in {"sending", "receiving"} => f = <<scan, frame_idx>>
    <3> SUFFICES ASSUME pc \in {"sending", "receiving"} PROVE f = <<scan, frame_idx>>
      OBVIOUS
    <3>1. Waiting(<<scan, frame_idx>>) BY <1>3 DEF Fresh, Matched, FpgaDelivers
    <3>2. Head(fft) = f BY <2>1
    <3> QED BY <2>1, <3>1, <3>2 DEF Waiting
  <2>4. UNCHANGED <<pc, scan, frame_idx>> BY DEF FpgaDelivers, scanVars
  <2>5. pc # "send" /\ pc # "store" BY <1>3, <2>1 DEF Fresh, Matched, Busy, FpgaDelivers
  <2>6. Matched' BY <2>2, <2>3, <2>4, <2>5 DEF Matched, Busy, Empty
  <2>7. StoredFresh' BY <1>3 DEF Fresh, FpgaDelivers, scanVars, StoredFresh
  <2>8. OwnSpectra' BY <1>3, KeepsResults DEF Fresh, FpgaDelivers, scanVars
  <2> QED BY <2>6, <2>7, <2>8 DEF Fresh
<1>d. UNCHANGED doubling BY DEF FpgaDelivers
<1> QED BY <1>d, <1>1, <1>2, <1>3 DEF IInv

\* Nothing that the invariant speaks of changes but whether the FPGA is stalled.
LEMMA StallStep ==
  ASSUME IInv, FpgaStalls \/ FpgaResumes \/ UNCHANGED vars PROVE IInv'
<1>1. UNCHANGED <<pc, scanVars, summary, mm2s, s2mm, dma_rx_buf, fft, doubling, cxi6, sent>>
      /\ stalled' \in {TRUE, FALSE, stalled}
  BY DEF FpgaStalls, FpgaResumes, vars, fpgaVars
<1>2. TypeOK' BY <1>1 DEF IInv, TypeOK, scanVars, sent, Array, Indices, Spectra
<1>3. InHand' /\ StoresAgree' BY <1>1, KeepsStores DEF IInv, scanVars, InHand
<1>4. ASSUME Fresh PROVE Fresh'
  <2>1. Matched' BY <1>1, <1>4 DEF Fresh, scanVars, Matched, Busy, Waiting, Spectra, Indices
  <2>2. StoredFresh' BY <1>1, <1>4 DEF Fresh, scanVars, StoredFresh
  <2>3. OwnSpectra' BY <1>1, <1>4, KeepsResults DEF Fresh, scanVars
  <2> QED BY <2>1, <2>2, <2>3 DEF Fresh
<1> QED BY <1>1, <1>2, <1>3, <1>4 DEF IInv

LEMMA StepInvariant == IInv /\ [Next]_vars => IInv'
<1> SUFFICES ASSUME IInv, [Next]_vars PROVE IInv' OBVIOUS
<1>1. CASE \E n \in 1 .. MaxFrames : BeginScan(n) BY <1>1, BeginScanStep
<1>2. CASE Arm BY <1>2, ArmStep
<1>3. CASE Send BY <1>3, SendStep
<1>4. CASE SendWait \/ RecvWait BY <1>4, WaitStep
<1>5. CASE FormatMismatch BY <1>5, FormatMismatchStep
<1>6. CASE Store BY <1>6, StoreStep
<1>7. CASE Analyse BY <1>7, AnalyseStep
<1>8. CASE FpgaTakes BY <1>8, FpgaTakesStep
<1>9. CASE FpgaDelivers BY <1>9, FpgaDeliversStep
<1>10. CASE FpgaStalls \/ FpgaResumes \/ UNCHANGED vars BY <1>10, StallStep
<1> QED
  BY <1>1, <1>2, <1>3, <1>4, <1>5, <1>6, <1>7, <1>8, <1>9, <1>10 DEF Next, Main, Fpga

-----------------------------------------------------------------------------
(***************************************************************************)
(* An FPGA that repeats a spectrum.  What counts is the number of frames   *)
(* on their way less those the CPU waits for: the lag.  It is 0 or 1 from  *)
(* one scan to the next, and a refused transfer can only bring it back to  *)
(* 0, so that no packet is older than the frame sent just before, in the   *)
(* scan or before it.                                                      *)
(***************************************************************************)
Cur == <<scan, frame_idx>>

\* What may be stored for frame i of the scan.
Near(f, i) ==
  \/ f = <<scan, i>>
  \/ i > 0 /\ f = <<scan, i - 1>>
  \/ i = 0 /\ f = before

StoredNear == pc # "wait" => \A i \in 0 .. frame_idx - 1 : Near(spectrum[i], i)

Pending == Len(fft) + (IF mm2s = Empty THEN 0 ELSE 1)
Expected == IF s2mm THEN 1 ELSE 0

Between ==
  pc \in {"wait", "analyse"} \/ (pc = "arm" /\ frame_idx = 0) =>
    Pending = Expected \/ Pending = Expected + 1

BeforeArm ==
  pc = "arm" /\ frame_idx > 0 =>
    /\ mm2s = Empty /\ ~s2mm
    /\ Len(fft) = 0 \/ (Len(fft) = 1 /\ fft[1] = <<scan, frame_idx - 1>>)

BeforeSend ==
  pc = "send" =>
    /\ frame_idx = 0 => Pending = 0 \/ (s2mm /\ Pending = 1)
    /\ frame_idx > 0 =>
         /\ mm2s = Empty
         /\ Len(fft) = 0 \/ (s2mm /\ Len(fft) = 1 /\ fft[1] = <<scan, frame_idx - 1>>)
    /\ ~s2mm => Near(dma_rx_buf, frame_idx)

UnderWay ==
  pc \in {"sending", "receiving", "store"} =>
    /\ pc # "sending" => mm2s = Empty
    /\ pc = "store" => ~s2mm
    /\ s2mm =>
         \/ mm2s = Cur /\ Len(fft) = 0
         \/ mm2s = Cur /\ Len(fft) = 1 /\ Near(fft[1], frame_idx)
         \/ mm2s = Empty /\ Len(fft) = 1 /\ fft[1] = Cur
         \/ mm2s = Empty /\ Len(fft) = 2 /\ fft[2] = Cur /\ Near(fft[1], frame_idx)
    /\ ~s2mm =>
         /\ Near(dma_rx_buf, frame_idx)
         /\ \/ mm2s = Cur /\ Len(fft) = 0
            \/ mm2s = Empty /\ Len(fft) = 1 /\ fft[1] = Cur
            \/ mm2s = Empty /\ Len(fft) = 0

\* The channels keep the order: the newest frame is the last of those under
\* way, and until a scan sends its first that is still the one before the scan.
InOrder ==
  /\ mm2s # Empty => mm2s = newest
  /\ mm2s = Empty /\ Len(fft) > 0 => fft[Len(fft)] = newest
  /\ pc \in {"arm", "send"} /\ frame_idx = 0 => before = newest

Lag == Between /\ BeforeArm /\ BeforeSend /\ UnderWay
Lagged == StoredNear /\ Lag /\ InOrder

LEMMA InitLagged == Init => Lagged
<1> SUFFICES ASSUME Init PROVE Lagged OBVIOUS
<1>1. Len(fft) = 0 /\ mm2s = Empty /\ s2mm = FALSE /\ pc = "wait" BY DEF Init
<1>2. Pending = 0 /\ Expected = 0 BY <1>1 DEF Pending, Expected
<1> QED
  BY <1>1, <1>2 DEF Lagged, Lag, StoredNear, Between, BeforeArm, BeforeSend, UnderWay, InOrder

\* The facts about one state that the steps use.
LEMMA Channel ==
  ASSUME IInv
  PROVE  /\ fft \in Seq(Spectra) /\ Len(fft) \in Nat
         /\ mm2s \in Spectra \union {Empty} /\ s2mm \in BOOLEAN /\ frame_idx \in Nat
         /\ mm2s = Empty => Pending = Len(fft)
         /\ mm2s # Empty => Pending = Len(fft) + 1
         /\ s2mm => Expected = 1
         /\ ~s2mm => Expected = 0
<1>1. fft \in Seq(Spectra) /\ mm2s \in Spectra \union {Empty} /\ s2mm \in BOOLEAN
      /\ frame_idx \in Nat
  BY Sizes DEF IInv, TypeOK
<1> QED BY <1>1 DEF Pending, Expected

\* The frame in hand is a frame, and no spectrum stands for an empty channel.
LEMMA CurNotEmpty == Cur # Empty
BY DEF Cur, Empty

\* Steps that move nothing on the channels.
LEMMA ChannelsKept ==
  UNCHANGED <<mm2s, s2mm, fft>> => Pending' = Pending /\ Expected' = Expected
BY DEF Pending, Expected, Empty

\* Steps that leave the spectra of the scan, and steps that send nothing.
LEMMA SpectraKept ==
  UNCHANGED <<scan, spectrum, frame_idx, before>> =>
    (pc # "wait" /\ StoredNear => StoredNear')
BY DEF StoredNear, Near

LEMMA OrderKept ==
  UNCHANGED <<mm2s, fft, newest, before, frame_idx>>
  /\ (pc' \in {"arm", "send"} => pc \in {"arm", "send"}) => (InOrder => InOrder')
BY DEF InOrder, Empty

LEMMA BeginScanLagged ==
  ASSUME IInv, Lagged, NEW n \in 1 .. MaxFrames, BeginScan(n)
  PROVE  Lagged'
<1>1. /\ pc = "wait" /\ pc' = "arm" /\ frame_idx' = 0
      /\ UNCHANGED <<mm2s, s2mm, dma_rx_buf, fft, spectrum, newest>> /\ before' = newest
  BY DEF BeginScan, fpgaVars
<1>2. Between' BY <1>1, ChannelsKept DEF Lagged, Lag, Between
<1>3. BeforeArm' /\ BeforeSend' /\ UnderWay' BY <1>1 DEF BeforeArm, BeforeSend, UnderWay
<1>4. InOrder' BY <1>1 DEF Lagged, InOrder, Empty
<1>5. StoredNear' BY <1>1 DEF StoredNear
<1> QED BY <1>2, <1>3, <1>4, <1>5 DEF Lagged, Lag

LEMMA ArmLagged == ASSUME IInv, Lagged, Arm PROVE Lagged'
<1>1. /\ pc = "arm"
      /\ UNCHANGED <<scan, spectrum, frame_idx, mm2s, dma_rx_buf, fft, newest, before>>
      /\ \/ s2mm /\ pc' = "analyse" /\ s2mm' = s2mm
         \/ ~s2mm /\ pc' = "send" /\ s2mm' = TRUE
  BY DEF Arm, StartRefused, fpgaVars, sent
<1>2. StoredNear' /\ InOrder' BY <1>1, SpectraKept, OrderKept DEF Lagged
<1>3. CASE s2mm /\ pc' = "analyse" /\ s2mm' = s2mm
  <2>1. Pending' = Pending /\ Expected' = Expected BY <1>1, <1>3, ChannelsKept
  <2>2. frame_idx = 0 BY <1>1, <1>3, Channel DEF Lagged, Lag, BeforeArm
  <2>3. Between' BY <1>1, <2>1, <2>2 DEF Lagged, Lag, Between
  <2> QED BY <1>2, <1>3, <2>3 DEF Lagged, Lag, BeforeArm, BeforeSend, UnderWay
<1>4. CASE ~s2mm /\ pc' = "send" /\ s2mm' = TRUE
  <2>1. Pending' = Pending BY <1>1 DEF Pending, Empty
  <2>2. frame_idx = 0 => Pending = 0 \/ Pending = 1
    BY <1>1, <1>4, Channel DEF Lagged, Lag, Between
  <2>3. frame_idx > 0 =>
          /\ mm2s = Empty
          /\ Len(fft) = 0 \/ (Len(fft) = 1 /\ fft[1] = <<scan, frame_idx - 1>>)
    BY <1>1 DEF Lagged, Lag, BeforeArm
  <2>4. BeforeSend' BY <1>1, <1>4, <2>1, <2>2, <2>3 DEF BeforeSend, Empty
  <2> QED BY <1>2, <1>4, <2>4 DEF Lagged, Lag, Between, BeforeArm, UnderWay
<1> QED BY <1>1, <1>3, <1>4

LEMMA SendLagged == ASSUME IInv, Lagged, Send PROVE Lagged'
<1>1. /\ pc = "send"
      /\ UNCHANGED <<scan, spectrum, frame_idx, s2mm, dma_rx_buf, fft, before>>
      /\ \/ mm2s = Empty /\ pc' = "sending" /\ mm2s' = Cur /\ newest' = mm2s'
         \/ mm2s # Empty /\ pc' = "analyse" /\ UNCHANGED <<mm2s, newest>>
  BY DEF Send, fpgaVars, scanVars, Cur
<1>2. StoredNear' BY <1>1, SpectraKept DEF Lagged
<1>3. /\ frame_idx = 0 => Pending = 0 \/ (s2mm /\ Pending = 1)
      /\ frame_idx > 0 =>
           /\ mm2s = Empty
           /\ Len(fft) = 0 \/ (s2mm /\ Len(fft) = 1 /\ fft[1] = <<scan, frame_idx - 1>>)
      /\ ~s2mm => Near(dma_rx_buf, frame_idx)
  BY <1>1 DEF Lagged, Lag, BeforeSend
<1>4. CASE mm2s = Empty /\ pc' = "sending" /\ mm2s' = Cur /\ newest' = mm2s'
  <2>1. Cur' = Cur /\ Near(dma_rx_buf, frame_idx)' = Near(dma_rx_buf, frame_idx)
    BY <1>1 DEF Cur, Near
  <2>2. Len(fft) = 0 \/ (s2mm /\ Len(fft) = 1 /\ Near(fft[1], frame_idx)')
    <3>1. CASE frame_idx = 0
      <4>1. Len(fft) = 0 \/ (s2mm /\ Len(fft) = 1) BY <1>3, <1>4, <3>1, Channel
      <4>2. ASSUME Len(fft) = 1 PROVE fft[1] = before
        BY <1>1, <1>4, <3>1, <4>2 DEF Lagged, InOrder
      <4> QED BY <1>1, <3>1, <4>1, <4>2 DEF Near
    <3>2. CASE frame_idx > 0 BY <1>1, <1>3, <3>2 DEF Near
    <3> QED BY <3>1, <3>2, Channel
  <2>3. UnderWay' BY <1>1, <1>3, <1>4, <2>1, <2>2 DEF UnderWay, Near, Cur
  <2>4. InOrder'
    <3>1. mm2s' # Empty /\ Empty' = Empty BY <1>4, CurNotEmpty DEF Empty
    <3> QED BY <1>4, <3>1 DEF InOrder
  <2> QED BY <1>2, <1>4, <2>3, <2>4 DEF Lagged, Lag, Between, BeforeArm, BeforeSend
<1>5. CASE mm2s # Empty /\ pc' = "analyse" /\ UNCHANGED <<mm2s, newest>>
  <2>0. InOrder' BY <1>1, <1>5, OrderKept DEF Lagged
  <2>1. Pending' = Pending /\ Expected' = Expected BY <1>1, <1>5, ChannelsKept
  <2>2. frame_idx = 0 BY <1>3, <1>5, Channel
  <2>3. Pending = 1 /\ s2mm BY <1>3, <1>5, <2>2, Channel
  <2>4. Between' BY <2>1, <2>3, Channel DEF Between
  <2> QED BY <1>2, <1>5, <2>0, <2>4 DEF Lagged, Lag, BeforeArm, BeforeSend, UnderWay
<1> QED BY <1>1, <1>4, <1>5

\* Giving up at any wait leaves one frame more than expected, or none.
LEMMA GivenUp ==
  ASSUME IInv, Lagged, pc \in {"sending", "receiving", "store"}
  PROVE  Pending = Expected \/ Pending = Expected + 1
<1>1. CASE s2mm
  <2>1. \/ mm2s = Cur /\ Len(fft) = 0
        \/ mm2s = Cur /\ Len(fft) = 1
        \/ mm2s = Empty /\ Len(fft) = 1
        \/ mm2s = Empty /\ Len(fft) = 2
    BY <1>1 DEF Lagged, Lag, UnderWay
  <2>2. Pending = 1 \/ Pending = 2
    <3>1. CASE mm2s = Cur
      <4>1. mm2s # Empty BY <3>1, CurNotEmpty
      <4>2. Pending = Len(fft) + 1 BY <4>1, Channel
      <4> QED BY <2>1, <4>1, <4>2
    <3>2. CASE mm2s = Empty
      <4>1. mm2s # Cur BY <3>2, CurNotEmpty
      <4>2. Pending = Len(fft) BY <3>2, Channel
      <4> QED BY <2>1, <4>1, <4>2
    <3> QED BY <2>1, <3>1, <3>2
  <2> QED BY <1>1, <2>2, Channel
<1>2. CASE ~s2mm
  <2>1. \/ mm2s = Cur /\ Len(fft) = 0
        \/ mm2s = Empty /\ Len(fft) = 1
        \/ mm2s = Empty /\ Len(fft) = 0
    BY <1>2 DEF Lagged, Lag, UnderWay
  <2>2. Pending = 0 \/ Pending = 1
    <3>1. CASE mm2s = Cur
      <4>1. mm2s # Empty BY <3>1, CurNotEmpty
      <4>2. Pending = Len(fft) + 1 BY <4>1, Channel
      <4> QED BY <2>1, <4>1, <4>2
    <3>2. CASE mm2s = Empty
      <4>1. mm2s # Cur BY <3>2, CurNotEmpty
      <4>2. Pending = Len(fft) BY <3>2, Channel
      <4> QED BY <2>1, <4>1, <4>2
    <3> QED BY <2>1, <3>1, <3>2
  <2> QED BY <1>2, <2>2, Channel
<1> QED BY <1>1, <1>2

LEMMA WaitLagged == ASSUME IInv, Lagged, SendWait \/ RecvWait \/ FormatMismatch PROVE Lagged'
<1>1. /\ pc \in {"sending", "receiving", "store"}
      /\ UNCHANGED <<scan, spectrum, frame_idx, mm2s, s2mm, dma_rx_buf, fft, newest, before>>
      /\ \/ pc' = "analyse"
         \/ pc = "sending" /\ pc' = "receiving" /\ mm2s = Empty
         \/ pc = "receiving" /\ pc' = "store" /\ ~s2mm
  BY DEF SendWait, GiveUpSending, RecvWait, FormatMismatch, fpgaVars, scanVars, sent
<1>2. StoredNear' /\ InOrder' BY <1>1, SpectraKept, OrderKept DEF Lagged
<1>3. Between'
  <2>1. Pending' = Pending /\ Expected' = Expected BY <1>1, ChannelsKept
  <2> QED BY <1>1, <2>1, GivenUp DEF Between
<1>4. BeforeArm' /\ BeforeSend' BY <1>1 DEF BeforeArm, BeforeSend
<1>5. UnderWay'
  <2>1. CASE pc' = "analyse" BY <2>1 DEF UnderWay
  <2>2. CASE pc' = "receiving" /\ mm2s = Empty
    BY <1>1, <2>2 DEF Lagged, Lag, UnderWay, Near, Cur, Empty
  <2>3. CASE pc = "receiving" /\ pc' = "store" /\ ~s2mm
    BY <1>1, <2>3 DEF Lagged, Lag, UnderWay, Near, Cur, Empty
  <2> QED BY <1>1, <2>1, <2>2, <2>3
<1> QED BY <1>2, <1>3, <1>4, <1>5 DEF Lagged, Lag

LEMMA StoreLagged == ASSUME IInv, Lagged, Store PROVE Lagged'
<1>1. /\ pc = "store" /\ UNCHANGED <<scan, mm2s, s2mm, dma_rx_buf, fft, newest, before>>
      /\ frame_idx' = frame_idx + 1 /\ pc' \in {"arm", "analyse"}
      /\ spectrum' = [spectrum EXCEPT ![frame_idx] = dma_rx_buf]
  BY DEF Store, fpgaVars, sent
<1>2. /\ frame_idx \in Nat /\ frame_idx \in Indices /\ DOMAIN spectrum = Indices
      /\ num_frames <= MaxFrames
  BY HandFrame, Channel, Sizes DEF IInv, TypeOK, InHand, Store
<1>3. /\ ~s2mm /\ mm2s = Empty /\ Near(dma_rx_buf, frame_idx)
      /\ Len(fft) = 0 \/ (Len(fft) = 1 /\ fft[1] = Cur)
  BY <1>1, CurNotEmpty DEF Lagged, Lag, UnderWay
<1>4. InOrder' BY <1>1, <1>2 DEF Lagged, InOrder, Empty
<1>5. StoredNear'
  <2>1. \A i \in 0 .. frame_idx - 1 : i \in Indices /\ i # frame_idx /\ Near(spectrum[i], i)
    BY <1>1, <1>2, Sizes DEF Lagged, StoredNear, Indices
  <2>2. \A i \in 0 .. frame_idx : Near(spectrum'[i], i)
    BY <1>1, <1>2, <1>3, <2>1
  <2>3. \A i \in 0 .. frame_idx : Near(spectrum[i], i)'
    BY <1>1, <2>2 DEF Near
  <2>4. frame_idx' - 1 = frame_idx BY <1>1, <1>2
  <2> QED BY <2>3, <2>4 DEF StoredNear
<1>6. Between'
  <2>1. Pending' = Pending /\ Expected' = Expected BY <1>1, ChannelsKept
  <2>2. Expected = 0 /\ (Pending = 0 \/ Pending = 1) BY <1>3, Channel
  <2> QED BY <2>1, <2>2 DEF Between
<1>7. BeforeArm'
  <2>1. frame_idx' - 1 = frame_idx BY <1>1, <1>2
  <2> QED BY <1>1, <1>3, <2>1 DEF BeforeArm, Cur, Empty
<1>8. BeforeSend' /\ UnderWay' BY <1>1 DEF BeforeSend, UnderWay
<1> QED BY <1>4, <1>5, <1>6, <1>7, <1>8 DEF Lagged, Lag

LEMMA AnalyseLagged == ASSUME IInv, Lagged, Analyse PROVE Lagged'
<1>1. /\ pc = "analyse" /\ pc' = "wait"
      /\ UNCHANGED <<scan, spectrum, frame_idx, mm2s, s2mm, dma_rx_buf, fft, newest>>
  BY DEF Analyse, fpgaVars, scanVars
<1>2. InOrder' BY <1>1 DEF Lagged, InOrder, Empty
<1>3. Between' BY <1>1, ChannelsKept DEF Lagged, Lag, Between
<1>4. StoredNear' /\ BeforeArm' /\ BeforeSend' /\ UnderWay'
  BY <1>1 DEF StoredNear, BeforeArm, BeforeSend, UnderWay
<1> QED BY <1>2, <1>3, <1>4 DEF Lagged, Lag

\* Only the repetition raises the lag, and there was none before it.
LEMMA FpgaTakesLagged == ASSUME IInv, Lagged, FpgaTakes PROVE Lagged'
<1>1. /\ UNCHANGED <<pc, scan, spectrum, frame_idx, s2mm, dma_rx_buf, newest, before>>
      /\ mm2s # Empty /\ mm2s \in Spectra /\ mm2s' = Empty
      /\ \/ doubling # "next" /\ fft' = Append(fft, mm2s)
         \/ doubling = "next" /\ fft' = fft \o <<mm2s, mm2s>>
  BY Channel DEF FpgaTakes, scanVars, sent
<1>2. InOrder'
  <2>1. fft'[Len(fft')] = mm2s BY <1>1, Channel
  <2> QED BY <1>1, <2>1 DEF Lagged, InOrder, Empty
<1>3. StoredNear' BY <1>1 DEF Lagged, StoredNear, Near
<1>4. BeforeArm' BY <1>1 DEF Lagged, Lag, BeforeArm
<1>5. /\ Cur' = Cur /\ Expected' = Expected /\ Empty' = Empty
      /\ \A f : Near(f, frame_idx)' = Near(f, frame_idx)
  BY <1>1 DEF Cur, Expected, Empty, Near, Spectra, Indices
<1>6. CASE doubling # "next" /\ fft' = Append(fft, mm2s)
  <2>1. /\ Len(fft') = Len(fft) + 1 /\ fft'[Len(fft) + 1] = mm2s
        /\ Len(fft) >= 1 => fft'[1] = fft[1]
    BY <1>1, <1>6, Channel
  <2>2. Pending' = Pending BY <1>1, <2>1, Channel DEF Pending, Empty
  <2>3. Between' BY <1>1, <1>5, <2>2 DEF Lagged, Lag, Between
  <2>4. BeforeSend'
    <3>1. pc = "send" => frame_idx = 0 BY <1>1, Channel DEF Lagged, Lag, BeforeSend
    <3>2. pc = "send" => Pending = 0 \/ (s2mm /\ Pending = 1)
      BY <3>1 DEF Lagged, Lag, BeforeSend
    <3>3. pc = "send" => s2mm BY <1>1, <3>2, Channel
    <3> QED BY <1>1, <2>2, <3>1, <3>2, <3>3 DEF BeforeSend
  <2>5. UnderWay'
    <3>1. CASE pc = "sending" /\ s2mm
      <4>1. mm2s = Cur /\ (Len(fft) = 0 \/ (Len(fft) = 1 /\ Near(fft[1], frame_idx)))
        BY <1>1, <3>1 DEF Lagged, Lag, UnderWay
      <4>2. CASE Len(fft) = 0
        <5>1. Len(fft') = 1 /\ fft'[1] = Cur BY <2>1, <4>1, <4>2
        <5> QED BY <1>1, <1>5, <3>1, <5>1 DEF UnderWay
      <4>3. CASE Len(fft) = 1 /\ Near(fft[1], frame_idx)
        <5>1. Len(fft') = 2 /\ fft'[2] = Cur /\ fft'[1] = fft[1] BY <2>1, <4>1, <4>3
        <5>2. Near(fft'[1], frame_idx) BY <4>3, <5>1
        <5>3. Near(fft[1], frame_idx)' BY <1>1, <5>2 DEF Near
        <5> QED BY <1>1, <1>5, <3>1, <5>1, <5>3 DEF UnderWay
      <4> QED BY <4>1, <4>2, <4>3
    <3>2. CASE pc = "sending" /\ ~s2mm
      <4>1. mm2s = Cur /\ Len(fft) = 0 /\ Near(dma_rx_buf, frame_idx)
        BY <1>1, <3>2 DEF Lagged, Lag, UnderWay
      <4>2. Len(fft') = 1 /\ fft'[1] = Cur BY <2>1, <4>1
      <4>3. Near(dma_rx_buf, frame_idx)' BY <1>1, <4>1 DEF Near
      <4> QED BY <1>1, <1>5, <3>2, <4>2, <4>3 DEF UnderWay
    <3>3. CASE pc # "sending" BY <1>1, <3>3 DEF Lagged, Lag, UnderWay
    <3> QED BY <3>1, <3>2, <3>3
  <2> QED BY <1>2, <1>3, <1>4, <2>3, <2>4, <2>5 DEF Lagged, Lag
<1>7. CASE doubling = "next" /\ fft' = fft \o <<mm2s, mm2s>>
  <2>1. Matched BY <1>7 DEF IInv, Fresh
  <2>2. s2mm /\ fft = <<>> /\ pc # "send" /\ pc # "store"
    BY <1>1, <2>1, NotEmpty DEF Matched, Busy, Waiting
  <2>3. pc \in {"sending", "receiving"} => mm2s = Cur
    BY <1>1, <2>1, <2>2, NotEmpty DEF Matched, Waiting, Cur
  <2>4. Len(fft') = 2 /\ fft'[1] = mm2s /\ fft'[2] = mm2s BY <1>1, <1>7, <2>2
  <2>5. Pending' = 2 /\ Expected' = 1 BY <1>1, <2>2, <2>4 DEF Pending, Expected, Empty
  <2>6. Between' BY <2>5 DEF Between
  <2>7. BeforeSend' BY <1>1, <2>2 DEF BeforeSend
  <2>8. UnderWay'
    <3>1. CASE pc \in {"sending", "receiving"}
      <4>1. fft'[1] = Cur /\ fft'[2] = Cur BY <2>3, <2>4, <3>1
      <4>2. Near(fft[1], frame_idx)' BY <1>1, <4>1 DEF Near, Cur
      <4> QED BY <1>1, <1>5, <2>2, <2>4, <3>1, <4>1, <4>2 DEF UnderWay
    <3>2. CASE pc \notin {"sending", "receiving"} BY <1>1, <2>2, <3>2 DEF UnderWay
    <3> QED BY <3>1, <3>2
  <2> QED BY <1>2, <1>3, <1>4, <2>6, <2>7, <2>8 DEF Lagged, Lag
<1> QED BY <1>1, <1>6, <1>7

LEMMA FpgaDeliversLagged == ASSUME IInv, Lagged, FpgaDelivers PROVE Lagged'
<1>1. /\ UNCHANGED <<pc, scan, spectrum, frame_idx, mm2s, newest, before>>
      /\ s2mm /\ s2mm' = FALSE /\ fft # <<>>
      /\ dma_rx_buf' = Head(fft) /\ fft' = Tail(fft)
  BY DEF FpgaDelivers, scanVars, sent
<1>2. /\ Len(fft) >= 1 /\ dma_rx_buf' = fft[1] /\ fft[1] \in Spectra
      /\ Len(fft') = Len(fft) - 1
      /\ Len(fft) >= 2 => fft'[1] = fft[2]
  BY <1>1, Channel
<1>3. InOrder'
  <2>1. Len(fft') > 0 => fft'[Len(fft')] = fft[Len(fft)] BY <1>1, <1>2, Channel
  <2> QED BY <1>1, <1>2, <2>1, Channel DEF Lagged, InOrder, Empty
<1>4. StoredNear' BY <1>1 DEF Lagged, StoredNear, Near
<1>5. BeforeArm' BY <1>1 DEF Lagged, Lag, BeforeArm
<1>6. Cur' = Cur /\ Expected = 1 /\ Expected' = 0 /\ Empty' = Empty
  BY <1>1 DEF Cur, Expected, Empty
<1>7. Pending' = Pending - 1 /\ Pending \in Nat
  <2>1. Pending' = Len(fft') + (IF mm2s = Empty THEN 0 ELSE 1) BY <1>1 DEF Pending, Empty
  <2>2. CASE mm2s = Empty BY <1>2, <2>1, <2>2, Channel
  <2>3. CASE mm2s # Empty BY <1>2, <2>1, <2>3, Channel
  <2> QED BY <2>2, <2>3
<1>8. Between' BY <1>1, <1>6, <1>7 DEF Lagged, Lag, Between
<1>9. BeforeSend'
  <2> SUFFICES ASSUME pc = "send" PROVE BeforeSend' BY <1>1 DEF BeforeSend
  <2>1. CASE frame_idx = 0
    <3>1. Pending = 1 BY <1>2, <2>1, Channel DEF Lagged, Lag, BeforeSend
    <3>2. Pending' = 0 BY <1>7, <3>1
    <3>3. mm2s = Empty /\ Len(fft) = 1 BY <1>2, <3>1, Channel
    <3>4. fft[1] = before BY <2>1, <3>3 DEF Lagged, InOrder
    <3>5. Near(dma_rx_buf, frame_idx)' BY <1>1, <1>2, <2>1, <3>4 DEF Near
    <3> QED BY <1>1, <2>1, <3>2, <3>5 DEF BeforeSend
  <2>2. CASE frame_idx > 0
    <3>1. mm2s = Empty /\ Len(fft) = 1 /\ fft[1] = <<scan, frame_idx - 1>>
      BY <1>2, <2>2 DEF Lagged, Lag, BeforeSend
    <3>2. Near(dma_rx_buf, frame_idx)' BY <1>1, <1>2, <2>2, <3>1 DEF Near
    <3>3. Len(fft') = 0 BY <1>2, <3>1
    <3>4. frame_idx # 0 BY <2>2, Channel
    <3> QED BY <1>1, <1>6, <2>2, <3>1, <3>2, <3>3, <3>4 DEF BeforeSend
  <2> QED BY <2>1, <2>2, Channel
<1>10. UnderWay'
  <2> SUFFICES ASSUME pc \in {"sending", "receiving", "store"} PROVE UnderWay'
    BY <1>1 DEF UnderWay
  <2>1. /\ pc # "sending" => mm2s = Empty
        /\ pc # "store"
        /\ \/ mm2s = Cur /\ Len(fft) = 1 /\ Near(fft[1], frame_idx)
           \/ mm2s = Empty /\ Len(fft) = 1 /\ fft[1] = Cur
           \/ mm2s = Empty /\ Len(fft) = 2 /\ fft[2] = Cur /\ Near(fft[1], frame_idx)
    BY <1>1, <1>2 DEF Lagged, Lag, UnderWay
  <2>2. Near(fft[1], frame_idx) => Near(dma_rx_buf, frame_idx)'
    BY <1>1, <1>2 DEF Near
  <2>3. CASE mm2s = Cur /\ Len(fft) = 1 /\ Near(fft[1], frame_idx)
    <3>1. Len(fft') = 0 BY <1>2, <2>3
    <3> QED BY <1>1, <1>6, <2>1, <2>2, <2>3, <3>1 DEF UnderWay
  <2>4. CASE mm2s = Empty /\ Len(fft) = 1 /\ fft[1] = Cur
    <3>1. Len(fft') = 0 BY <1>2, <2>4
    <3>2. Near(fft[1], frame_idx) BY <2>4 DEF Near, Cur
    <3> QED BY <1>1, <1>6, <2>1, <2>2, <2>4, <3>1, <3>2 DEF UnderWay
  <2>5. CASE mm2s = Empty /\ Len(fft) = 2 /\ fft[2] = Cur /\ Near(fft[1], frame_idx)
    <3>1. Len(fft') = 1 /\ fft'[1] = Cur BY <1>2, <2>5
    <3> QED BY <1>1, <1>6, <2>1, <2>2, <2>5, <3>1 DEF UnderWay
  <2> QED BY <2>1, <2>3, <2>4, <2>5
<1> QED BY <1>3, <1>4, <1>5, <1>8, <1>9, <1>10 DEF Lagged, Lag

LEMMA StallLagged ==
  ASSUME IInv, Lagged, FpgaStalls \/ FpgaResumes \/ UNCHANGED vars PROVE Lagged'
<1>1. UNCHANGED <<pc, scan, spectrum, frame_idx, mm2s, s2mm, dma_rx_buf, fft, newest, before>>
  BY DEF FpgaStalls, FpgaResumes, vars, fpgaVars, scanVars, sent
<1>2. Pending' = Pending /\ Expected' = Expected BY <1>1, ChannelsKept
<1>3. InOrder' BY <1>1, OrderKept DEF Lagged
<1>4. StoredNear' BY <1>1 DEF Lagged, StoredNear, Near
<1>5. Between' BY <1>1, <1>2 DEF Lagged, Lag, Between
<1>6. BeforeArm' BY <1>1 DEF Lagged, Lag, BeforeArm, Empty
<1>7. BeforeSend' BY <1>1, <1>2 DEF Lagged, Lag, BeforeSend, Near, Empty
<1>8. UnderWay' BY <1>1 DEF Lagged, Lag, UnderWay, Near, Cur, Empty
<1> QED BY <1>3, <1>4, <1>5, <1>6, <1>7, <1>8 DEF Lagged, Lag

LEMMA StepLagged == IInv /\ Lagged /\ [Next]_vars => Lagged'
<1> SUFFICES ASSUME IInv, Lagged, [Next]_vars PROVE Lagged' OBVIOUS
<1>1. CASE \E n \in 1 .. MaxFrames : BeginScan(n) BY <1>1, BeginScanLagged
<1>2. CASE Arm BY <1>2, ArmLagged
<1>3. CASE Send BY <1>3, SendLagged
<1>4. CASE SendWait \/ RecvWait \/ FormatMismatch BY <1>4, WaitLagged
<1>5. CASE Store BY <1>5, StoreLagged
<1>6. CASE Analyse BY <1>6, AnalyseLagged
<1>7. CASE FpgaTakes BY <1>7, FpgaTakesLagged
<1>8. CASE FpgaDelivers BY <1>8, FpgaDeliversLagged
<1>9. CASE FpgaStalls \/ FpgaResumes \/ UNCHANGED vars BY <1>9, StallLagged
<1> QED
  BY <1>1, <1>2, <1>3, <1>4, <1>5, <1>6, <1>7, <1>8, <1>9 DEF Next, Main, Fpga

-----------------------------------------------------------------------------
(***************************************************************************)
(* Theorems                                                                *)
(***************************************************************************)
\* As long as no spectrum has been put out twice, at most one frame is under way
\* to the FPGA or in it, and it is the one the armed channel waits for; with or
\* without a repetition, the matrix and the spectrum store hold the same frames
\* (the loop of the first pass).
THEOREM InvariantHolds == Spec => []IInv
<1> QED BY InitInvariant, StepInvariant, PTL DEF Spec

\* Types, whatever the FPGA repeats (both DMA channels of main.c).
THEOREM TypeCorrect == Spec => []TypeOK
<1>1. IInv => TypeOK BY DEF IInv
<1> QED BY <1>1, InvariantHolds, PTL

\* On an FPGA that puts out one spectrum per frame every scan is reported from
\* its own spectra, each from its own frame, whatever stalls and whenever it
\* resumes (dma_recv_start, pass2_frames).
THEOREM ReportedFromOwnFrames == Spec => []ResultsFresh
<1>1. IInv => ResultsFresh BY DEF IInv, Fresh, ResultsFresh
<1> QED BY <1>1, InvariantHolds, PTL

\* The elements that the angle is computed from are the clean frames of the
\* scan in hand that have a place in the array, each with the spectrum that the
\* range is computed from, wherever the pass broke off (frame_buffer_init,
\* frame_buffer_store_complex and the spectrum store).
THEOREM AngleAndRangeAgree == Spec => []StoresAgree
<1>1. IInv => StoresAgree BY DEF IInv
<1> QED BY <1>1, InvariantHolds, PTL

\* Though the FPGA repeats a spectrum, none that is reported is more than one
\* frame behind, through stalls, refused transfers and new scans; for the first
\* frame of a scan that is the last frame sent before the scan (the channel that
\* is armed once per frame and refuses to be armed twice).
THEOREM NeverTwoBehind == Spec => []OneBehind
<1>1. Spec => []Lagged
  BY InitInvariant, InitLagged, StepInvariant, StepLagged, PTL DEF Spec
<1>2. Lagged => OneBehind BY DEF Lagged, StoredNear, Near, OneBehind, Analyzed
<1> QED BY <1>1, <1>2, PTL
==================================================================================
