--------------------------------- MODULE ModFft ---------------------------------
(***************************************************************************)
(* The FPGA block between the FFT and the receive DMA, clock by clock      *)
(* (ip/mod_fft_1.0/hdl/mod_fft_v1_0_M00_AXIS.v): it gathers the spectrum   *)
(* of a frame in one of two buffers and streams it to the DMA, while the   *)
(* next one may arrive in the other.  The FFT cannot be held up.           *)
(*                                                                         *)
(* Around it, as main.c and the block design use it: for each frame in     *)
(* turn the CPU arms the DMA's receive channel, hands the frame to the FFT *)
(* and waits until the channel has taken a packet.  The DMA takes a few    *)
(* beats ahead of being armed, and may lower TREADY at any clock: it       *)
(* shares the memory.                                                      *)
(*                                                                         *)
(* The block looks at TREADY when it reads a word, but moves TVALID and    *)
(* TLAST on whether or not the word before was taken.  In the middle of a  *)
(* packet that does no harm.  TREADY low when the first word is read       *)
(* offers the last word of the packet before; low when the last one is     *)
(* read puts TLAST a word early; low a clock later loses the last word.    *)
(* The DMA's port is no part of the sources, so whether that can happen    *)
(* there is open: `disturbed' remembers it, the properties are about a run *)
(* in which it has not.                                                    *)
(*                                                                         *)
(* A word is the number of its frame and its place in the spectrum.        *)
(***************************************************************************)
EXTENDS Naturals, Sequences

CONSTANTS
  Words,       \* NUMBER_OF_OUTPUT_WORDS
  StartCount,  \* C_M_START_COUNT
  Skid,        \* beats the DMA takes while its channel is not armed
  MaxFrames    \* bound: frames sent

ASSUME ModFftAssumption ==
  /\ {Words, StartCount, MaxFrames} \subseteq Nat \ {0}
  /\ Skid \in 1 .. Words - 3

VARIABLES
  mst_exec_state, count, rd_buf, read_pointer, tx_done,
  axis_tvalid_delay, axis_tlast_delay, stream_data_out,
  mod_data_buf, full,       \* buf0 and buf1: contents, and complete and unread
  wr_buf, wr_pointer,
  sent,      \* frames the CPU has handed to the FFT
  fft,       \* the frames in the FFT
  armed,     \* the receive channel waits for a packet
  got,       \* the beats it has taken: their words, and TLAST
  received,  \* the packets the CPU has taken, one for each frame
  tready,    \* M_AXIS_TREADY
  disturbed  \* history: it was low at the first or last word of a packet

sendVars == <<mst_exec_state, count, rd_buf, read_pointer, tx_done, axis_tvalid_delay,
              axis_tlast_delay, stream_data_out>>
bufVars == <<mod_data_buf, full, wr_buf, wr_pointer>>
vars == <<sendVars, bufVars, sent, fft, armed, got, received, tready, disturbed>>

Bufs == {0, 1}
NoWord == <<>>
Spectrum(f) == [w \in 1 .. Words |-> <<f, w - 1>>]

\* After reset.
Init ==
  /\ mst_exec_state = "IDLE" /\ count = 0 /\ rd_buf = 0
  /\ read_pointer = 0 /\ tx_done = FALSE
  /\ axis_tvalid_delay = FALSE /\ axis_tlast_delay = FALSE /\ stream_data_out = NoWord
  /\ mod_data_buf = [b \in Bufs |-> [w \in 0 .. Words - 1 |-> NoWord]]
  /\ full = [b \in Bufs |-> FALSE] /\ wr_buf = 0 /\ wr_pointer = 0
  /\ sent = 0 /\ fft = <<>> /\ armed = FALSE /\ got = <<>> /\ received = <<>>
  /\ tready \in BOOLEAN /\ disturbed = FALSE

-----------------------------------------------------------------------------
(***************************************************************************)
(* One clock; every register takes its next value from the present ones    *)
(***************************************************************************)
axis_tvalid == mst_exec_state = "SEND_STREAM" /\ read_pointer < Words

axis_tlast == read_pointer = Words - 1

\* The control state machine.
Control ==
  CASE mst_exec_state = "IDLE" ->
         IF full[0] \/ full[1]
         THEN /\ mst_exec_state' = "INIT_COUNTER" /\ rd_buf' = (IF full[0] THEN 0 ELSE 1)
              /\ UNCHANGED count
         ELSE UNCHANGED <<mst_exec_state, rd_buf, count>>
    [] mst_exec_state = "INIT_COUNTER" ->
         /\ IF count = StartCount - 1
            THEN mst_exec_state' = "SEND_STREAM" /\ UNCHANGED count
            ELSE count' = count + 1 /\ UNCHANGED mst_exec_state
         /\ UNCHANGED rd_buf
    [] mst_exec_state = "SEND_STREAM" ->
         /\ mst_exec_state' = IF read_pointer = Words THEN "IDLE" ELSE "SEND_STREAM"
         /\ UNCHANGED <<rd_buf, count>>

\* Mutant of DoneKept: tx_done is cleared on the next clock.
DonePulse(tx_en) == FALSE

\* tx_done stays until the next word is read.
DoneKept(tx_en) == tx_done /\ ~tx_en

\* The read pointer and tx_done.
ReadPointer(tx_en) ==
  IF read_pointer = Words
  THEN read_pointer' = 0 /\ tx_done' = TRUE
  ELSE /\ read_pointer' = IF tx_en THEN read_pointer + 1 ELSE read_pointer
       /\ tx_done' = DoneKept(tx_en)

\* The registered outputs.
Outputs(tx_en) ==
  /\ axis_tvalid_delay' = axis_tvalid
  /\ axis_tlast_delay' = axis_tlast
  /\ stream_data_out' =
       IF tx_en THEN mod_data_buf[rd_buf][read_pointer] ELSE stream_data_out

\* Mutant of Freed: both buffers are freed.
FreedBoth(b) == tx_done

\* The buffer freed in this clock.
Freed(b) == tx_done /\ b = rd_buf

\* Mutant of SwapBuffer: one buffer for every frame.
SwapNever == UNCHANGED wr_buf

SwapBuffer == wr_buf' = 1 - wr_buf

\* The write side; frame_sync comes with the last word of a spectrum.
Write(mod_en) ==
  LET frame_sync == mod_en /\ wr_pointer = Words - 1
  IN /\ full' = [b \in Bufs |-> (full[b] \/ (frame_sync /\ b = wr_buf)) /\ ~Freed(b)]
     /\ IF mod_en
        THEN /\ mod_data_buf' =
                  [mod_data_buf EXCEPT ![wr_buf][wr_pointer] = <<Head(fft), wr_pointer>>]
             /\ wr_pointer' = IF frame_sync THEN 0 ELSE wr_pointer + 1
             /\ IF frame_sync THEN SwapBuffer ELSE UNCHANGED wr_buf
             /\ fft' = IF frame_sync THEN Tail(fft) ELSE fft
        ELSE UNCHANGED <<mod_data_buf, wr_pointer, wr_buf, fft>>

\* What the DMA has room for: a packet if armed, else a few beats.
Room == Len(got) < (IF armed THEN Words ELSE Skid)

\* TREADY from this clock on: low at any time, and high only with room.
Ready == tready' \in BOOLEAN /\ (tready' => Room')

\* The DMA's beats, and the one that passes.
Taken ==
  IF axis_tvalid_delay /\ tready
  THEN Append(got, [word |-> stream_data_out, last |-> axis_tlast_delay])
  ELSE got

\* The beats with TLAST.
Ends == {q \in 1 .. Len(Taken) : Taken[q].last}

\* TLAST ends the packet of an armed channel.
Receive ==
  IF armed /\ Ends # {}
  THEN \E q \in Ends :
         /\ \A p \in Ends : q <= p
         /\ received' = Append(received, [w \in 1 .. q |-> Taken[w].word])
         /\ got' = SubSeq(Taken, q + 1, Len(Taken)) /\ armed' = FALSE
  ELSE got' = Taken /\ UNCHANGED <<received, armed>>

\* The DMA is not ready for the first word of a packet, or at its end.
Disturbs ==
  ~tready /\ mst_exec_state = "SEND_STREAM" /\ read_pointer \notin 1 .. Words - 2

Clock ==
  \E mod_en \in BOOLEAN :
    /\ mod_en => fft # <<>>
    /\ Control
    /\ ReadPointer(tready /\ axis_tvalid)
    /\ Outputs(tready /\ axis_tvalid)
    /\ Write(mod_en)
    /\ Receive
    /\ Ready
    /\ disturbed' = (disturbed \/ Disturbs)
    /\ UNCHANGED sent

-----------------------------------------------------------------------------
\* The CPU arms the channel and sends the next frame once it has a packet for
\* the last one.
SendFrame ==
  /\ ~armed /\ sent = Len(received) /\ sent < MaxFrames
  /\ armed' = TRUE /\ fft' = Append(fft, sent) /\ sent' = sent + 1
  /\ UNCHANGED <<sendVars, bufVars, got, received, tready, disturbed>>

Next == Clock \/ SendFrame

Spec == Init /\ [][Next]_vars

\* The clock runs, the FFT puts out what it holds, and the CPU goes on.
FairSpec ==
  /\ Spec /\ WF_vars(SendFrame) /\ WF_vars(Clock) /\ WF_vars(Clock /\ bufVars' # bufVars)

-----------------------------------------------------------------------------
(***************************************************************************)
(* Properties                                                              *)
(***************************************************************************)
TypeOK ==
  /\ mst_exec_state \in {"IDLE", "INIT_COUNTER", "SEND_STREAM"}
  /\ count \in 0 .. StartCount - 1 /\ rd_buf \in Bufs /\ wr_buf \in Bufs
  /\ read_pointer \in 0 .. Words /\ wr_pointer \in 0 .. Words - 1
  /\ full \in [Bufs -> BOOLEAN] /\ {tready, disturbed} \subseteq BOOLEAN
  /\ Len(received) <= sent /\ Len(got) <= Words /\ (tready => Room)

\* Every packet is the spectrum of one frame, whole and in order, although one
\* may be written while another is read, and the DMA may stop taking words in
\* the middle of it (the two buffers, tx_en).
PacketsWhole ==
  ~disturbed =>
    \A k \in 1 .. Len(received) :
      \E f \in 0 .. MaxFrames - 1 : received[k] = Spectrum(f)

\* The packets in their order: the first spectrum twice, and after that every
\* spectrum once.  None is skipped, and none is sent again but the first (the
\* release of a buffer, and the choice of the next one).
PacketOrder ==
  ~disturbed =>
    \A k \in 1 .. Len(received) : received[k] = Spectrum(IF k = 1 THEN 0 ELSE k - 2)

\* The packet for a frame is the spectrum of that frame.
FrameInPlace ==
  ~disturbed => \A k \in 1 .. Len(received) : received[k] = Spectrum(k - 1)

\* A DMA that is ready at the ends of each packet, and again and again in the
\* middle while its channel is armed, gets one packet for every frame.
EveryFrameAnswered ==
  []~disturbed /\ []<>(armed => tready) => <>(Len(received) = MaxFrames)
=================================================================================
