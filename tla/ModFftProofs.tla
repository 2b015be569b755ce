------------------------------ MODULE ModFftProofs ------------------------------
(***************************************************************************)
(* Proofs about ModFft, for every length of the spectrum and of the start  *)
(* delay and every number of frames: as long as the DMA was ready at the   *)
(* ends of every packet, each is one frame's spectrum, whole, and which    *)
(* one.  The invariant counts: W frames are written, of the answered ones  *)
(* the next packet is frame D, and W stays one or two ahead of D while a   *)
(* packet is sent.  From that follow the buffer that is read, the flags,   *)
(* and that the write side never enters it.  What the write side does, and *)
(* the types, hold after a disturbance too.                                *)
(***************************************************************************)
EXTENDS ModFft, SequenceTheorems, TLAPS

Word == {NoWord} \union Nat \X Nat
Beat == [word : Word, last : BOOLEAN]

answered == Len(received)

\* The frame of the next packet, and the frame that is being written.
D == IF answered = 0 THEN 0 ELSE answered - 1
W == sent - Len(fft)

Types ==
  /\ TypeOK
  /\ {tx_done, axis_tvalid_delay, axis_tlast_delay, armed} \subseteq BOOLEAN
  /\ sent \in 0 .. MaxFrames /\ fft \in Seq(Nat) /\ Len(fft) <= sent
  /\ mod_data_buf \in [Bufs -> [0 .. Words - 1 -> Word]]
  /\ stream_data_out \in Word /\ got \in Seq(Beat) /\ received \in Seq(Seq(Word))

\* One frame at a time.
InTurn == sent = answered + (IF armed THEN 1 ELSE 0)

\* The FFT holds the frames that are not written yet.
Feeding ==
  /\ \A q \in 1 .. Len(fft) : fft[q] = W + q - 1
  /\ wr_pointer # 0 => fft # <<>>

\* The last frame is whole in one buffer; the other holds the one before it,
\* overwritten up to wr_pointer.
Buffered ==
  /\ W >= 1 => \A w \in 0 .. Words - 1 : mod_data_buf[1 - wr_buf][w] = <<W - 1, w>>
  /\ \A w \in 0 .. Words - 1 : w < wr_pointer => mod_data_buf[wr_buf][w] = <<W, w>>
  /\ W >= 2 =>
       \A w \in 0 .. Words - 1 : w >= wr_pointer => mod_data_buf[wr_buf][w] = <<W - 2, w>>

\* The beats taken, and the one that is offered.
Streaming ==
  /\ mst_exec_state # "SEND_STREAM" => read_pointer = 0
  /\ (axis_tvalid_delay <=> read_pointer # 0)
  /\ read_pointer = 0 => got = <<>>
  /\ read_pointer # 0 =>
       /\ Len(got) = read_pointer - 1
       /\ \A w \in 1 .. Len(got) : got[w] = [word |-> <<D, w - 1>>, last |-> FALSE]
       /\ stream_data_out = <<D, read_pointer - 1>>
       /\ (axis_tlast_delay <=> read_pointer = Words)
  /\ ~armed => Len(got) <= Skid

\* Between packets.
Idle ==
  mst_exec_state = "IDLE" =>
    /\ (tx_done <=> answered # 0)
    /\ answered = 0 =>
         /\ W \in {0, 1} /\ rd_buf = 0 /\ wr_buf = W
         /\ (full[0] <=> W = 1) /\ ~full[1]
    /\ answered = 1 =>
         /\ W = 1 /\ wr_pointer = 0 /\ rd_buf = 0 /\ wr_buf = 1
         /\ full[0] /\ ~full[1]
    /\ answered > 1 =>
         /\ ~full[rd_buf]
         /\ \/ W = D /\ rd_buf = 1 - wr_buf /\ ~full[1 - rd_buf]
            \/ W = D + 1 /\ rd_buf = wr_buf /\ full[1 - rd_buf] /\ wr_pointer = 0

\* From the choice of a buffer to its last word.
Sending ==
  mst_exec_state # "IDLE" =>
    /\ (tx_done <=> answered # 0 /\ read_pointer = 0)
    /\ (full[1 - rd_buf] <=> W = D + 2)
    /\ answered = 0 => full[rd_buf] /\ rd_buf = 0
    /\ answered # 0 /\ mst_exec_state = "SEND_STREAM" => ~full[rd_buf]
    /\ \/ W = D + 1 /\ rd_buf = 1 - wr_buf
       \/ W = D + 2 /\ rd_buf = wr_buf /\ wr_pointer = 0

\* The first frame is answered twice, and every later one a packet late.
Answered ==
  \A k \in 1 .. Len(received) : received[k] = Spectrum(IF k = 1 THEN 0 ELSE k - 2)

Base == Types /\ InTurn /\ Feeding /\ Buffered
Orderly == Streaming /\ Idle /\ Sending /\ Answered

IInv == Base /\ (~disturbed => Orderly)

-----------------------------------------------------------------------------
LEMMA Sizes ==
  /\ Words \in Nat /\ Words > 3 /\ StartCount \in Nat /\ StartCount > 0
  /\ MaxFrames \in Nat /\ MaxFrames > 0
  /\ Skid \in Nat /\ Skid >= 1 /\ Skid <= Words - 3
BY ModFftAssumption

LEMMA InitInvariant == Init => IInv
<1> SUFFICES ASSUME Init PROVE IInv OBVIOUS
<1>0. Len(received) = 0 /\ Len(fft) = 0 /\ Len(got) = 0 /\ sent = 0 BY DEF Init
<1>1. W = 0 /\ D = 0 /\ answered = 0 BY <1>0 DEF W, D, answered
<1>2. Types
  <2>0. Room BY <1>0, Sizes DEF Init, Room
  <2>6. {tready, disturbed} \subseteq BOOLEAN BY DEF Init
  <2>7. Len(received) <= sent /\ Len(got) <= Words BY <1>0, Sizes
  <2>8. full \in [Bufs -> BOOLEAN] BY DEF Init
  <2>1. TypeOK BY Sizes, <2>0, <2>6, <2>7, <2>8 DEF Init, TypeOK, Bufs
  <2>2. mod_data_buf \in [Bufs -> [0 .. Words - 1 -> Word]] BY DEF Init, Word
  <2>3. stream_data_out \in Word /\ got \in Seq(Beat) /\ received \in Seq(Seq(Word))
        /\ fft \in Seq(Nat)
    BY DEF Init, Word
  <2>4. sent \in 0 .. MaxFrames /\ Len(fft) <= sent BY <1>0, Sizes
  <2>5. {tx_done, axis_tvalid_delay, axis_tlast_delay, armed} \subseteq BOOLEAN BY DEF Init
  <2> QED BY <2>1, <2>2, <2>3, <2>4, <2>5 DEF Types
<1>3. InTurn /\ Feeding /\ Buffered /\ Answered
  BY <1>0, <1>1, Sizes DEF Init, InTurn, Feeding, Buffered, Answered
<1>4. Streaming /\ Idle /\ Sending
  BY <1>0, <1>1, Sizes DEF Init, Streaming, Idle, Sending, Bufs
<1> QED BY <1>2, <1>3, <1>4 DEF IInv, Base, Orderly

\* The facts about one state that the steps use.
LEMMA Counts ==
  ASSUME Base
  PROVE  /\ answered \in Nat /\ D \in Nat /\ W \in Nat /\ sent \in Nat
         /\ W <= sent /\ sent <= answered + 1 /\ answered <= sent
         /\ (W = sent) = (fft = <<>>)
         /\ answered = 0 => D = 0
         /\ answered # 0 => D = answered - 1
         /\ 1 - wr_buf \in Bufs /\ 1 - rd_buf \in Bufs /\ 1 - wr_buf # wr_buf /\ 1 - rd_buf # rd_buf
<1>1. sent \in Nat /\ Len(fft) \in Nat /\ Len(fft) <= sent /\ answered \in Nat
  BY Sizes DEF Base, Types, answered
<1>2. (Len(fft) = 0) = (fft = <<>>) BY DEF Base, Types
<1>3. wr_buf \in {0, 1} /\ rd_buf \in {0, 1} BY DEF Base, Types, TypeOK, Bufs
<1>4. 1 - wr_buf \in Bufs /\ 1 - rd_buf \in Bufs /\ 1 - wr_buf # wr_buf /\ 1 - rd_buf # rd_buf
  BY <1>3 DEF Bufs
<1>5. sent <= answered + 1 /\ answered <= sent BY <1>1 DEF Base, InTurn
<1> QED BY <1>1, <1>2, <1>4, <1>5 DEF W, D

-----------------------------------------------------------------------------
(***************************************************************************)
(* The write side: nothing but the write pointers and the FFT decides W.   *)
(***************************************************************************)
LEMMA NoWordWritten ==
  ASSUME Base, Write(FALSE), sent' = sent
  PROVE  /\ Feeding' /\ Buffered' /\ W' = W
         /\ UNCHANGED <<wr_buf, wr_pointer, mod_data_buf, fft>>
         /\ full' = [b \in Bufs |-> full[b] /\ ~Freed(b)]
<1>1. UNCHANGED <<wr_buf, wr_pointer, mod_data_buf, fft>>
      /\ full' = [b \in Bufs |-> full[b] /\ ~Freed(b)]
  BY DEF Write, Base, Types, TypeOK
<1>2. W' = W BY <1>1 DEF W
<1>3. Feeding' /\ Buffered' BY <1>1, <1>2 DEF Base, Feeding, Buffered
<1> QED BY <1>1, <1>2, <1>3

LEMMA WordWritten ==
  ASSUME Base, Write(TRUE), fft # <<>>, wr_pointer # Words - 1, sent' = sent
  PROVE  /\ Feeding' /\ Buffered' /\ W' = W
         /\ wr_buf' = wr_buf /\ fft' = fft
         /\ wr_pointer' \in 0 .. Words - 1
         /\ mod_data_buf' \in [Bufs -> [0 .. Words - 1 -> Word]]
         /\ full' = [b \in Bufs |-> full[b] /\ ~Freed(b)]
<1>0. wr_pointer \in 0 .. Words - 1 /\ Words \in Nat /\ wr_buf \in Bufs
  BY Sizes DEF Base, Types, TypeOK
<1>1. wr_buf' = wr_buf /\ fft' = fft /\ wr_pointer' = wr_pointer + 1
      /\ full' = [b \in Bufs |-> full[b] /\ ~Freed(b)]
      /\ mod_data_buf' = [mod_data_buf EXCEPT ![wr_buf][wr_pointer] = <<Head(fft), wr_pointer>>]
  BY DEF Write, Base, Types, TypeOK
<1>2. W' = W BY <1>1 DEF W
<1>3. Head(fft) = W /\ W \in Nat
  BY Counts DEF Base, Types, Feeding
<1>4. mod_data_buf \in [Bufs -> [0 .. Words - 1 -> Word]] BY DEF Base, Types
<1>5. <<Head(fft), wr_pointer>> \in Word BY <1>0, <1>3 DEF Word
<1>6. mod_data_buf' \in [Bufs -> [0 .. Words - 1 -> Word]] BY <1>0, <1>1, <1>4, <1>5
<1>7. wr_pointer' \in 0 .. Words - 1 BY <1>0, <1>1
<1>8. Feeding' BY <1>1, <1>2 DEF Base, Feeding
<1>9. Buffered'
  <2>1. \A w \in 0 .. Words - 1 :
          mod_data_buf'[wr_buf][w] =
            IF w = wr_pointer THEN <<W, wr_pointer>> ELSE mod_data_buf[wr_buf][w]
    BY <1>0, <1>1, <1>3, <1>4
  <2>2. mod_data_buf'[1 - wr_buf] = mod_data_buf[1 - wr_buf]
    BY <1>0, <1>1, <1>4, Counts
  <2>3. \A w \in 0 .. Words - 1 : w < wr_pointer' => mod_data_buf'[wr_buf][w] = <<W, w>>
    BY <1>0, <1>1, <2>1 DEF Base, Buffered
  <2>4. W >= 2 => \A w \in 0 .. Words - 1 :
          w >= wr_pointer' => mod_data_buf'[wr_buf][w] = <<W - 2, w>>
    BY <1>0, <1>1, <2>1 DEF Base, Buffered
  <2> QED BY <1>1, <1>2, <2>2, <2>3, <2>4 DEF Base, Buffered
<1> QED BY <1>1, <1>2, <1>6, <1>7, <1>8, <1>9

LEMMA FrameWritten ==
  ASSUME Base, Write(TRUE), fft # <<>>, wr_pointer = Words - 1, sent' = sent
  PROVE  /\ Feeding' /\ Buffered' /\ W' = W + 1
         /\ wr_buf' = 1 - wr_buf /\ wr_pointer' = 0
         /\ fft' \in Seq(Nat) /\ Len(fft') <= sent'
         /\ mod_data_buf' \in [Bufs -> [0 .. Words - 1 -> Word]]
         /\ full' = [b \in Bufs |-> (full[b] \/ b = wr_buf) /\ ~Freed(b)]
<1>0. wr_pointer \in 0 .. Words - 1 /\ Words \in Nat /\ wr_buf \in Bufs
  BY Sizes DEF Base, Types, TypeOK
<1>1. wr_buf' = 1 - wr_buf /\ fft' = Tail(fft) /\ wr_pointer' = 0
      /\ full' = [b \in Bufs |-> (full[b] \/ b = wr_buf) /\ ~Freed(b)]
      /\ mod_data_buf' = [mod_data_buf EXCEPT ![wr_buf][wr_pointer] = <<Head(fft), wr_pointer>>]
  BY DEF Write, Base, Types, TypeOK, SwapBuffer
<1>2. fft' \in Seq(Nat) /\ Len(fft') = Len(fft) - 1 /\ Len(fft) \in Nat /\ Len(fft) >= 1
      /\ \A q \in 1 .. Len(fft') : fft'[q] = fft[q + 1]
  BY <1>1 DEF Base, Types
<1>3. Head(fft) = W /\ W \in Nat /\ sent \in Nat /\ Len(fft) <= sent
  BY <1>2, Counts DEF Base, Types, Feeding
<1>4. W' = W + 1 BY <1>2, <1>3 DEF W
<1>5. mod_data_buf \in [Bufs -> [0 .. Words - 1 -> Word]] BY DEF Base, Types
<1>6. <<Head(fft), wr_pointer>> \in Word BY <1>0, <1>3 DEF Word
<1>7. mod_data_buf' \in [Bufs -> [0 .. Words - 1 -> Word]] BY <1>0, <1>1, <1>5, <1>6
<1>8. Feeding'
  <2>1. \A q \in 1 .. Len(fft') : fft[q + 1] = W + (q + 1) - 1
    BY <1>2, <1>3 DEF Base, Feeding
  <2>2. \A q \in 1 .. Len(fft') : fft'[q] = W' + q - 1
    BY <1>2, <1>3, <1>4, <2>1
  <2> QED BY <1>1, <2>2 DEF Feeding
<1>9. Buffered'
  <2>1. \A w \in 0 .. Words - 1 : mod_data_buf'[wr_buf][w] = <<W, w>>
    <3>1. \A w \in 0 .. Words - 1 :
            mod_data_buf'[wr_buf][w] =
              IF w = wr_pointer THEN <<W, wr_pointer>> ELSE mod_data_buf[wr_buf][w]
      BY <1>0, <1>1, <1>3, <1>5
    <3> QED BY <1>0, <3>1 DEF Base, Buffered
  <2>2. mod_data_buf'[1 - wr_buf] = mod_data_buf[1 - wr_buf]
    BY <1>0, <1>1, <1>5, Counts
  <2>3. 1 - wr_buf' = wr_buf BY <1>0, <1>1 DEF Bufs
  <2>4. W' - 1 = W /\ W' - 2 = W - 1 /\ (W' >= 2 => W >= 1) BY <1>3, <1>4
  <2>5. \A w \in 0 .. Words - 1 : mod_data_buf'[1 - wr_buf'][w] = <<W' - 1, w>>
    BY <2>1, <2>3, <2>4
  <2>6. W' >= 2 => \A w \in 0 .. Words - 1 : mod_data_buf'[wr_buf'][w] = <<W' - 2, w>>
    BY <1>1, <2>2, <2>4 DEF Base, Buffered
  <2>7. \A w \in 0 .. Words - 1 : ~(w < wr_pointer') BY <1>1
  <2> QED BY <2>5, <2>6, <2>7 DEF Buffered
<1> QED BY <1>1, <1>2, <1>3, <1>4, <1>7, <1>8, <1>9

\* Both cases of the write side at once: a frame is finished, or W stays.
LEMMA WriteSide ==
  ASSUME Base, NEW mod_en \in BOOLEAN, mod_en => fft # <<>>, Write(mod_en), sent' = sent
  PROVE  /\ Feeding' /\ Buffered'
         /\ fft' \in Seq(Nat) /\ Len(fft') <= sent'
         /\ wr_buf' \in Bufs /\ wr_pointer' \in 0 .. Words - 1
         /\ mod_data_buf' \in [Bufs -> [0 .. Words - 1 -> Word]]
         /\ full' \in [Bufs -> BOOLEAN]
         /\ \/ /\ W' = W /\ wr_buf' = wr_buf
               /\ full' = [b \in Bufs |-> full[b] /\ ~Freed(b)]
               /\ W = sent => wr_pointer' = wr_pointer
            \/ /\ W' = W + 1 /\ wr_buf' = 1 - wr_buf
               /\ wr_pointer' = 0 /\ wr_pointer # 0 /\ W < sent
               /\ full' = [b \in Bufs |-> (full[b] \/ b = wr_buf) /\ ~Freed(b)]
<1>0. full \in [Bufs -> BOOLEAN] /\ wr_buf \in Bufs /\ wr_pointer \in 0 .. Words - 1
      /\ fft \in Seq(Nat) /\ Len(fft) <= sent
      /\ mod_data_buf \in [Bufs -> [0 .. Words - 1 -> Word]]
  BY DEF Base, Types, TypeOK
<1>1. CASE mod_en = FALSE
  <2>1. Write(FALSE) BY <1>1
  <2>2. /\ Feeding' /\ Buffered' /\ W' = W
        /\ UNCHANGED <<wr_buf, wr_pointer, mod_data_buf, fft>>
        /\ full' = [b \in Bufs |-> full[b] /\ ~Freed(b)]
    BY <2>1, NoWordWritten
  <2>3. full' \in [Bufs -> BOOLEAN] BY <2>2, <1>0
  <2> QED BY <2>2, <2>3, <1>0
<1>2. CASE mod_en = TRUE /\ wr_pointer # Words - 1
  <2>1. Write(TRUE) /\ fft # <<>> BY <1>2
  <2>2. /\ Feeding' /\ Buffered' /\ W' = W
        /\ wr_buf' = wr_buf /\ fft' = fft
        /\ wr_pointer' \in 0 .. Words - 1
        /\ mod_data_buf' \in [Bufs -> [0 .. Words - 1 -> Word]]
        /\ full' = [b \in Bufs |-> full[b] /\ ~Freed(b)]
    BY <1>2, <2>1, WordWritten
  <2>3. full' \in [Bufs -> BOOLEAN] BY <2>2, <1>0
  <2>4. W # sent BY <2>1, Counts
  <2> QED BY <2>2, <2>3, <2>4, <1>0
<1>3. CASE mod_en = TRUE /\ wr_pointer = Words - 1
  <2>1. Write(TRUE) /\ fft # <<>> BY <1>3
  <2>2. /\ Feeding' /\ Buffered' /\ W' = W + 1
        /\ wr_buf' = 1 - wr_buf /\ wr_pointer' = 0
        /\ fft' \in Seq(Nat) /\ Len(fft') <= sent'
        /\ mod_data_buf' \in [Bufs -> [0 .. Words - 1 -> Word]]
        /\ full' = [b \in Bufs |-> (full[b] \/ b = wr_buf) /\ ~Freed(b)]
    BY <1>3, <2>1, FrameWritten
  <2>3. full' \in [Bufs -> BOOLEAN] BY <2>2, <1>0
  <2>4. W < sent BY <2>1, Counts
  <2>5. wr_pointer # 0 /\ 0 \in 0 .. Words - 1 BY <1>3, Sizes
  <2> QED BY <2>2, <2>3, <2>4, <2>5, Counts
<1> QED BY <1>1, <1>2, <1>3

\* What a buffer's flag becomes, seen from the buffer that is read.
LEMMA Flags ==
  ASSUME Base, NEW mod_en \in BOOLEAN, mod_en => fft # <<>>, Write(mod_en), sent' = sent
  PROVE  /\ tx_done => ~full'[rd_buf]
         /\ ~tx_done => (full'[rd_buf] <=> full[rd_buf] \/ (W' = W + 1 /\ wr_buf = rd_buf))
         /\ (full'[1 - rd_buf] <=> full[1 - rd_buf] \/ (W' = W + 1 /\ wr_buf = 1 - rd_buf))
<1>1. rd_buf \in Bufs /\ 1 - rd_buf \in Bufs /\ rd_buf # 1 - rd_buf /\ W \in Nat
      /\ tx_done \in BOOLEAN /\ full \in [Bufs -> BOOLEAN]
  BY Counts DEF Base, Types, TypeOK
<1>2. \/ W' = W /\ full' = [b \in Bufs |-> full[b] /\ ~Freed(b)]
      \/ W' = W + 1 /\ full' = [b \in Bufs |-> (full[b] \/ b = wr_buf) /\ ~Freed(b)]
  BY WriteSide
<1>3. Freed(rd_buf) = tx_done /\ Freed(1 - rd_buf) = FALSE BY <1>1 DEF Freed
<1>4. W # W + 1 BY <1>1
<1>5. CASE W' = W /\ full' = [b \in Bufs |-> full[b] /\ ~Freed(b)]
  BY <1>1, <1>3, <1>4, <1>5
<1>6. CASE W' = W + 1 /\ full' = [b \in Bufs |-> (full[b] \/ b = wr_buf) /\ ~Freed(b)]
  <2>1. full'[rd_buf] = ((full[rd_buf] \/ rd_buf = wr_buf) /\ ~tx_done)
    BY <1>1, <1>3, <1>6
  <2>2. full'[1 - rd_buf] = (full[1 - rd_buf] \/ 1 - rd_buf = wr_buf)
    BY <1>1, <1>3, <1>6
  <2> QED BY <1>1, <1>6, <2>1, <2>2
<1> QED BY <1>2, <1>5, <1>6

-----------------------------------------------------------------------------
(***************************************************************************)
(* The read side                                                           *)
(***************************************************************************)
\* While nothing is offered, nothing passes.
LEMMA NothingPasses ==
  ASSUME Base, Orderly, read_pointer = 0, Receive
  PROVE  UNCHANGED <<got, received, armed>>
<1>1. axis_tvalid_delay = FALSE /\ got = <<>>
  BY DEF Base, Orderly, Streaming, Types
<1>2. Taken = got BY <1>1 DEF Taken
<1>3. Ends = {}
  <2>1. Len(Taken) = 0 BY <1>1, <1>2
  <2> QED BY <2>1 DEF Ends
<1> QED BY <1>2, <1>3 DEF Receive

\* One more beat: what the channel holds then.
LEMMA BeatTaken ==
  ASSUME Base, Orderly, read_pointer \in 1 .. Words, tready, NEW b \in BOOLEAN,
         axis_tlast_delay = b
  PROVE  /\ Taken \in Seq(Beat) /\ Len(Taken) = read_pointer
         /\ \A w \in 1 .. read_pointer - 1 : Taken[w] = [word |-> <<D, w - 1>>, last |-> FALSE]
         /\ Taken[read_pointer] = [word |-> <<D, read_pointer - 1>>, last |-> b]
<1>0. read_pointer \in Nat /\ read_pointer # 0 BY Sizes
<1>1. /\ got \in Seq(Beat) /\ stream_data_out \in Word /\ Len(got) = read_pointer - 1
      /\ stream_data_out = <<D, read_pointer - 1>> /\ axis_tvalid_delay
      /\ \A w \in 1 .. Len(got) : got[w] = [word |-> <<D, w - 1>>, last |-> FALSE]
  BY <1>0 DEF Base, Orderly, Streaming, Types
<1>2. PICK beat \in Beat : beat = [word |-> stream_data_out, last |-> b]
  BY <1>1 DEF Beat
<1>3. Taken = Append(got, beat) BY <1>1, <1>2 DEF Taken
<1>4. Taken \in Seq(Beat) /\ Len(Taken) = Len(got) + 1 /\ Taken[Len(got) + 1] = beat
      /\ (\A w \in 1 .. Len(got) : Taken[w] = got[w])
  BY <1>1, <1>3
<1>5. Len(got) + 1 = read_pointer BY <1>0, <1>1
<1>6. Taken[read_pointer] = beat
  <2>1. Taken[Len(got) + 1] = beat BY <1>4
  <2> QED BY ONLY <2>1, <1>5
<1>7. \A w \in 1 .. read_pointer - 1 : Taken[w] = got[w] /\ w \in 1 .. Len(got)
  BY <1>1, <1>4
<1> QED BY <1>1, <1>2, <1>4, <1>5, <1>6, <1>7

\* A word that is not the last one passes, or waits.
LEMMA WordPasses ==
  ASSUME Base, Orderly, read_pointer \in 1 .. Words - 1, Receive
  PROVE  /\ UNCHANGED <<received, armed>>
         /\ IF tready
            THEN /\ Len(got') = read_pointer
                 /\ \A w \in 1 .. Len(got') : got'[w] = [word |-> <<D, w - 1>>, last |-> FALSE]
            ELSE got' = got
         /\ ~armed => Len(got') <= Skid
<1>0. read_pointer \in Nat /\ read_pointer # 0 /\ read_pointer # Words
      /\ read_pointer \in 1 .. Words
  BY Sizes
<1>1. axis_tlast_delay = FALSE
  BY <1>0 DEF Base, Orderly, Streaming, Types
<1>2. got \in Seq(Beat) /\ Len(got) = read_pointer - 1
      /\ (\A w \in 1 .. Len(got) : got[w] = [word |-> <<D, w - 1>>, last |-> FALSE])
      /\ (~armed => Len(got) <= Skid)
  BY <1>0 DEF Base, Orderly, Streaming, Types
<1>3. CASE tready
  <2>1. Len(Taken) = read_pointer
        /\ \A w \in 1 .. read_pointer : Taken[w] = [word |-> <<D, w - 1>>, last |-> FALSE]
    <3>1. /\ Len(Taken) = read_pointer
          /\ \A w \in 1 .. read_pointer - 1 : Taken[w] = [word |-> <<D, w - 1>>, last |-> FALSE]
          /\ Taken[read_pointer] = [word |-> <<D, read_pointer - 1>>, last |-> FALSE]
      BY <1>0, <1>1, <1>3, BeatTaken
    <3>2. ASSUME NEW w \in 1 .. read_pointer PROVE Taken[w] = [word |-> <<D, w - 1>>, last |-> FALSE]
      <4>1. CASE w = read_pointer BY <3>1, <4>1
      <4>2. CASE w # read_pointer
        <5>1. w \in 1 .. read_pointer - 1 BY <1>0, <4>2
        <5> QED BY <3>1, <5>1
      <4> QED BY <4>1, <4>2
    <3> QED BY <3>1, <3>2
  <2>2. Ends = {} BY <2>1 DEF Ends
  <2>3. got' = Taken /\ UNCHANGED <<received, armed>> BY <2>2 DEF Receive
  <2>4. ~armed => Len(got) < Skid BY <1>3 DEF Base, Types, TypeOK, Room
  <2>5. ~armed => Len(got') <= Skid BY <1>0, <1>2, <2>1, <2>3, <2>4, Sizes
  <2> QED BY <1>3, <2>1, <2>3, <2>5
<1>4. CASE ~tready
  <2>1. Taken = got BY <1>4 DEF Taken
  <2>2. Ends = {}
    <3>1. ASSUME NEW q \in Ends PROVE FALSE
      <4>1. q \in 1 .. Len(got) /\ got[q].last BY <2>1, <3>1 DEF Ends
      <4>2. got[q] = [word |-> <<D, q - 1>>, last |-> FALSE] BY <1>2, <4>1
      <4>3. got[q].last = FALSE BY ONLY <4>2
      <4> QED BY <4>1, <4>3
    <3> QED BY <3>1
  <2>3. got' = got /\ UNCHANGED <<received, armed>> BY <2>1, <2>2 DEF Receive
  <2> QED BY <1>2, <1>4, <2>3
<1> QED BY <1>3, <1>4

\* The last word ends the packet, if the DMA is ready for it: by then the
\* channel is armed, since an unarmed one takes fewer beats than that.
LEMMA PacketPasses ==
  ASSUME Base, Orderly, read_pointer = Words, tready, Receive
  PROVE  /\ armed /\ armed' = FALSE /\ got' = <<>>
         /\ received' = Append(received, Spectrum(D))
         /\ Spectrum(D) \in Seq(Word)
<1>0. read_pointer # 0 /\ Words \in Nat /\ D \in Nat /\ read_pointer \in 1 .. Words
  BY Sizes, Counts
<1>1. axis_tlast_delay = TRUE
  BY <1>0 DEF Base, Orderly, Streaming, Types
<1>2. Len(got) = Words - 1 BY <1>0 DEF Orderly, Streaming
<1>3. armed
  BY <1>2, Sizes DEF Base, Orderly, Streaming, Types
<1>4. /\ Taken \in Seq(Beat) /\ Len(Taken) = Words
      /\ \A w \in 1 .. Words - 1 : Taken[w] = [word |-> <<D, w - 1>>, last |-> FALSE]
      /\ Taken[Words] = [word |-> <<D, Words - 1>>, last |-> TRUE]
  BY <1>0, <1>1, BeatTaken
<1>5. Words \in Ends BY <1>0, <1>4, Sizes DEF Ends
<1>6. \A q \in Ends : q = Words
  <2>1. ASSUME NEW q \in Ends, q # Words PROVE FALSE
    <3>1. q \in 1 .. Words - 1 /\ Taken[q].last BY <1>0, <1>4, <2>1 DEF Ends
    <3>2. Taken[q] = [word |-> <<D, q - 1>>, last |-> FALSE] BY <1>4, <3>1
    <3>3. Taken[q].last = FALSE BY ONLY <3>2
    <3> QED BY <3>1, <3>3
  <2> QED BY <2>1
<1>7. /\ received' = Append(received, [w \in 1 .. Words |-> Taken[w].word])
      /\ got' = SubSeq(Taken, Words + 1, Len(Taken)) /\ armed' = FALSE
  BY <1>3, <1>5, <1>6 DEF Receive
<1>8. got' = <<>>
  <2>1. Len(got') = 0 /\ got' \in Seq(Beat) BY <1>0, <1>4, <1>7
  <2> QED BY <2>1
<1>9. [w \in 1 .. Words |-> Taken[w].word] = Spectrum(D)
  <2>1. ASSUME NEW w \in 1 .. Words PROVE Taken[w].word = <<D, w - 1>>
    <3>1. CASE w = Words
      <4>1. Taken[Words].word = <<D, Words - 1>> BY <1>4
      <4> QED BY ONLY <3>1, <4>1
    <3>2. CASE w # Words
      <4>1. w \in 1 .. Words - 1 BY <1>0, <3>2
      <4>2. Taken[w] = [word |-> <<D, w - 1>>, last |-> FALSE] BY <1>4, <4>1
      <4> QED BY ONLY <4>2
    <3> QED BY <3>1, <3>2
  <2> QED BY <2>1 DEF Spectrum
<1>10. Spectrum(D) \in Seq(Word)
  <2>1. \A w \in 1 .. Words : <<D, w - 1>> \in Word BY <1>0 DEF Word
  <2> QED BY <1>0, <2>1 DEF Spectrum
<1> QED BY <1>3, <1>7, <1>8, <1>9, <1>10

\* The buffer that is read holds the frame that is due.
LEMMA DataRead ==
  ASSUME Base, Orderly, mst_exec_state = "SEND_STREAM", NEW w \in 0 .. Words - 1
  PROVE  mod_data_buf[rd_buf][w] = <<D, w>>
<1>0. W \in Nat /\ D \in Nat /\ w >= 0 BY Counts
<1>1. CASE W = D + 1 /\ rd_buf = 1 - wr_buf
  <2>1. W >= 1 /\ W - 1 = D BY <1>0, <1>1
  <2>2. mod_data_buf[1 - wr_buf][w] = <<W - 1, w>> BY <2>1 DEF Base, Buffered
  <2> QED BY <1>1, <2>1, <2>2
<1>2. CASE W = D + 2 /\ rd_buf = wr_buf /\ wr_pointer = 0
  <2>1. W >= 2 /\ W - 2 = D BY <1>0, <1>2
  <2>2. mod_data_buf[wr_buf][w] = <<W - 2, w>> BY <1>0, <1>2, <2>1 DEF Base, Buffered
  <2> QED BY <1>2, <2>1, <2>2
<1> QED BY <1>1, <1>2 DEF Orderly, Sending

-----------------------------------------------------------------------------
(***************************************************************************)
(* One clock, in each state of the control machine                         *)
(***************************************************************************)
\* A clock without its bound variable.
ClockWith(mod_en) ==
  /\ mod_en => fft # <<>>
  /\ Control
  /\ ReadPointer(tready /\ axis_tvalid)
  /\ Outputs(tready /\ axis_tvalid)
  /\ Write(mod_en)
  /\ Receive
  /\ Ready
  /\ disturbed' = (disturbed \/ Disturbs)
  /\ sent' = sent

\* Where TREADY can have been low.
LEMMA ReadyAtEnds ==
  ASSUME NEW mod_en \in BOOLEAN, ClockWith(mod_en), ~disturbed',
         mst_exec_state = "SEND_STREAM"
  PROVE  tready \/ read_pointer \in 1 .. Words - 2
BY DEF ClockWith, Disturbs

\* What the read side does while no word is due.
LEMMA Waiting ==
  ASSUME Base, Orderly, NEW mod_en \in BOOLEAN, ClockWith(mod_en), mst_exec_state # "SEND_STREAM"
  PROVE  /\ UNCHANGED <<read_pointer, tx_done, stream_data_out, got, received, armed>>
         /\ read_pointer = 0 /\ axis_tvalid_delay' = FALSE
         /\ axis_tlast_delay' \in BOOLEAN
         /\ answered' = answered /\ D' = D
<1>1. read_pointer = 0 BY DEF Orderly, Streaming
<1>2. UNCHANGED <<got, received, armed>> BY <1>1, NothingPasses DEF ClockWith
<1>3. axis_tvalid = FALSE BY DEF axis_tvalid
<1>4. read_pointer # Words BY <1>1, Sizes
<1>5. tx_done \in BOOLEAN BY DEF Base, Types
<1>6. read_pointer' = read_pointer /\ tx_done' = tx_done
  BY <1>3, <1>4, <1>5 DEF ClockWith, ReadPointer, DoneKept
<1>7. axis_tvalid_delay' = FALSE /\ stream_data_out' = stream_data_out
      /\ axis_tlast_delay' \in BOOLEAN
  BY <1>3 DEF ClockWith, Outputs, axis_tlast
<1>8. answered' = answered BY <1>2 DEF answered
<1>9. D' = D BY <1>8 DEF D
<1> QED BY <1>1, <1>2, <1>6, <1>7, <1>8, <1>9

LEMMA IdleStep ==
  ASSUME Base, Orderly, NEW mod_en \in BOOLEAN, ClockWith(mod_en), mst_exec_state = "IDLE"
  PROVE  Idle' /\ Sending'
<1>0. /\ W \in Nat /\ D \in Nat /\ sent \in Nat /\ answered \in Nat /\ W <= sent /\ sent <= answered + 1
      /\ rd_buf \in {0, 1} /\ wr_buf \in {0, 1} /\ full \in [Bufs -> BOOLEAN]
      /\ tx_done \in BOOLEAN
  BY Counts DEF Base, Types, TypeOK, Bufs
<1>1. /\ tx_done' = tx_done /\ answered' = answered /\ D' = D
      /\ read_pointer' = 0
  BY Waiting
<1>2. \/ W' = W /\ wr_buf' = wr_buf /\ (W = sent => wr_pointer' = wr_pointer)
      \/ W' = W + 1 /\ wr_buf' = 1 - wr_buf /\ wr_pointer' = 0 /\ wr_pointer # 0 /\ W < sent
  BY WriteSide DEF ClockWith
<1>3. /\ tx_done => ~full'[rd_buf]
      /\ ~tx_done => (full'[rd_buf] <=> full[rd_buf] \/ (W' = W + 1 /\ wr_buf = rd_buf))
      /\ (full'[1 - rd_buf] <=> full[1 - rd_buf] \/ (W' = W + 1 /\ wr_buf = 1 - rd_buf))
  BY Flags DEF ClockWith
<1>4. /\ answered = 0 => D = 0
      /\ answered # 0 => D = answered - 1
  BY Counts
<1>5. Idle BY DEF Orderly
<1>6. CASE ~full[0] /\ ~full[1]
  <2>1. mst_exec_state' = "IDLE" /\ rd_buf' = rd_buf
    BY <1>6 DEF ClockWith, Control
  <2>2. answered # 1 BY <1>5, <1>6 DEF Idle
  <2>3. CASE answered = 0
    <3>1. W = 0 /\ rd_buf = 0 /\ wr_buf = 0 /\ ~tx_done
      BY <1>0, <1>5, <1>6, <2>3 DEF Idle
    <3>2. W' \in {0, 1} /\ wr_buf' = W' BY <1>2, <3>1
    <3>3. full'[0] <=> W' = 1 BY <1>2, <1>3, <1>6, <3>1
    <3>4. ~full'[1] BY <1>3, <1>6, <3>1
    <3> QED BY <1>1, <2>1, <2>3, <3>1, <3>2, <3>3, <3>4 DEF Idle, Sending
  <2>4. CASE answered > 1
    <3>1. tx_done /\ answered # 0 /\ answered # 1 BY <1>0, <1>5, <2>4 DEF Idle
    <3>2. W = D /\ rd_buf = 1 - wr_buf BY <1>0, <1>5, <1>6, <2>4 DEF Idle
    <3>3. ~full'[rd_buf'] BY <1>3, <2>1, <3>1
    <3>4. wr_buf = 1 - rd_buf BY <1>0, <3>2
    <3>5. ~full[1 - rd_buf] BY <1>0, <1>6
    <3>6. \/ W' = D' /\ rd_buf' = 1 - wr_buf' /\ ~full'[1 - rd_buf']
          \/ W' = D' + 1 /\ rd_buf' = wr_buf' /\ full'[1 - rd_buf'] /\ wr_pointer' = 0
      <4>1. CASE W' = W /\ wr_buf' = wr_buf
        <5>1. ~full'[1 - rd_buf] BY <1>0, <1>3, <3>5, <4>1
        <5> QED BY <1>1, <2>1, <3>2, <4>1, <5>1
      <4>2. CASE W' = W + 1 /\ wr_buf' = 1 - wr_buf /\ wr_pointer' = 0
        <5>1. full'[1 - rd_buf] BY <1>3, <3>4, <4>2
        <5> QED BY <1>1, <2>1, <3>2, <4>2, <5>1
      <4> QED BY <1>2, <4>1, <4>2
    <3> QED BY <1>1, <2>1, <3>1, <3>3, <3>6 DEF Idle, Sending
  <2> QED BY <1>0, <2>2, <2>3, <2>4
<1>7. CASE full[0] \/ full[1]
  <2>1. full[0] \/ full[1] BY <1>7
  <2>2. mst_exec_state' = "INIT_COUNTER" /\ rd_buf' = (IF full[0] THEN 0 ELSE 1)
    BY <2>1 DEF ClockWith, Control
  <2>3. CASE answered = 0
    <3>1. W = 1 /\ rd_buf = 0 /\ wr_buf = 1 /\ ~tx_done /\ full[0]
          /\ ~full[1]
      BY <1>0, <1>5, <2>1, <2>3 DEF Idle
    <3>2. W = sent BY <1>0, <2>3, <3>1
    <3>3. W' = 1 /\ wr_buf' = 1 BY <1>0, <1>2, <3>1, <3>2
    <3>4. full'[0] BY <1>3, <3>1
    <3>5. ~full'[1] BY <1>0, <1>3, <3>1, <3>3
    <3> QED BY <1>1, <1>4, <2>2, <2>3, <3>1, <3>3, <3>4, <3>5 DEF Idle, Sending
  <2>4. CASE answered = 1
    <3>1. W = 1 /\ wr_pointer = 0 /\ rd_buf = 0 /\ wr_buf = 1 /\ full[0]
          /\ ~full[1] /\ tx_done
      BY <1>0, <1>5, <2>4 DEF Idle
    <3>2. W' = 1 /\ wr_buf' = 1 BY <1>2, <3>1
    <3>3. ~full'[1] BY <1>0, <1>3, <3>1, <3>2
    <3> QED BY <1>1, <1>4, <2>2, <2>4, <3>1, <3>2, <3>3 DEF Idle, Sending
  <2>5. CASE answered > 1
    <3>0. answered # 0 /\ tx_done BY <1>0, <1>5, <2>5 DEF Idle
    <3>1. ~full[rd_buf] BY <1>5, <2>5 DEF Idle
    <3>2. full[1 - rd_buf] BY <1>0, <1>7, <3>1 DEF Bufs
    <3>3. W = D + 1 /\ rd_buf = wr_buf /\ wr_pointer = 0 BY <1>5, <2>5, <3>2 DEF Idle
    <3>4. W' = D' + 1 /\ wr_buf' = wr_buf BY <1>1, <1>2, <3>3
    <3>5. rd_buf' = 1 - rd_buf
      <4>1. CASE rd_buf = 0 BY <2>2, <3>1, <4>1
      <4>2. CASE rd_buf = 1 BY <2>1, <2>2, <3>1, <4>2
      <4> QED BY <1>0, <4>1, <4>2
    <3>6. 1 - rd_buf' = rd_buf /\ rd_buf' = 1 - wr_buf' BY <1>0, <3>3, <3>4, <3>5
    <3>7. ~full'[1 - rd_buf'] BY <1>3, <3>0, <3>6
    <3> QED BY <1>0, <1>1, <2>2, <3>0, <3>4, <3>6, <3>7 DEF Idle, Sending
  <2> QED BY <1>0, <2>3, <2>4, <2>5
<1> QED BY <1>6, <1>7

LEMMA InitCounterStep ==
  ASSUME Base, Orderly, NEW mod_en \in BOOLEAN, ClockWith(mod_en), mst_exec_state = "INIT_COUNTER"
  PROVE  Idle' /\ Sending'
<1>0. /\ W \in Nat /\ D \in Nat /\ sent \in Nat /\ answered \in Nat /\ W <= sent /\ sent <= answered + 1
      /\ rd_buf \in {0, 1} /\ wr_buf \in {0, 1} /\ full \in [Bufs -> BOOLEAN]
  BY Counts DEF Base, Types, TypeOK, Bufs
<1>1. /\ tx_done' = tx_done /\ answered' = answered /\ D' = D
      /\ read_pointer = 0 /\ read_pointer' = 0
  BY Waiting
<1>2. \/ W' = W /\ wr_buf' = wr_buf /\ (W = sent => wr_pointer' = wr_pointer)
      \/ W' = W + 1 /\ wr_buf' = 1 - wr_buf /\ wr_pointer' = 0 /\ wr_pointer # 0 /\ W < sent
  BY WriteSide DEF ClockWith
<1>3. /\ tx_done => ~full'[rd_buf]
      /\ ~tx_done => (full'[rd_buf] <=> full[rd_buf] \/ (W' = W + 1 /\ wr_buf = rd_buf))
      /\ (full'[1 - rd_buf] <=> full[1 - rd_buf] \/ (W' = W + 1 /\ wr_buf = 1 - rd_buf))
  BY Flags DEF ClockWith
<1>4. /\ answered = 0 => D = 0
      /\ answered # 0 => D = answered - 1
  BY Counts
<1>5. /\ (tx_done <=> answered # 0)
      /\ (full[1 - rd_buf] <=> W = D + 2)
      /\ answered = 0 => full[rd_buf] /\ rd_buf = 0
      /\ \/ W = D + 1 /\ rd_buf = 1 - wr_buf
         \/ W = D + 2 /\ rd_buf = wr_buf /\ wr_pointer = 0
  BY <1>1 DEF Orderly, Sending
<1>6. mst_exec_state' \in {"INIT_COUNTER", "SEND_STREAM"} /\ rd_buf' = rd_buf
  BY DEF ClockWith, Control
<1>7. answered = 0 => full'[rd_buf] BY <1>3, <1>5
<1>8. answered # 0 => ~full'[rd_buf] BY <1>3, <1>5
<1>9. /\ (full'[1 - rd_buf] <=> W' = D + 2)
      /\ \/ W' = D + 1 /\ rd_buf = 1 - wr_buf'
         \/ W' = D + 2 /\ rd_buf = wr_buf' /\ wr_pointer' = 0
  <2>1. CASE W = D + 1 /\ rd_buf = 1 - wr_buf /\ W' = W /\ wr_buf' = wr_buf
    BY <1>0, <1>3, <1>5, <2>1
  <2>2. CASE W = D + 1 /\ rd_buf = 1 - wr_buf
             /\ W' = W + 1 /\ wr_buf' = 1 - wr_buf /\ wr_pointer' = 0
    <3>1. wr_buf = 1 - rd_buf /\ W' = D + 2 BY <1>0, <2>2
    <3>2. full'[1 - rd_buf] BY <1>3, <2>2, <3>1
    <3> QED BY <2>2, <3>1, <3>2
  <2>3. CASE W = D + 2 /\ rd_buf = wr_buf /\ wr_pointer = 0
    <3>1. W' = W /\ wr_buf' = wr_buf /\ W = sent
      BY <1>0, <1>2, <1>4, <2>3
    <3>2. full'[1 - rd_buf] BY <1>3, <1>5, <2>3
    <3> QED BY <1>2, <2>3, <3>1, <3>2
  <2> QED BY <1>2, <1>5, <2>1, <2>2, <2>3
<1> QED BY <1>1, <1>5, <1>6, <1>7, <1>8, <1>9 DEF Idle, Sending

\* A word of the packet is offered and perhaps taken.
LEMMA WordStep ==
  ASSUME Base, Orderly, NEW mod_en \in BOOLEAN, ClockWith(mod_en), ~disturbed',
         mst_exec_state = "SEND_STREAM", read_pointer # Words
  PROVE  /\ mst_exec_state' = "SEND_STREAM" /\ rd_buf' = rd_buf /\ count' = count
         /\ UNCHANGED <<received, armed>> /\ ~tx_done' /\ tx_done' \in BOOLEAN
         /\ read_pointer' \in 1 .. Words
         /\ axis_tvalid_delay' = TRUE /\ axis_tlast_delay' \in BOOLEAN
         /\ stream_data_out' \in Word
         /\ Streaming'
<1>0. /\ read_pointer \in 0 .. Words - 1 /\ Words \in Nat /\ tx_done \in BOOLEAN
      /\ stream_data_out \in Word /\ D \in Nat
  BY Sizes, Counts DEF Base, Types, TypeOK
<1>1. mst_exec_state' = "SEND_STREAM" /\ rd_buf' = rd_buf /\ count' = count
  BY DEF ClockWith, Control
<1>2. axis_tvalid = TRUE BY <1>0 DEF axis_tvalid
<1>3. UNCHANGED <<received, armed>>
  <2>1. CASE read_pointer = 0 BY <1>0, <2>1, NothingPasses DEF ClockWith
  <2>2. CASE read_pointer # 0
    <3>1. read_pointer \in 1 .. Words - 1 BY <1>0, <2>2
    <3> QED BY <3>1, WordPasses DEF ClockWith
  <2> QED BY <2>1, <2>2
<1>4. answered' = answered BY <1>3 DEF answered
<1>5. D' = D BY <1>4 DEF D
<1>6. CASE tready
  <2>1. read_pointer' = read_pointer + 1 /\ ~tx_done' /\ tx_done' \in BOOLEAN
    BY <1>0, <1>2, <1>6 DEF ClockWith, ReadPointer, DoneKept
  <2>2. stream_data_out' = mod_data_buf[rd_buf][read_pointer]
        /\ axis_tvalid_delay' = TRUE
        /\ axis_tlast_delay' = (read_pointer = Words - 1)
    BY <1>2, <1>6 DEF ClockWith, Outputs, axis_tlast
  <2>3. stream_data_out' = <<D, read_pointer>> BY <1>0, <2>2, DataRead
  <2>4. <<D, read_pointer>> \in Word BY <1>0 DEF Word
  <2>5. Len(got') = read_pointer
        /\ \A w \in 1 .. Len(got') : got'[w] = [word |-> <<D, w - 1>>, last |-> FALSE]
    <3>1. CASE read_pointer = 0
      <4>1. got' = <<>> BY <3>1, NothingPasses DEF ClockWith, Orderly, Streaming
      <4> QED BY <3>1, <4>1
    <3>2. CASE read_pointer # 0
      <4>1. read_pointer \in 1 .. Words - 1 BY <1>0, <3>2
      <4> QED BY <1>6, <4>1, WordPasses DEF ClockWith
    <3> QED BY <3>1, <3>2
  <2>6. ~armed' => Len(got') <= Skid
    <3>1. CASE read_pointer = 0 BY <2>5, <3>1, Sizes
    <3>2. CASE read_pointer # 0
      <4>1. read_pointer \in 1 .. Words - 1 BY <1>0, <3>2
      <4> QED BY <1>3, <4>1, WordPasses DEF ClockWith
    <3> QED BY <3>1, <3>2
  <2>7. read_pointer' \in 1 .. Words /\ read_pointer' - 1 = read_pointer /\ read_pointer' # 0
        /\ ((read_pointer = Words - 1) <=> read_pointer' = Words)
    BY <1>0, <2>1
  <2>8. Streaming'
    BY <1>1, <1>5, <2>2, <2>3, <2>5, <2>6, <2>7 DEF Streaming
  <2> QED BY <1>0, <1>1, <1>3, <2>1, <2>2, <2>3, <2>4, <2>5, <2>7, <2>8
<1>7. CASE ~tready
  <2>1. read_pointer \in 1 .. Words - 2 BY <1>7, ReadyAtEnds
  <2>2. read_pointer # 0 /\ Len(got) = read_pointer - 1
    BY <1>0, <2>1 DEF Orderly, Streaming
  <2>3. read_pointer \in 1 .. Words - 1 /\ read_pointer # Words - 1
    BY <1>0, <2>1, Sizes
  <2>4. read_pointer' = read_pointer /\ tx_done' = tx_done
    BY <1>0, <1>7 DEF ClockWith, ReadPointer, DoneKept
  <2>5. ~tx_done BY <2>2 DEF Orderly, Sending
  <2>6. stream_data_out' = stream_data_out /\ axis_tvalid_delay' = TRUE
        /\ axis_tlast_delay' = (read_pointer = Words - 1)
    BY <1>2, <1>7 DEF ClockWith, Outputs, axis_tlast
  <2>7. got' = got BY <1>7, <2>3, WordPasses DEF ClockWith
  <2>8. ~axis_tlast_delay' /\ read_pointer' # Words BY <2>3, <2>4, <2>6, <1>0
  <2>9. Streaming'
    BY <1>1, <1>3, <1>5, <2>2, <2>4, <2>6, <2>7, <2>8 DEF Orderly, Streaming
  <2> QED BY <1>0, <1>1, <1>3, <2>2, <2>3, <2>4, <2>5, <2>6, <2>7, <2>9
<1> QED BY <1>6, <1>7

LEMMA SendStep ==
  ASSUME Base, Orderly, NEW mod_en \in BOOLEAN, ClockWith(mod_en), ~disturbed',
         mst_exec_state = "SEND_STREAM", read_pointer # Words
  PROVE  Idle' /\ Sending'
<1>0. /\ W \in Nat /\ D \in Nat /\ sent \in Nat /\ answered \in Nat /\ W <= sent
      /\ sent <= answered + 1
      /\ rd_buf \in {0, 1} /\ wr_buf \in {0, 1} /\ full \in [Bufs -> BOOLEAN]
  BY Counts DEF Base, Types, TypeOK, Bufs
<1>1. /\ mst_exec_state' = "SEND_STREAM" /\ rd_buf' = rd_buf /\ received' = received
      /\ ~tx_done' /\ read_pointer' \in 1 .. Words
  BY WordStep
<1>r. read_pointer' # 0 BY <1>1, Sizes
<1>2. answered' = answered BY <1>1 DEF answered
<1>3. D' = D BY <1>2 DEF D
<1>4. \/ W' = W /\ wr_buf' = wr_buf /\ (W = sent => wr_pointer' = wr_pointer)
      \/ W' = W + 1 /\ wr_buf' = 1 - wr_buf /\ wr_pointer' = 0 /\ wr_pointer # 0 /\ W < sent
  BY WriteSide DEF ClockWith
<1>5. /\ tx_done => ~full'[rd_buf]
      /\ ~tx_done => (full'[rd_buf] <=> full[rd_buf] \/ (W' = W + 1 /\ wr_buf = rd_buf))
      /\ (full'[1 - rd_buf] <=> full[1 - rd_buf] \/ (W' = W + 1 /\ wr_buf = 1 - rd_buf))
  BY Flags DEF ClockWith
<1>6. /\ answered = 0 => D = 0
      /\ answered # 0 => D = answered - 1
  BY Counts
<1>7. /\ (tx_done <=> answered # 0 /\ read_pointer = 0)
      /\ (full[1 - rd_buf] <=> W = D + 2)
      /\ answered = 0 => full[rd_buf] /\ rd_buf = 0
      /\ answered # 0 => ~full[rd_buf]
      /\ \/ W = D + 1 /\ rd_buf = 1 - wr_buf
         \/ W = D + 2 /\ rd_buf = wr_buf /\ wr_pointer = 0
  BY DEF Orderly, Sending
<1>8. W' = W + 1 => W = D + 1 /\ wr_buf = 1 - rd_buf /\ wr_buf # rd_buf /\ wr_buf' = rd_buf
                    /\ wr_pointer' = 0
  <2>1. ASSUME W' = W + 1
        PROVE  wr_buf' = 1 - wr_buf /\ wr_pointer' = 0 /\ W < sent
    BY <1>0, <1>4, <2>1
  <2>2. ASSUME W' = W + 1 PROVE W = D + 1 BY <1>0, <1>6, <1>7, <2>1, <2>2
  <2>3. ASSUME W' = W + 1 PROVE rd_buf = 1 - wr_buf BY <1>0, <1>7, <2>2, <2>3
  <2> QED BY <1>0, <2>1, <2>2, <2>3
<1>9. answered = 0 => full'[rd_buf] BY <1>5, <1>7
<1>10. answered # 0 => ~full'[rd_buf] BY <1>5, <1>7, <1>8
<1>11. /\ (full'[1 - rd_buf] <=> W' = D + 2)
       /\ \/ W' = D + 1 /\ rd_buf = 1 - wr_buf'
          \/ W' = D + 2 /\ rd_buf = wr_buf' /\ wr_pointer' = 0
  <2>1. CASE W' = W + 1
    <3>1. W' = D + 2 BY <1>0, <1>8, <2>1
    <3>2. full'[1 - rd_buf] BY <1>5, <1>8, <2>1
    <3> QED BY <1>8, <2>1, <3>1, <3>2
  <2>2. CASE W' = W /\ wr_buf' = wr_buf /\ (W = sent => wr_pointer' = wr_pointer)
    <3>1. W' # W + 1 BY <1>0, <2>2
    <3>2. full'[1 - rd_buf] <=> W' = D + 2 BY <1>5, <1>7, <2>2, <3>1
    <3>3. W = D + 2 => W = sent BY <1>0, <1>6
    <3> QED BY <1>7, <2>2, <3>2, <3>3
  <2> QED BY <1>4, <2>1, <2>2
<1> QED BY <1>1, <1>r, <1>2, <1>3, <1>7, <1>9, <1>10, <1>11 DEF Idle, Sending

\* The last word is taken: the next packet is due.
LEMMA PacketStep ==
  ASSUME Base, Orderly, NEW mod_en \in BOOLEAN, ClockWith(mod_en), ~disturbed',
         mst_exec_state = "SEND_STREAM", read_pointer = Words
  PROVE  /\ mst_exec_state' = "IDLE" /\ rd_buf' = rd_buf /\ count' = count
         /\ read_pointer' = 0 /\ tx_done' = TRUE /\ stream_data_out' = stream_data_out
         /\ axis_tvalid_delay' = FALSE /\ axis_tlast_delay' \in BOOLEAN
         /\ armed /\ armed' = FALSE /\ got' = <<>>
         /\ received' = Append(received, Spectrum(D)) /\ Spectrum(D) \in Seq(Word)
         /\ answered' = answered + 1 /\ D' = answered
<1>0. answered \in Nat /\ received \in Seq(Seq(Word)) BY Counts DEF Base, Types
<1>1. mst_exec_state' = "IDLE" /\ rd_buf' = rd_buf /\ count' = count
  BY DEF ClockWith, Control
<1>2. axis_tvalid = FALSE BY Sizes DEF axis_tvalid
<1>3. read_pointer' = 0 /\ tx_done' = TRUE BY DEF ClockWith, ReadPointer
<1>4. axis_tvalid_delay' = FALSE /\ axis_tlast_delay' \in BOOLEAN
      /\ stream_data_out' = stream_data_out
  BY <1>2 DEF ClockWith, Outputs, axis_tlast
<1>t. tready BY ReadyAtEnds, Sizes
<1>5. /\ armed /\ armed' = FALSE /\ got' = <<>>
      /\ received' = Append(received, Spectrum(D)) /\ Spectrum(D) \in Seq(Word)
  BY <1>t, PacketPasses DEF ClockWith
<1>6. answered' = answered + 1 BY <1>0, <1>5 DEF answered
<1>7. answered' # 0 /\ answered' - 1 = answered BY <1>0, <1>6
<1>8. D' = answered BY <1>7 DEF D
<1> QED BY <1>1, <1>3, <1>4, <1>5, <1>6, <1>8

LEMMA DoneStep ==
  ASSUME Base, Orderly, NEW mod_en \in BOOLEAN, ClockWith(mod_en), ~disturbed',
         mst_exec_state = "SEND_STREAM", read_pointer = Words
  PROVE  Idle' /\ Sending' /\ Streaming'
<1>0. /\ W \in Nat /\ D \in Nat /\ sent \in Nat /\ answered \in Nat /\ W <= sent
      /\ sent <= answered + 1
      /\ rd_buf \in {0, 1} /\ wr_buf \in {0, 1} /\ full \in [Bufs -> BOOLEAN]
  BY Counts DEF Base, Types, TypeOK, Bufs
<1>1. /\ mst_exec_state' = "IDLE" /\ rd_buf' = rd_buf /\ read_pointer' = 0 /\ tx_done'
      /\ ~axis_tvalid_delay' /\ got' = <<>>
      /\ answered' = answered + 1 /\ D' = answered
  BY PacketStep
<1>2. Streaming'
  <2>1. Len(got') <= Skid BY <1>1, Sizes
  <2> QED BY <1>1, <2>1 DEF Streaming
<1>3. Sending' BY <1>1 DEF Sending
<1>4. \/ W' = W /\ wr_buf' = wr_buf /\ (W = sent => wr_pointer' = wr_pointer)
      \/ W' = W + 1 /\ wr_buf' = 1 - wr_buf /\ wr_pointer' = 0 /\ wr_pointer # 0 /\ W < sent
  BY WriteSide DEF ClockWith
<1>5. /\ ~tx_done => (full'[rd_buf] <=> full[rd_buf] \/ (W' = W + 1 /\ wr_buf = rd_buf))
      /\ (full'[1 - rd_buf] <=> full[1 - rd_buf] \/ (W' = W + 1 /\ wr_buf = 1 - rd_buf))
  BY Flags DEF ClockWith
<1>6. /\ answered = 0 => D = 0
      /\ answered # 0 => D = answered - 1
      /\ W = sent => fft = <<>>
  BY Counts
<1>7. /\ ~tx_done
      /\ (full[1 - rd_buf] <=> W = D + 2)
      /\ answered = 0 => full[rd_buf] /\ rd_buf = 0
      /\ answered # 0 => ~full[rd_buf]
      /\ \/ W = D + 1 /\ rd_buf = 1 - wr_buf
         \/ W = D + 2 /\ rd_buf = wr_buf /\ wr_pointer = 0
  BY Sizes DEF Orderly, Sending
<1>8. W = sent => wr_pointer = 0 BY <1>6 DEF Base, Feeding
<1>9. CASE answered = 0
  <2>1. W = 1 /\ W = sent /\ rd_buf = 0 /\ wr_buf = 1 BY <1>0, <1>6, <1>7, <1>9
  <2>2. W' = 1 /\ wr_buf' = 1 /\ wr_pointer' = 0 /\ W' # W + 1
    BY <1>0, <1>4, <1>8, <2>1
  <2>3. full'[0] BY <1>5, <1>7, <1>9, <2>1
  <2>4. ~full'[1]
    <3>1. 1 - rd_buf = 1 /\ W # D + 2 BY <1>6, <1>9, <2>1
    <3> QED BY <1>5, <1>7, <2>2, <3>1
  <2>5. answered' = 1 BY <1>1, <1>9
  <2> QED BY <1>1, <1>2, <1>3, <2>1, <2>2, <2>3, <2>4, <2>5 DEF Idle
<1>10. CASE answered # 0
  <2>1. D' = D + 1 /\ answered' > 1 /\ answered' # 0 BY <1>0, <1>1, <1>6, <1>10
  <2>2. W' = W + 1 => W = D + 1 /\ wr_buf = 1 - rd_buf /\ wr_buf # rd_buf /\ wr_buf' = rd_buf
                      /\ wr_pointer' = 0
    <3>1. ASSUME W' = W + 1
          PROVE  wr_buf' = 1 - wr_buf /\ wr_pointer' = 0 /\ W < sent
      BY <1>0, <1>4, <3>1
    <3>2. ASSUME W' = W + 1 PROVE W = D + 1 BY <1>0, <1>6, <1>7, <3>1, <3>2
    <3>3. ASSUME W' = W + 1 PROVE rd_buf = 1 - wr_buf BY <1>0, <1>7, <3>2, <3>3
    <3> QED BY <1>0, <3>1, <3>2, <3>3
  <2>3. ~full'[rd_buf] BY <1>5, <1>7, <1>10, <2>2
  <2>4. \/ W' = D' /\ rd_buf = 1 - wr_buf' /\ ~full'[1 - rd_buf]
        \/ W' = D' + 1 /\ rd_buf = wr_buf' /\ full'[1 - rd_buf] /\ wr_pointer' = 0
    <3>1. CASE W' = W + 1
      <4>1. full'[1 - rd_buf] BY <1>5, <2>2, <3>1
      <4> QED BY <1>0, <2>1, <2>2, <3>1, <4>1
    <3>2. CASE W' = W /\ wr_buf' = wr_buf /\ (W = sent => wr_pointer' = wr_pointer)
      <4>1. W' # W + 1 BY <1>0, <3>2
      <4>2. full'[1 - rd_buf] <=> W = D + 2 BY <1>5, <1>7, <4>1
      <4>3. W = D + 2 => W = sent BY <1>0, <1>6, <1>10
      <4> QED BY <1>0, <1>7, <1>8, <2>1, <3>2, <4>2, <4>3
    <3> QED BY <1>4, <3>1, <3>2
  <2>5. answered' # 1 BY <1>0, <2>1
  <2> QED BY <1>1, <1>2, <1>3, <2>1, <2>3, <2>4, <2>5 DEF Idle
<1> QED BY <1>9, <1>10

-----------------------------------------------------------------------------
(***************************************************************************)
(* The invariant holds                                                     *)
(***************************************************************************)
\* What the receive channel can do, after a disturbance too.
LEMMA ReceiveTypes ==
  ASSUME Base, Receive
  PROVE  /\ got' \in Seq(Beat) /\ Len(got') <= Words
         /\ \/ UNCHANGED <<received, armed>>
            \/ /\ armed /\ armed' = FALSE /\ received' \in Seq(Seq(Word))
               /\ Len(received') = Len(received) + 1
<1>0. /\ got \in Seq(Beat) /\ stream_data_out \in Word /\ axis_tlast_delay \in BOOLEAN
      /\ received \in Seq(Seq(Word)) /\ Len(got) <= Words /\ Len(got) \in Nat
      /\ tready => Len(got) < Words
      /\ Words \in Nat
  <2>1. tready => Len(got) < (IF armed THEN Words ELSE Skid) BY DEF Base, Types, TypeOK, Room
  <2>2. got \in Seq(Beat) /\ Len(got) <= Words BY DEF Base, Types, TypeOK
  <2>3. Len(got) \in Nat BY <2>2
  <2> QED BY <2>1, <2>2, <2>3, Sizes DEF Base, Types
<1>1. Taken \in Seq(Beat) /\ Len(Taken) <= Words
  <2>1. CASE axis_tvalid_delay /\ tready
    <3>1. PICK beat : beat = [word |-> stream_data_out, last |-> axis_tlast_delay]
      OBVIOUS
    <3>2. beat \in Beat BY <1>0, <3>1 DEF Beat
    <3>3. Taken = Append(got, beat) BY <2>1, <3>1 DEF Taken
    <3> QED BY <1>0, <2>1, <3>2, <3>3
  <2>2. CASE ~(axis_tvalid_delay /\ tready)
    <3>1. Taken = got BY <2>2 DEF Taken
    <3> QED BY <1>0, <3>1
  <2> QED BY <2>1, <2>2
<1>2. CASE armed /\ Ends # {}
  <2>1. PICK q \in Ends :
          /\ received' = Append(received, [w \in 1 .. q |-> Taken[w].word])
          /\ got' = SubSeq(Taken, q + 1, Len(Taken)) /\ armed' = FALSE
    BY <1>2 DEF Receive
  <2>2. q \in 1 .. Len(Taken) /\ Len(Taken) \in Nat BY <1>1 DEF Ends
  <2>3. got' \in Seq(Beat) /\ Len(got') <= Len(Taken)
    <3>1. q + 1 \in 1 .. Len(Taken) + 1 /\ q + 1 \in Nat BY <2>2
    <3>2. SubSeq(Taken, q + 1, Len(Taken)) \in Seq(Beat) BY <1>1, <2>2, <3>1
    <3>3. Len(SubSeq(Taken, q + 1, Len(Taken))) <= Len(Taken) BY <1>1, <2>2, <3>1
    <3> QED BY <2>1, <3>2, <3>3
  <2>4. [w \in 1 .. q |-> Taken[w].word] \in Seq(Word)
    <3>1. \A w \in 1 .. q : Taken[w] \in Beat BY <1>1, <2>2
    <3>2. \A w \in 1 .. q : Taken[w].word \in Word BY <3>1 DEF Beat
    <3> QED BY <2>2, <3>2
  <2>5. received' \in Seq(Seq(Word)) /\ Len(received') = Len(received) + 1
    BY <1>0, <2>1, <2>4
  <2>6. Len(got') <= Words
    <3>1. Len(got') \in Nat /\ Len(Taken) \in Nat BY <1>1, <2>3
    <3> QED BY ONLY <1>0, <1>1, <2>3, <3>1
  <2> QED BY ONLY <1>2, <2>1, <2>3, <2>5, <2>6
<1>3. CASE ~(armed /\ Ends # {})
  <2>1. got' = Taken /\ UNCHANGED <<received, armed>> BY <1>3 DEF Receive
  <2> QED BY <1>1, <2>1
<1> QED BY <1>2, <1>3

\* The registers of the read side, after a disturbance too.
LEMMA RegisterTypes ==
  ASSUME Base, NEW mod_en \in BOOLEAN, ClockWith(mod_en)
  PROVE  /\ mst_exec_state' \in {"IDLE", "INIT_COUNTER", "SEND_STREAM"}
         /\ count' \in 0 .. StartCount - 1 /\ rd_buf' \in Bufs
         /\ read_pointer' \in 0 .. Words /\ tx_done' \in BOOLEAN
         /\ axis_tvalid_delay' \in BOOLEAN /\ axis_tlast_delay' \in BOOLEAN
         /\ stream_data_out' \in Word
<1>0. /\ mst_exec_state \in {"IDLE", "INIT_COUNTER", "SEND_STREAM"}
      /\ count \in 0 .. StartCount - 1 /\ rd_buf \in Bufs
      /\ read_pointer \in 0 .. Words /\ tx_done \in BOOLEAN /\ stream_data_out \in Word
      /\ mod_data_buf \in [Bufs -> [0 .. Words - 1 -> Word]]
  BY DEF Base, Types, TypeOK
<1>1. mst_exec_state' \in {"IDLE", "INIT_COUNTER", "SEND_STREAM"}
      /\ count' \in 0 .. StartCount - 1 /\ rd_buf' \in Bufs
  <2>1. CASE mst_exec_state = "IDLE" BY <1>0, <2>1 DEF ClockWith, Control, Bufs
  <2>2. CASE mst_exec_state = "INIT_COUNTER"
    <3>1. mst_exec_state' \in {"INIT_COUNTER", "SEND_STREAM"} /\ rd_buf' = rd_buf
          /\ (count' = count \/ (count # StartCount - 1 /\ count' = count + 1))
      BY <2>2 DEF ClockWith, Control
    <3> QED BY <1>0, <3>1, Sizes
  <2>3. CASE mst_exec_state = "SEND_STREAM"
    <3>1. mst_exec_state' \in {"IDLE", "SEND_STREAM"} /\ rd_buf' = rd_buf /\ count' = count
      BY <2>3 DEF ClockWith, Control
    <3> QED BY <1>0, <3>1
  <2> QED BY <1>0, <2>1, <2>2, <2>3
<1>2. axis_tvalid => read_pointer \in 0 .. Words - 1 BY <1>0, Sizes DEF axis_tvalid
<1>3. read_pointer' \in 0 .. Words
  <2>1. \/ read_pointer' = 0
        \/ read_pointer' = read_pointer
        \/ read_pointer # Words /\ read_pointer' = read_pointer + 1
    BY DEF ClockWith, ReadPointer
  <2> QED BY <1>0, <2>1, Sizes
<1>4. tx_done' \in BOOLEAN BY <1>0 DEF ClockWith, ReadPointer, DoneKept
<1>5. axis_tvalid_delay' \in BOOLEAN /\ axis_tlast_delay' \in BOOLEAN
  BY DEF ClockWith, Outputs, axis_tvalid, axis_tlast
<1>6. stream_data_out' \in Word
  <2>1. CASE tready /\ axis_tvalid
    <3>1. stream_data_out' = mod_data_buf[rd_buf][read_pointer]
      BY <2>1 DEF ClockWith, Outputs
    <3> QED BY <1>0, <1>2, <2>1, <3>1
  <2>2. CASE ~(tready /\ axis_tvalid)
    <3>1. stream_data_out' = stream_data_out BY <2>2 DEF ClockWith, Outputs
    <3> QED BY <1>0, <3>1
  <2> QED BY <2>1, <2>2
<1> QED BY <1>1, <1>3, <1>4, <1>5, <1>6

LEMMA ClockBase ==
  ASSUME Base, NEW mod_en \in BOOLEAN, ClockWith(mod_en)
  PROVE  Base'
<1>0. armed \in BOOLEAN /\ Len(received) <= sent /\ sent \in 0 .. MaxFrames
      /\ received \in Seq(Seq(Word)) /\ Len(received) \in Nat /\ disturbed \in BOOLEAN
      /\ sent = Len(received) + (IF armed THEN 1 ELSE 0)
  <2>1. received \in Seq(Seq(Word)) BY DEF Base, Types
  <2> QED BY <2>1 DEF Base, Types, TypeOK, InTurn, answered
<1>1. /\ Feeding' /\ Buffered'
      /\ fft' \in Seq(Nat) /\ Len(fft') <= sent'
      /\ wr_buf' \in Bufs /\ wr_pointer' \in 0 .. Words - 1
      /\ mod_data_buf' \in [Bufs -> [0 .. Words - 1 -> Word]]
      /\ full' \in [Bufs -> BOOLEAN]
  BY WriteSide DEF ClockWith
<1>2. sent' = sent BY DEF ClockWith
<1>3. /\ got' \in Seq(Beat) /\ Len(got') <= Words
      /\ \/ UNCHANGED <<received, armed>>
         \/ /\ armed /\ armed' = FALSE /\ received' \in Seq(Seq(Word))
            /\ Len(received') = Len(received) + 1
  BY ReceiveTypes DEF ClockWith
<1>4. /\ received' \in Seq(Seq(Word)) /\ armed' \in BOOLEAN /\ Len(received') <= sent'
      /\ sent' = Len(received') + (IF armed' THEN 1 ELSE 0)
  <2>1. CASE UNCHANGED <<received, armed>>
    <3>1. received' = received /\ armed' = armed BY <2>1
    <3> QED BY <1>0, <1>2, <3>1
  <2>2. CASE /\ armed /\ armed' = FALSE /\ received' \in Seq(Seq(Word))
             /\ Len(received') = Len(received) + 1
    <3>1. sent = Len(received) + 1 BY ONLY <1>0, <2>2
    <3>2. sent' = Len(received') /\ Len(received') <= sent' BY ONLY <1>0, <1>2, <2>2, <3>1
    <3>3. armed' = FALSE /\ received' \in Seq(Seq(Word)) BY <2>2
    <3>4. sent' = Len(received') + 0 BY ONLY <1>0, <1>2, <2>2, <3>1
    <3> QED BY ONLY <3>2, <3>3, <3>4
  <2> QED BY <1>3, <2>1, <2>2
<1>5. InTurn' BY <1>4 DEF InTurn, answered
<1>6. tready' \in BOOLEAN /\ (tready' => Room') /\ disturbed' \in BOOLEAN
  BY <1>0 DEF ClockWith, Ready, Disturbs
<1>7. TypeOK' BY <1>1, <1>3, <1>4, <1>6, RegisterTypes DEF TypeOK, Bufs
<1>8. Types'
  BY <1>0, <1>1, <1>2, <1>3, <1>4, <1>7, RegisterTypes DEF Types, Word, Beat, NoWord, Bufs
<1> QED BY <1>1, <1>5, <1>8 DEF Base

LEMMA ClockOrderly ==
  ASSUME Base, Orderly, NEW mod_en \in BOOLEAN, ClockWith(mod_en), ~disturbed'
  PROVE  Orderly'
<1>0. /\ mst_exec_state \in {"IDLE", "INIT_COUNTER", "SEND_STREAM"}
      /\ received \in Seq(Seq(Word))
  BY DEF Base, Types, TypeOK
<1>1. CASE mst_exec_state # "SEND_STREAM"
  <2>1. /\ UNCHANGED <<read_pointer, tx_done, stream_data_out, got, received, armed>>
        /\ read_pointer = 0 /\ axis_tvalid_delay' = FALSE
        /\ answered' = answered /\ D' = D
    BY <1>1, Waiting
  <2>2. Idle' /\ Sending' BY <1>0, <1>1, IdleStep, InitCounterStep
  <2>3. Answered' BY <2>1 DEF Orderly, Answered, Spectrum
  <2>4. Streaming' BY <2>1 DEF Orderly, Streaming
  <2> QED BY <2>2, <2>3, <2>4 DEF Orderly
<1>2. CASE mst_exec_state = "SEND_STREAM" /\ read_pointer # Words
  <2>1. UNCHANGED <<received, armed>> /\ Streaming' BY <1>2, WordStep
  <2>2. Idle' /\ Sending' BY <1>2, SendStep
  <2>3. Answered' BY <2>1 DEF Orderly, Answered, Spectrum
  <2> QED BY <2>1, <2>2, <2>3 DEF Orderly
<1>3. CASE mst_exec_state = "SEND_STREAM" /\ read_pointer = Words
  <2>1. received' = Append(received, Spectrum(D)) /\ Spectrum(D) \in Seq(Word)
    BY <1>3, PacketStep
  <2>2. Idle' /\ Sending' /\ Streaming' BY <1>3, DoneStep
  <2>3. answered \in Nat /\ Len(received') = answered + 1
        /\ (\A k \in 1 .. answered : received'[k] = received[k])
        /\ received'[answered + 1] = Spectrum(D)
    BY <1>0, <2>1 DEF answered
  <2>4. Answered'
    <3> SUFFICES ASSUME NEW k \in 1 .. Len(received')
                 PROVE  received'[k] = Spectrum(IF k = 1 THEN 0 ELSE k - 2)
      BY DEF Answered, Spectrum
    <3>1. CASE k \in 1 .. answered
      BY <2>3, <3>1 DEF Orderly, Answered, answered
    <3>2. CASE k = answered + 1
      <4>1. D = IF k = 1 THEN 0 ELSE k - 2 BY <2>3, <3>2 DEF D
      <4>2. received'[k] = Spectrum(D)
        <5>1. received'[answered + 1] = Spectrum(D) BY <2>3
        <5> QED BY ONLY <5>1, <3>2
      <4> QED BY <4>1, <4>2
    <3> QED BY <2>3, <3>1, <3>2
  <2> QED BY <2>2, <2>4 DEF Orderly
<1> QED BY <1>1, <1>2, <1>3

LEMMA ClockStep ==
  ASSUME IInv, NEW mod_en \in BOOLEAN, ClockWith(mod_en)
  PROVE  IInv'
<1>1. Base' BY ClockBase DEF IInv
<1>2. ASSUME ~disturbed' PROVE Orderly'
  <2>1. ~disturbed BY <1>2 DEF ClockWith
  <2> QED BY <1>2, <2>1, ClockOrderly DEF IInv
<1> QED BY <1>1, <1>2 DEF IInv

LEMMA SendFrameStep == ASSUME IInv, SendFrame PROVE IInv'
<1>0. /\ sent \in Nat /\ MaxFrames \in Nat /\ fft \in Seq(Nat) /\ Len(fft) <= sent
      /\ W \in Nat /\ ~armed /\ sent < MaxFrames /\ sent = answered
      /\ wr_pointer \in 0 .. Words - 1
  BY Sizes, Counts DEF IInv, Base, Types, TypeOK, SendFrame, answered
<1>1. /\ armed' = TRUE /\ fft' = Append(fft, sent) /\ sent' = sent + 1
      /\ UNCHANGED <<mst_exec_state, count, rd_buf, read_pointer, tx_done, axis_tvalid_delay,
                     axis_tlast_delay, stream_data_out, mod_data_buf, full, wr_buf,
                     wr_pointer, got, received, tready, disturbed>>
  BY DEF SendFrame, sendVars, bufVars
<1>2. fft' \in Seq(Nat) /\ Len(fft') = Len(fft) + 1 /\ Len(fft) \in Nat
      /\ (\A q \in 1 .. Len(fft) : fft'[q] = fft[q]) /\ fft'[Len(fft) + 1] = sent
  BY <1>0, <1>1
<1>3. W' = W BY <1>0, <1>1, <1>2 DEF W
<1>4. answered' = answered /\ D' = D BY <1>1 DEF answered, D
<1>5. TypeOK'
  <2>1. tready' => Room'
    <3>1. tready => Len(got) < Skid BY <1>0 DEF IInv, Base, Types, TypeOK, Room
    <3>2. Len(got) \in Nat BY DEF IInv, Base, Types
    <3> QED BY <1>1, <3>1, <3>2, Sizes DEF Room
  <2> QED BY <1>0, <1>1, <2>1 DEF IInv, Base, Types, TypeOK, Bufs
<1>6. Types'
  <2>1. sent' \in 0 .. MaxFrames /\ Len(fft') <= sent' BY <1>0, <1>1, <1>2
  <2> QED BY <1>1, <1>2, <1>5, <2>1 DEF IInv, Base, Types, Word, Beat, NoWord, Bufs
<1>7. InTurn' BY <1>0, <1>1, <1>4 DEF InTurn
<1>8. Feeding'
  <2>1. ASSUME NEW q \in 1 .. Len(fft') PROVE fft'[q] = W' + q - 1
    <3>1. CASE q \in 1 .. Len(fft) BY <1>2, <1>3, <3>1 DEF IInv, Base, Feeding
    <3>2. CASE q = Len(fft) + 1
      <4>1. fft'[q] = sent
        <5>1. fft'[Len(fft) + 1] = sent BY <1>2
        <5> QED BY ONLY <5>1, <3>2
      <4>2. sent = W + q - 1 BY <1>0, <1>2, <3>2 DEF W
      <4> QED BY <1>3, <4>1, <4>2
    <3> QED BY <1>2, <3>1, <3>2
  <2>2. fft' # <<>> BY <1>2
  <2> QED BY <2>1, <2>2 DEF Feeding
<1>9. Buffered' BY <1>1, <1>3 DEF IInv, Base, Buffered
<1>10. ASSUME ~disturbed' PROVE Orderly'
  <2>0. Orderly BY <1>1, <1>10 DEF IInv
  <2>1. Streaming' BY <1>1, <1>4, <2>0 DEF Orderly, Streaming
  <2>2. Idle' BY <1>1, <1>3, <1>4, <2>0 DEF Orderly, Idle
  <2>3. Sending' BY <1>1, <1>3, <1>4, <2>0 DEF Orderly, Sending
  <2>4. Answered' BY <1>1, <2>0 DEF Orderly, Answered, Spectrum
  <2> QED BY <2>1, <2>2, <2>3, <2>4 DEF Orderly
<1> QED BY <1>6, <1>7, <1>8, <1>9, <1>10 DEF IInv, Base

LEMMA StutterStep == ASSUME IInv, UNCHANGED vars PROVE IInv'
<1>1. UNCHANGED <<mst_exec_state, count, rd_buf, read_pointer, tx_done, axis_tvalid_delay,
                  axis_tlast_delay, stream_data_out, mod_data_buf, full, wr_buf,
                  wr_pointer, sent, fft, armed, got, received, tready, disturbed>>
  BY DEF vars, sendVars, bufVars
<1>2. W' = W /\ answered' = answered /\ D' = D BY <1>1 DEF W, D, answered
<1>3. Types'
  BY <1>1 DEF IInv, Base, Types, TypeOK, Room, Word, Beat, NoWord, Bufs
<1>4. InTurn' /\ Feeding' /\ Buffered'
  BY <1>1, <1>2 DEF IInv, Base, InTurn, Feeding, Buffered
<1>5. ASSUME Orderly PROVE Orderly'
  BY <1>1, <1>2, <1>5 DEF Orderly, Streaming, Idle, Sending, Answered, Spectrum
<1> QED BY <1>1, <1>3, <1>4, <1>5 DEF IInv, Base

LEMMA StepInvariant == IInv /\ [Next]_vars => IInv'
<1> SUFFICES ASSUME IInv, [Next]_vars PROVE IInv' OBVIOUS
<1>1. CASE Clock
  <2>1. PICK mod_en \in BOOLEAN : ClockWith(mod_en) BY <1>1 DEF Clock, ClockWith
  <2> QED BY <2>1, ClockStep
<1>2. CASE SendFrame BY <1>2, SendFrameStep
<1>3. CASE UNCHANGED vars BY <1>3, StutterStep
<1> QED BY <1>1, <1>2, <1>3 DEF Next

-----------------------------------------------------------------------------
(***************************************************************************)
(* Theorems                                                                *)
(***************************************************************************)
\* What is written where holds for every TREADY; which buffer is read, which is
\* written, and how far each side is, as long as the DMA was ready at the ends of
\* the packets (the whole of mod_fft_v1_0_M00_AXIS).
THEOREM InvariantHolds == Spec => []IInv
<1> QED BY InitInvariant, StepInvariant, PTL DEF Spec

\* The pointers stay within the buffers, whenever the DMA takes words (read_pointer,
\* wr_pointer).
THEOREM TypeCorrect == Spec => []TypeOK
<1>1. IInv => TypeOK BY DEF IInv, Base, Types
<1> QED BY <1>1, InvariantHolds, PTL

\* The first packets are both the first frame's, and packet k the spectrum of
\* frame k - 2 from then on: the sequence of packets, exactly, for every pace of
\* the FFT and of the DMA within a packet (the release of a buffer one clock after
\* IDLE looked at it).
THEOREM PacketsInOrder == Spec => []PacketOrder
<1>1. IInv => PacketOrder BY DEF IInv, Orderly, Answered, PacketOrder
<1> QED BY <1>1, InvariantHolds, PTL

\* Packets are never torn between two frames, for every pace of the FFT and of the
\* DMA within a packet (the two buffers).
THEOREM PacketsAreWhole == Spec => []PacketsWhole
<1>1. ASSUME IInv PROVE PacketsWhole
  <2> SUFFICES ASSUME ~disturbed, NEW k \in 1 .. Len(received)
               PROVE  \E f \in 0 .. MaxFrames - 1 : received[k] = Spectrum(f)
    BY DEF PacketsWhole
  <2>1. received[k] = Spectrum(IF k = 1 THEN 0 ELSE k - 2)
    BY <1>1 DEF IInv, Orderly, Answered
  <2>2. k \in Nat /\ k > 0 /\ k <= MaxFrames
    <3>1. received \in Seq(Seq(Word)) /\ Len(received) <= sent /\ sent \in 0 .. MaxFrames
      BY <1>1 DEF IInv, Base, Types, TypeOK
    <3>2. Len(received) \in Nat BY <3>1
    <3> QED BY <3>1, <3>2, Sizes
  <2>3. (IF k = 1 THEN 0 ELSE k - 2) \in 0 .. MaxFrames - 1 BY <2>2, Sizes
  <2> QED BY <2>1, <2>3
<1> QED BY <1>1, InvariantHolds, PTL
=================================================================================
