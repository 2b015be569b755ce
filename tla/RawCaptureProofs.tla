--------------------------- MODULE RawCaptureProofs ---------------------------
(***************************************************************************)
(* Proofs about RawCapture, for every chunk size, store size, set of       *)
(* transfers and set of frames.                                            *)
(*                                                                         *)
(* The argument.  A chunk is stored only in a slot of its scan and only    *)
(* once, and it is at most as long as its slot, so the received length is  *)
(* bounded by what the marked slots can hold (LengthBound).  When it       *)
(* reaches the scan's length, every slot is marked (FullMap): length       *)
(* bookkeeping alone makes the bitmap full, and the whole-scan CRC then    *)
(* makes every slot the scan's own.                                        *)
(***************************************************************************)
EXTENDS RawCapture, FiniteSetTheorems, TLAPS

-----------------------------------------------------------------------------
(***************************************************************************)
(* Arithmetic of chunks and slots                                          *)
(***************************************************************************)
\* The quotient's bounds.
LEMMA DivDef ==
  ASSUME NEW a \in Nat, NEW b \in Nat \ {0}
  PROVE  /\ a \div b \in Nat
         /\ b * (a \div b) <= a
         /\ a < b * (a \div b) + b
<1>1. /\ a \div b \in Int
      /\ a % b \in 0 .. (b - 1)
      /\ a = b * (a \div b) + (a % b)
  BY SMTT(20)
<1> QED BY <1>1, SMTT(20)

LEMMA MulMono ==
  ASSUME NEW a \in Int, NEW b \in Int, NEW c \in Nat, a <= b
  PROVE  a * c <= b * c
BY SMTT(20)

\* CeilDiv(a, b) is the number of chunks of b units that a units need.
LEMMA CeilDivProps ==
  ASSUME NEW a \in Nat \ {0}, NEW b \in Nat \ {0}
  PROVE  /\ CeilDiv(a, b) \in Nat \ {0}
         /\ (CeilDiv(a, b) - 1) * b < a
         /\ a <= CeilDiv(a, b) * b
<1> DEFINE x == a + b - 1
<1> DEFINE d == x \div b
<1>0. x \in Nat OBVIOUS
<1>1. d \in Nat /\ b * d <= x /\ x < b * d + b BY DivDef, <1>0
<1> HIDE DEF d
<1>2. d # 0 BY <1>1
<1>3. (d - 1) * b = b * d - b /\ d * b = b * d BY <1>1, SMTT(20)
<1> QED BY <1>1, <1>2, <1>3 DEF CeilDiv, d

\* A longer scan needs at least as many chunks.
LEMMA CeilDivMono ==
  ASSUME NEW a \in Nat \ {0}, NEW c \in Nat \ {0}, NEW b \in Nat \ {0}, a <= c
  PROVE  CeilDiv(a, b) <= CeilDiv(c, b)
<1> DEFINE m == CeilDiv(a, b)
           n == CeilDiv(c, b)
<1>1. m \in Nat \ {0} /\ (m - 1) * b < a BY CeilDivProps
<1>2. n \in Nat \ {0} /\ c <= n * b BY CeilDivProps
<1> HIDE DEF m, n
<1> SUFFICES ASSUME n < m PROVE FALSE BY <1>1, <1>2 DEF m, n
<1>3. n <= m - 1 BY <1>1, <1>2
<1>4. n * b <= (m - 1) * b BY <1>1, <1>2, <1>3, MulMono
<1>5. n * b \in Int /\ (m - 1) * b \in Int BY <1>1, <1>2
<1> QED BY <1>1, <1>2, <1>4, <1>5

LEMMA Sizes == ChunkMax \in Nat \ {0} /\ Capacity \in Nat \ {0}
BY RawCaptureAssumption

\* The slots of a scan that fits: an initial segment of the store's.
LEMMA SlotsProps ==
  ASSUME NEW total \in 1 .. Capacity
  PROVE  /\ SlotsOf(total) \subseteq Slots
         /\ 0 \in SlotsOf(total)
         /\ SlotsOf(total) \subseteq Nat
         /\ LastSlot(total) \in SlotsOf(total)
         /\ IsFiniteSet(SlotsOf(total))
         /\ Cardinality(SlotsOf(total)) = CeilDiv(total, ChunkMax)
<1> USE Sizes
<1> DEFINE n == CeilDiv(total, ChunkMax)
           k == CeilDiv(Capacity, ChunkMax)
<1>0. total \in Nat \ {0} /\ total <= Capacity OBVIOUS
<1>1. n \in Nat \ {0} BY <1>0, CeilDivProps
<1>2. k \in Nat \ {0} BY CeilDivProps
<1>3. n <= k BY <1>0, CeilDivMono
<1> HIDE DEF n, k
<1>4. SlotsOf(total) = 0 .. (n - 1) BY DEF SlotsOf, n
<1>5. Slots = 0 .. (k - 1) BY DEF Slots, SlotsOf, k
<1>6. LastSlot(total) = n - 1 BY DEF LastSlot, n
<1>7. IsFiniteSet(0 .. (n - 1)) /\ Cardinality(0 .. (n - 1)) = n
  BY <1>1, FS_Interval
<1> QED BY <1>1, <1>2, <1>3, <1>4, <1>5, <1>6, <1>7 DEF n

\* Every slot of a scan is used, none beyond its size.
LEMMA FullLenProps ==
  ASSUME NEW total \in 1 .. Capacity, NEW i \in SlotsOf(total)
  PROVE  /\ FullLen(total, i) \in 1 .. ChunkMax
         /\ FullLen(total, i) <= total - i * ChunkMax
         /\ i # LastSlot(total) => FullLen(total, i) = ChunkMax
         /\ i = LastSlot(total) => FullLen(total, i) = total - i * ChunkMax
<1> USE Sizes
<1> DEFINE n == CeilDiv(total, ChunkMax)
           p == i * ChunkMax
           q == (n - 1) * ChunkMax
<1>0. total \in Nat \ {0} OBVIOUS
<1>1. n \in Nat \ {0} /\ q < total /\ total <= n * ChunkMax BY <1>0, CeilDivProps
<1> HIDE DEF n
<1>2. i \in 0 .. (n - 1) BY DEF SlotsOf, n
<1>3. p \in Nat /\ q \in Nat BY <1>1, <1>2
<1>4. p <= q BY <1>1, <1>2, MulMono
<1>5. total <= q + ChunkMax BY <1>1
<1>6. i # n - 1 => p + ChunkMax <= q
  <2> SUFFICES ASSUME i # n - 1 PROVE p + ChunkMax <= q OBVIOUS
  <2>1. i + 1 <= n - 1 BY <1>1, <1>2
  <2>2. (i + 1) * ChunkMax <= q BY <1>1, <1>2, <2>1, MulMono
  <2>3. (i + 1) * ChunkMax = p + ChunkMax BY <1>2
  <2> QED BY <2>2, <2>3
<1>7. i = n - 1 => p = q OBVIOUS
<1> HIDE DEF p, q
<1> QED BY <1>1, <1>2, <1>3, <1>4, <1>5, <1>6, <1>7 DEF FullLen, LastSlot, p, n

-----------------------------------------------------------------------------
(***************************************************************************)
(* The bitmap                                                              *)
(***************************************************************************)
\* The slots marked in a bitmap are finitely many.
LEMMA MapFinite ==
  ASSUME NEW rc \in CaptureType
  PROVE  /\ rc.received_map \subseteq Slots
         /\ IsFiniteSet(rc.received_map)
         /\ Cardinality(rc.received_map) \in Nat
<1>1. CeilDiv(Capacity, ChunkMax) \in Nat \ {0} BY CeilDivProps, Sizes
<1>2. IsFiniteSet(Slots) BY <1>1, FS_Interval DEF Slots, SlotsOf
<1>3. rc.received_map \in SUBSET Slots BY DEF CaptureType
<1>4. IsFiniteSet(rc.received_map) BY <1>2, <1>3, FS_Subset
<1> QED BY <1>3, <1>4, FS_CardinalityType

\* Once the received length is the scan's, every slot is marked.
LEMMA FullMap ==
  ASSUME NEW rc \in CaptureType, NEW st, CaptureSound(rc, st), rc.active,
         rc.received_len = rc.total_len
  PROVE  rc.received_map = SlotsOf(rc.total_len)
<1> USE Sizes
<1> DEFINE total == rc.total_len
           map == rc.received_map
           S == SlotsOf(total)
           n == CeilDiv(total, ChunkMax)
           m == Cardinality(map)
           last == LastSlot(total)
           q == (n - 1) * ChunkMax
<1>1. total \in 1 .. Capacity /\ LengthBound(rc) /\ map \in SUBSET S
  BY DEF CaptureSound, MapMatches
<1>2. IsFiniteSet(S) /\ Cardinality(S) = n /\ last \in S BY <1>1, SlotsProps
<1>3. n \in Nat \ {0} /\ q < total
  <2>1. total \in Nat \ {0} BY <1>1
  <2> QED BY <2>1, CeilDivProps
<1>4. m \in Nat BY MapFinite
<1>5. m <= n /\ (m = n => S = map) BY <1>1, <1>2, FS_Subset
<1>6. q = n * ChunkMax - ChunkMax /\ n * ChunkMax \in Int /\ m * ChunkMax \in Int
  BY <1>3, <1>4
<1>7. CASE last \notin map
  <2>1. total <= m * ChunkMax BY <1>1, <1>7, <1>6 DEF LengthBound, Filled
  <2>2. map \in SUBSET (S \ {last}) BY <1>1, <1>7
  <2>3. IsFiniteSet(S \ {last}) /\ Cardinality(S \ {last}) = n - 1
    <3> HIDE DEF S, n, last
    <3> QED BY <1>2, FS_RemoveElement
  <2>4. m <= n - 1 BY <2>2, <2>3, FS_Subset
  <2>5. m * ChunkMax <= q BY <2>4, <1>3, <1>4, MulMono
  <2> QED BY <2>1, <2>5, <1>1, <1>3, <1>6
<1>8. CASE last \in map
  <2>1. FullLen(total, last) = total - last * ChunkMax BY <1>1, <1>2, FullLenProps
  <2>2. last * ChunkMax = q BY DEF LastSlot
  <2>3. total <= m * ChunkMax - (ChunkMax - (total - q))
    BY <1>1, <1>8, <2>1, <2>2 DEF LengthBound, Filled
  <2>4. n * ChunkMax <= m * ChunkMax BY <2>3, <1>1, <1>6
  <2>5. ~(m <= n - 1)
    <3> SUFFICES ASSUME m <= n - 1 PROVE FALSE OBVIOUS
    <3>1. m * ChunkMax <= q BY <1>3, <1>4, MulMono
    <3> QED BY <3>1, <2>4, <1>6
  <2>6. m = n BY <2>5, <1>3, <1>4, <1>5
  <2> QED BY <2>6, <1>5
<1> QED BY <1>7, <1>8

-----------------------------------------------------------------------------
(***************************************************************************)
(* What the helpers of the poll keep                                       *)
(***************************************************************************)
\* CaptureSound says nothing of the READY budget, the session or the ports.
LEMMA SoundSame ==
  ASSUME NEW rc \in CaptureType, NEW rd \in CaptureType, NEW st,
         CaptureSound(rc, st),
         rd.armed = rc.armed, rd.active = rc.active, rd.complete = rc.complete,
         rd.expected_crc32 = rc.expected_crc32,
         rd.received_map = rc.received_map, rd.total_len = rc.total_len,
         rd.received_len = rc.received_len, rd.packet_count = rc.packet_count
  PROVE  CaptureSound(rd, st)
BY DEF CaptureSound, LengthBound, LengthExact, Filled, MapMatches, ScanCrcAgrees

\* A reset capture is sound whatever the store holds.
LEMMA ResetSound ==
  ASSUME NEW st
  PROVE  /\ EthCaptureReset \in CaptureType
         /\ CaptureSound(EthCaptureReset, st) /\ StillOpen(EthCaptureReset)
BY FS_EmptySet DEF EthCaptureReset, ZeroCapture, CaptureType, CaptureSound, StillOpen

\* Servicing a pending READY touches the READY budget only.
LEMMA ServiceReadyKeeps ==
  ASSUME NEW rc \in CaptureType, NEW o
  PROVE  LET rd == ServiceReady(rc, o) IN
         /\ rd \in CaptureType
         /\ rd.armed = rc.armed /\ rd.session_id = rc.session_id
         /\ rd.response_port = rc.response_port
         /\ rd.active = rc.active /\ rd.complete = rc.complete
         /\ rd.expected_crc32 = rc.expected_crc32
         /\ rd.received_map = rc.received_map /\ rd.scan_id = rc.scan_id
         /\ rd.total_len = rc.total_len
         /\ rd.received_len = rc.received_len
         /\ rd.packet_count = rc.packet_count
<1>1. CASE ~(rc.ready_pending /\ o = "sent") BY <1>1 DEF ServiceReady
<1>2. CASE rc.ready_pending /\ o = "sent"
  <2>1. CASE rc.ready_repeats > 1 BY <1>2, <2>1 DEF ServiceReady, CaptureType
  <2>2. CASE ~(rc.ready_repeats > 1) BY <1>2, <2>2 DEF ServiceReady, CaptureType
  <2> QED BY <2>1, <2>2
<1> QED BY <1>1, <1>2

LEMMA ServiceReadySound ==
  ASSUME NEW rc \in CaptureType, NEW o, NEW st, CaptureSound(rc, st)
  PROVE  /\ CaptureSound(ServiceReady(rc, o), st)
         /\ StillOpen(rc) => StillOpen(ServiceReady(rc, o))
<1>1. CaptureSound(ServiceReady(rc, o), st) BY ServiceReadyKeeps, SoundSame
<1>2. StillOpen(rc) => StillOpen(ServiceReady(rc, o)) BY ServiceReadyKeeps DEF StillOpen
<1> QED BY <1>1, <1>2

\* All it sends is READY.
LEMMA ReadyOutType ==
  ASSUME NEW rc \in CaptureType, NEW o
  PROVE  /\ ReadyOut(rc, o) \subseteq StatusDatagrams
         /\ \A m \in ReadyOut(rc, o) : m.status = "READY"
BY DEF ReadyOut, Ready, StatusDatagrams, CaptureType

\* START either resets the capture or leaves it as it is.
LEMMA StartSound ==
  ASSUME NEW rc \in CaptureType, NEW st, CaptureSound(rc, st), NEW f \in StartFrames
  PROVE  LET started == StartCapture(rc, f) IN
         /\ started \in CaptureType
         /\ CaptureSound(started, st)
         /\ StillOpen(rc) => StillOpen(started)
         /\ started.armed
         /\ started.session_id = f.session
         /\ rc.armed /\ rc.session_id = f.session =>
              started.received_map = rc.received_map
<1> DEFINE started == StartCapture(rc, f)
<1>0. f.session \in Nat /\ f.port \in Nat BY DEF StartFrames
<1>1. CASE ~rc.armed \/ rc.session_id # f.session
  <2>1. started = [EthCaptureReset EXCEPT !.armed = TRUE, !.session_id = f.session,
                     !.response_port = f.port, !.ready_port = f.port,
                     !.ready_repeats = 3, !.ready_pending = TRUE]
    BY <1>1 DEF StartCapture, EthCaptureReset, ZeroCapture
  <2> HIDE DEF started
  <2>2. started = [armed |-> TRUE, session_id |-> f.session, response_port |-> f.port,
                   ready_pending |-> TRUE, ready_port |-> f.port, ready_repeats |-> 3,
                   active |-> FALSE, complete |-> FALSE,
                   expected_crc32 |-> NoTransfer, received_map |-> {},
                   scan_id |-> 0, total_len |-> 0, received_len |-> 0,
                   packet_count |-> 0]
    BY <2>1 DEF EthCaptureReset, ZeroCapture
  <2>3. started \in CaptureType BY <1>0, <2>2 DEF CaptureType
  <2>4. CaptureSound(started, st) BY <2>2, FS_EmptySet DEF CaptureSound
  <2>5. StillOpen(started) BY <2>2 DEF StillOpen
  <2> QED BY <1>1, <2>2, <2>3, <2>4, <2>5 DEF started
<1>2. CASE ~(~rc.armed \/ rc.session_id # f.session)
  <2>1. started = [rc EXCEPT !.response_port = f.port, !.ready_port = f.port,
                     !.ready_repeats = 3, !.ready_pending = TRUE]
    BY <1>2 DEF StartCapture
  <2> HIDE DEF started
  <2>2. /\ started.armed = rc.armed /\ started.active = rc.active
        /\ started.complete = rc.complete
        /\ started.expected_crc32 = rc.expected_crc32
        /\ started.received_map = rc.received_map /\ started.total_len = rc.total_len
        /\ started.received_len = rc.received_len
        /\ started.packet_count = rc.packet_count
        /\ started.session_id = rc.session_id
    BY <2>1 DEF CaptureType
  <2>4. started \in CaptureType
    <3>1. started = [armed |-> rc.armed, session_id |-> rc.session_id,
                     response_port |-> f.port, ready_pending |-> TRUE,
                     ready_port |-> f.port, ready_repeats |-> 3,
                     active |-> rc.active, complete |-> rc.complete,
                     expected_crc32 |-> rc.expected_crc32,
                     received_map |-> rc.received_map, scan_id |-> rc.scan_id,
                     total_len |-> rc.total_len, received_len |-> rc.received_len,
                     packet_count |-> rc.packet_count]
      BY <2>1 DEF CaptureType
    <3> QED BY <1>0, <3>1 DEF CaptureType
  <2>3. CaptureSound(started, st) BY <2>2, <2>4, SoundSame
  <2>5. StillOpen(rc) => StillOpen(started) BY <2>2 DEF StillOpen
  <2> QED BY <1>2, <2>2, <2>3, <2>4, <2>5 DEF started
<1> QED BY <1>1, <1>2

\* The capture a chunk is checked against is sound, and open.
LEMMA CaptureForSound ==
  ASSUME NEW rc \in CaptureType, NEW st, CaptureSound(rc, st), ~rc.complete,
         NEW c \in ChunkFrames, ~ChunkRefused(rc, c)
  PROVE  LET cur == CaptureFor(rc, c) IN
         /\ cur \in CaptureType
         /\ CaptureSound(cur, st)
         /\ StillOpen(rc) => StillOpen(cur)
         /\ cur.active /\ cur.armed /\ ~cur.complete
         /\ cur.scan_id = c.scan_id
         /\ rc.active /\ cur.scan_id = rc.scan_id => cur = rc
<1> DEFINE cur == CaptureFor(rc, c)
<1>0. /\ rc.armed
      /\ c.scan_id \in Nat /\ c.total_len \in 1 .. Capacity /\ c.scan_crc32 \in Transfers
  BY Sizes DEF ChunkRefused, ChunkFits, ChunkFrames
<1>1. CASE OpensCapture(rc, c)
  <2>1. cur = [armed |-> TRUE, session_id |-> rc.session_id,
               response_port |-> rc.response_port,
               ready_pending |-> FALSE, ready_port |-> 0, ready_repeats |-> 0,
               active |-> TRUE, complete |-> FALSE,
               expected_crc32 |-> c.scan_crc32, received_map |-> {},
               scan_id |-> c.scan_id, total_len |-> c.total_len,
               received_len |-> 0, packet_count |-> 0]
    BY <1>1 DEF CaptureFor, OpenCapture, EthCaptureReset, ZeroCapture
  <2> HIDE DEF cur
  <2>2. rc.session_id \in Nat /\ rc.response_port \in Nat BY DEF CaptureType
  <2>3. cur \in CaptureType BY <1>0, <2>1, <2>2 DEF CaptureType
  <2>4. LengthBound(cur) /\ LengthExact(cur, st)
    BY <1>0, <2>1, FS_EmptySet, Sizes DEF LengthBound, LengthExact, Filled
  <2>5. CaptureSound(cur, st)
    BY <1>0, <2>1, <2>4, FS_EmptySet DEF CaptureSound, MapMatches
  <2>6. StillOpen(cur) BY <1>0, <2>1 DEF StillOpen
  <2> QED BY <1>1, <2>1, <2>3, <2>5, <2>6 DEF OpensCapture, cur
<1>2. CASE ~OpensCapture(rc, c) BY <1>0, <1>2 DEF CaptureFor, OpensCapture
<1> QED BY <1>1, <1>2

\* Storing a new chunk keeps the capture sound: this is where the length bound
\* and the agreement of bitmap and store are maintained.
LEMMA StoreSound ==
  ASSUME NEW rc \in CaptureType, NEW st \in [Slots -> Cells], CaptureSound(rc, st),
         rc.active, ~rc.complete,
         NEW c \in ChunkFrames, ChunkFits(c), HeaderAgrees(rc, c), ChunkCrcAgrees(c),
         ~IsDuplicate(rc, c)
  PROVE  LET stored == StoreChunk(rc, c)
             st2 == [st EXCEPT ![c.chunk_index] =
                       [crc |-> c.scan_crc32, len |-> c.chunk_len, body |-> c.body]]
         IN /\ stored \in CaptureType
            /\ CaptureSound(stored, st2)
            /\ st2 \in [Slots -> Cells]
<1> USE Sizes
<1> DEFINE total == rc.total_len
           i == c.chunk_index
           last == LastSlot(total)
           cell == [crc |-> c.scan_crc32, len |-> c.chunk_len, body |-> c.body]
           st2 == [st EXCEPT ![i] = cell]
           stored == StoreChunk(rc, c)
           map2 == rc.received_map \cup {i}
           n == CeilDiv(total, ChunkMax)
<1>1. /\ total \in 1 .. Capacity /\ rc.armed /\ rc.expected_crc32 \in Transfers
      /\ LengthBound(rc) /\ LengthExact(rc, st) /\ MapMatches(rc, st)
      /\ rc.packet_count = Cardinality(rc.received_map)
  BY DEF CaptureSound
<1>2. /\ c.chunk_len \in 1 .. ChunkMax /\ i \in Nat /\ i < n
      /\ i * ChunkMax + c.chunk_len <= total
      /\ c.scan_crc32 = rc.expected_crc32
      /\ c.body \in Bodies /\ c.body # "damaged"
      /\ i \notin rc.received_map
  BY DEF ChunkFits, ChunkFrames, HeaderAgrees, ChunkCrcAgrees, IsDuplicate
<1>3. n \in Nat \ {0}
  <2>1. total \in Nat \ {0} BY <1>1
  <2> QED BY <2>1, CeilDivProps
<1>4. i \in SlotsOf(total) /\ i \in Slots
  BY <1>1, <1>2, <1>3, SlotsProps DEF SlotsOf
<1>5. c.chunk_len <= FullLen(total, i)
  <2>1. i * ChunkMax \in Nat BY <1>2
  <2> QED BY <1>1, <1>2, <2>1 DEF FullLen
<1>6. cell \in Cells BY <1>1, <1>2 DEF Cells
<1>7. st2 \in [Slots -> Cells] BY <1>4, <1>6
<1>8. /\ stored = [rc EXCEPT !.received_map = map2,
                             !.received_len = rc.received_len + c.chunk_len,
                             !.packet_count = rc.packet_count + 1]
  BY DEF StoreChunk
<1>9. /\ stored.armed /\ stored.active /\ ~stored.complete
      /\ stored.total_len = total
      /\ stored.expected_crc32 = rc.expected_crc32
      /\ stored.received_map = map2
      /\ stored.received_len = rc.received_len + c.chunk_len
      /\ stored.packet_count = rc.packet_count + 1
  BY <1>1, <1>8 DEF CaptureType
<1>10. stored \in CaptureType
  <2>1. rc.received_len \in Nat /\ rc.packet_count \in Nat /\ rc.received_map \subseteq Slots
    BY DEF CaptureType
  <2>2. /\ map2 \in SUBSET Slots
        /\ rc.received_len + c.chunk_len \in Nat /\ rc.packet_count + 1 \in Nat
    BY <1>2, <1>4, <2>1
  <2> HIDE DEF map2
  <2> QED BY <1>8, <2>2 DEF CaptureType
<1>11. /\ Cardinality(map2) = Cardinality(rc.received_map) + 1
       /\ Cardinality(rc.received_map) \in Nat
  BY <1>2, MapFinite, FS_AddElement
<1>12. LengthBound(stored)
  <2> DEFINE m == Cardinality(rc.received_map)
             full == FullLen(total, last)
  <2>1. (m + 1) * ChunkMax = m * ChunkMax + ChunkMax /\ m * ChunkMax \in Nat BY <1>11
  <2>2. last \in SlotsOf(total) BY <1>1, SlotsProps
  <2>3. full \in 1 .. ChunkMax BY <1>1, <2>2, FullLenProps
  <2>4. rc.received_len \in Nat BY DEF CaptureType
  <2>5. rc.received_len <=
          m * ChunkMax - (IF last \in rc.received_map THEN ChunkMax - full ELSE 0)
    BY <1>1 DEF LengthBound, Filled
  <2>6. rc.received_len + c.chunk_len <=
          (m + 1) * ChunkMax - (IF last \in map2 THEN ChunkMax - full ELSE 0)
    <3> HIDE DEF m, full, last
    <3>1. CASE i = last BY <3>1, <1>2, <1>5, <2>1, <2>3, <2>4, <2>5 DEF full, last
    <3>2. CASE i # last BY <3>2, <1>2, <2>1, <2>3, <2>4, <2>5
    <3> QED BY <3>1, <3>2
  <2> QED BY <1>9, <1>11, <2>6 DEF LengthBound, Filled
<1>13. MapMatches(stored, st2)
  <2> SUFFICES ASSUME NEW j \in map2
               PROVE  /\ j \in SlotsOf(total)
                      /\ st2[j].crc = rc.expected_crc32
                      /\ st2[j].len \in 1 .. FullLen(total, j)
                      /\ st2[j].body # "damaged"
    BY <1>9 DEF MapMatches
  <2>1. CASE j = i
    <3>1. st2[j] = cell BY <2>1, <1>4
    <3>2. FullLen(total, i) \in Nat BY <1>1, <1>4, FullLenProps
    <3> QED BY <2>1, <3>1, <3>2, <1>2, <1>4, <1>5
  <2>2. CASE j # i
    <3>1. j \in rc.received_map BY <2>2
    <3>2. st2[j] = st[j] BY <2>2
    <3> QED BY <3>1, <3>2, <1>1 DEF MapMatches
  <2> QED BY <2>1, <2>2
<1>14. LengthExact(stored, st2)
  <2> DEFINE m == Cardinality(rc.received_map)
             full == FullLen(total, last)
  <2>1. (m + 1) * ChunkMax = m * ChunkMax + ChunkMax /\ m * ChunkMax \in Nat BY <1>11
  <2>2. last \in SlotsOf(total) BY <1>1, SlotsProps
  <2>3. full \in 1 .. ChunkMax BY <1>1, <2>2, FullLenProps
  <2>4. rc.received_len \in Nat BY DEF CaptureType
  <2>5. SUFFICES ASSUME \A j \in map2 : st2[j].len = FullLen(total, j)
                 PROVE  rc.received_len + c.chunk_len =
                   (m + 1) * ChunkMax - (IF last \in map2 THEN ChunkMax - full ELSE 0)
    BY <1>9, <1>11 DEF LengthExact, Filled
  <2>6. c.chunk_len = FullLen(total, i)
    <3>1. st2[i] = cell /\ i \in map2 BY <1>4
    <3> QED BY <2>5, <3>1
  <2>7. \A j \in rc.received_map : st[j].len = FullLen(total, j)
    <3> TAKE j \in rc.received_map
    <3>1. st2[j] = st[j] /\ j \in map2 BY <1>2
    <3> QED BY <2>5, <3>1
  <2>8. rc.received_len =
          m * ChunkMax - (IF last \in rc.received_map THEN ChunkMax - full ELSE 0)
    BY <1>1, <2>7 DEF LengthExact, Filled
  <2>9. i # last => c.chunk_len = ChunkMax BY <1>1, <1>4, <2>6, FullLenProps
  <2>10. i = last => c.chunk_len = full /\ last \notin rc.received_map BY <1>2, <2>6
  <2> HIDE DEF m, full, last
  <2> QED BY <1>2, <2>1, <2>3, <2>4, <2>8, <2>9, <2>10
<1>15. CaptureSound(stored, st2)
  BY <1>1, <1>9, <1>11, <1>12, <1>13, <1>14 DEF CaptureSound
<1> QED BY <1>7, <1>10, <1>15

\* What raw_capture_process leaves is sound; COMPLETE means complete.
LEMMA ProcessSound ==
  ASSUME NEW rc \in CaptureType, CaptureSound(rc, store), StillOpen(rc), ~rc.complete,
         store \in [Slots -> Cells],
         NEW c \in ChunkFrames, NEW recycled \in BOOLEAN,
         RawCaptureProcess(rc, c, recycled)
  PROVE  /\ raw_capture' \in CaptureType
         /\ store' \in [Slots -> Cells]
         /\ CaptureSound(raw_capture', store') /\ StillOpen(raw_capture')
         /\ result' \in Results
         /\ result' = "COMPLETE" => raw_capture'.complete
<1> DEFINE cur == CaptureFor(rc, c)
           stored == StoreChunk(cur, c)
           st2 == [store EXCEPT ![c.chunk_index] =
                     [crc |-> c.scan_crc32, len |-> c.chunk_len, body |-> c.body]]
<1> USE DEF Leaves, Results
<1>1. CASE ChunkRefused(rc, c)
  BY <1>1 DEF RawCaptureProcess
<1>2. CASE ~ChunkRefused(rc, c)
  <2>1. /\ cur \in CaptureType /\ CaptureSound(cur, store) /\ StillOpen(cur)
        /\ cur.active /\ ~cur.complete
    BY <1>2, CaptureForSound
  <2> HIDE DEF cur
  <2>2. CASE UNCHANGED store /\ raw_capture' = cur /\ result' \in {"ERROR", "IN_PROGRESS"}
    BY <2>1, <2>2
  <2>3. CASE /\ HeaderAgrees(cur, c) /\ ChunkCrcAgrees(c) /\ ~IsDuplicate(cur, c)
             /\ store' = st2
             /\ \/ /\ stored.received_len # stored.total_len
                   /\ Leaves(stored, "IN_PROGRESS", recycled)
                \/ Leaves([stored EXCEPT !.active = FALSE], "ERROR", recycled)
                \/ /\ stored.received_len = stored.total_len
                   /\ ScanCrcAgrees(store', stored)
                   /\ Leaves([stored EXCEPT !.complete = TRUE], "COMPLETE", recycled)
    <3>1. ChunkFits(c) BY <1>2 DEF ChunkRefused
    <3>2. /\ stored \in CaptureType /\ CaptureSound(stored, store')
          /\ store' \in [Slots -> Cells]
      BY <2>1, <2>3, <3>1, StoreSound
    <3>3. stored.active /\ ~stored.complete
      BY <2>1 DEF StoreChunk, CaptureType
    <3> HIDE DEF stored, st2
    <3>4. CASE stored.received_len # stored.total_len /\ Leaves(stored, "IN_PROGRESS", recycled)
      BY <3>2, <3>4 DEF StillOpen
    <3>5. CASE Leaves([stored EXCEPT !.active = FALSE], "ERROR", recycled)
      <4>1. /\ raw_capture' = [stored EXCEPT !.active = FALSE] /\ result' = "ERROR"
        BY <3>5
      <4>2. /\ raw_capture' \in CaptureType
            /\ ~raw_capture'.active /\ ~raw_capture'.complete
            /\ raw_capture'.packet_count = stored.packet_count
            /\ raw_capture'.received_map = stored.received_map
        BY <3>2, <3>3, <4>1 DEF CaptureType
      <4> QED BY <3>2, <4>1, <4>2 DEF CaptureSound, StillOpen
    <3>6. CASE /\ stored.received_len = stored.total_len
               /\ ScanCrcAgrees(store', stored)
               /\ Leaves([stored EXCEPT !.complete = TRUE], "COMPLETE", recycled)
      <4> DEFINE done == [stored EXCEPT !.complete = TRUE]
      <4>1. raw_capture' = done /\ result' \in {"COMPLETE", "ERROR"} BY <3>6
      <4>2. /\ done \in CaptureType /\ done.complete
            /\ done.armed = stored.armed /\ done.active = stored.active
            /\ done.expected_crc32 = stored.expected_crc32
            /\ done.received_map = stored.received_map
            /\ done.total_len = stored.total_len
            /\ done.received_len = stored.received_len
            /\ done.packet_count = stored.packet_count
        BY <3>2 DEF CaptureType
      <4> HIDE DEF done
      <4>3. CaptureSound(done, store')
        BY <3>2, <3>3, <3>6, <4>2
           DEF CaptureSound, LengthBound, LengthExact, Filled, MapMatches, ScanCrcAgrees
      <4> QED BY <3>2, <4>1, <4>2, <4>3 DEF StillOpen
    <3> QED BY <2>3, <3>4, <3>5, <3>6
  <2> QED BY <1>2, <2>2, <2>3 DEF RawCaptureProcess, cur
<1> QED BY <1>1, <1>2

-----------------------------------------------------------------------------
(***************************************************************************)
(* The inductive invariant                                                 *)
(***************************************************************************)
\* A complete capture's store holds one whole transfer.
LEMMA CompleteIntact ==
  ASSUME NEW rc \in CaptureType, NEW st, CaptureSound(rc, st), rc.complete
  PROVE  /\ rc.active /\ rc.armed /\ rc.received_len = rc.total_len
         /\ rc.packet_count = Cardinality(SlotsOf(rc.total_len))
         /\ \A i \in SlotsOf(rc.total_len) :
              st[i] = [crc |-> st[0].crc, len |-> FullLen(rc.total_len, i),
                       body |-> "intact"]
<1>1. /\ rc.active /\ rc.armed /\ rc.received_len = rc.total_len
      /\ rc.total_len \in 1 .. Capacity /\ ScanCrcAgrees(st, rc)
      /\ rc.packet_count = Cardinality(rc.received_map)
  BY DEF CaptureSound
<1>2. rc.received_map = SlotsOf(rc.total_len) BY <1>1, FullMap
<1>3. 0 \in SlotsOf(rc.total_len) BY <1>1, SlotsProps
<1>4. st[0] = [crc |-> rc.expected_crc32, len |-> FullLen(rc.total_len, 0),
               body |-> "intact"]
  BY <1>1, <1>3 DEF ScanCrcAgrees
<1> QED BY <1>1, <1>2, <1>4 DEF ScanCrcAgrees

\* main.c's reaction to a poll re-establishes everything the invariant says of
\* the phase and of main.c's copy of the scan.
LEMMA ReactsSound ==
  ASSUME TypeOK, phase = "wait",
         raw_capture' \in CaptureType, CaptureSound(raw_capture', store'),
         result' = "COMPLETE" => raw_capture'.complete,
         MainReacts
  PROVE  /\ phase' \in {"wait", "received"}
         /\ scan' \in [scan_id : Nat, total : Nat, packets : Nat]
         /\ PacketsCounted' /\ ReplyConsistent' /\ ReceivedScanIntact'
<1>1. PacketsCounted' BY DEF CaptureSound, PacketsCounted
<1>2. CASE result' = "COMPLETE"
  <2>1. /\ raw_capture'.complete /\ phase' = "received"
        /\ scan' = [scan_id |-> raw_capture'.scan_id, total |-> raw_capture'.total_len,
                    packets |-> raw_capture'.packet_count]
    BY <1>2 DEF MainReacts
  <2>2. scan' \in [scan_id : Nat, total : Nat, packets : Nat] BY <2>1 DEF CaptureType
  <2>3. /\ raw_capture'.active /\ raw_capture'.armed
        /\ raw_capture'.received_len = raw_capture'.total_len
        /\ raw_capture'.packet_count = Cardinality(SlotsOf(raw_capture'.total_len))
        /\ \A i \in SlotsOf(raw_capture'.total_len) :
             store'[i] = [crc |-> store'[0].crc,
                          len |-> FullLen(raw_capture'.total_len, i),
                          body |-> "intact"]
    BY <2>1, CompleteIntact
  <2>4. ReplyConsistent' BY <2>1, <2>3 DEF ReplyConsistent
  <2>5. ReceivedScanIntact' BY <2>1, <2>3 DEF ReceivedScanIntact, HeldTransfer
  <2> QED BY <1>1, <2>1, <2>2, <2>4, <2>5
<1>3. CASE result' # "COMPLETE"
  <2>1. phase' = "wait" /\ scan' = scan BY <1>3 DEF MainReacts
  <2> QED BY <1>1, <2>1 DEF TypeOK, ReplyConsistent, ReceivedScanIntact
<1> QED BY <1>2, <1>3

\* A step that sends nothing but READY says nothing about a scan.
LEMMA NoDone ==
  ASSUME \A m \in tx' : m.status = "READY"
  PROVE  DoneNamesScan'
BY DEF DoneNamesScan

LEMMA InitIInv == Init => IInv
<1> SUFFICES ASSUME Init PROVE IInv OBVIOUS
<1>1. raw_capture \in CaptureType /\ CaptureSound(raw_capture, store) /\ StillOpen(raw_capture)
  BY ResetSound DEF Init
<1>2. EmptyCell \in Cells BY DEF EmptyCell, Cells, Bodies
<1>3. TypeOK
  BY <1>1, <1>2, RawCaptureAssumption DEF Init, TypeOK, Results, NoScan
<1> QED BY <1>1, <1>3
     DEF Init, IInv, CaptureSound, PacketsCounted, ReplyConsistent,
         ReceivedScanIntact, DoneNamesScan

\* A step of the wait loop that returns to it with a sound capture.
LEMMA WaitStep ==
  ASSUME IInv, phase = "wait",
         raw_capture' \in CaptureType, store' \in [Slots -> Cells],
         CaptureSound(raw_capture', store'), StillOpen(raw_capture'),
         pc_mac' \in Stations \cup {NoMac}, result' \in Results,
         tx' \subseteq StatusDatagrams, \A m \in tx' : m.status = "READY",
         done_sent' = done_sent,
         \/ UNCHANGED <<phase, scan>>
         \/ MainReacts /\ (result' = "COMPLETE" => raw_capture'.complete)
  PROVE  IInv'
<1>1. DoneNamesScan' BY NoDone
<1>2. TypeOK BY DEF IInv
<1>3. CASE UNCHANGED <<phase, scan>>
  <2>1. TypeOK' BY <1>2, <1>3 DEF TypeOK
  <2>2. PacketsCounted' BY DEF CaptureSound, PacketsCounted
  <2> QED BY <1>1, <1>3, <2>1, <2>2 DEF IInv, ReplyConsistent, ReceivedScanIntact
<1>4. CASE MainReacts /\ (result' = "COMPLETE" => raw_capture'.complete)
  <2>1. /\ phase' \in {"wait", "received"}
        /\ scan' \in [scan_id : Nat, total : Nat, packets : Nat]
        /\ PacketsCounted' /\ ReplyConsistent' /\ ReceivedScanIntact'
    BY <1>2, <1>4, ReactsSound
  <2>2. TypeOK' BY <1>2, <2>1 DEF TypeOK
  <2> QED BY <1>1, <2>1, <2>2 DEF IInv
<1> QED BY <1>3, <1>4

LEMMA PollNoFrameStep == ASSUME IInv, PollNoFrame PROVE IInv'
<1>1. /\ phase = "wait" /\ raw_capture \in CaptureType /\ store \in [Slots -> Cells]
      /\ CaptureSound(raw_capture, store) /\ StillOpen(raw_capture) /\ TypeOK
  BY DEF IInv, PollNoFrame, TypeOK
<1>2. PICK o \in Outcomes(pc_mac) : /\ raw_capture' = ServiceReady(raw_capture, o)
                                    /\ tx' = ReadyOut(raw_capture, o)
  BY DEF PollNoFrame
<1>3. /\ raw_capture' \in CaptureType /\ CaptureSound(raw_capture', store')
      /\ StillOpen(raw_capture')
      /\ raw_capture'.complete = raw_capture.complete
  BY <1>1, <1>2, ServiceReadyKeeps, ServiceReadySound DEF PollNoFrame
<1>4. tx' \subseteq StatusDatagrams /\ \A m \in tx' : m.status = "READY"
  BY <1>1, <1>2, ReadyOutType
<1>5. result' \in Results /\ (result' = "COMPLETE" => raw_capture'.complete)
  BY <1>1, <1>3 DEF PollNoFrame, Results
<1> QED BY <1>1, <1>3, <1>4, <1>5, WaitStep DEF PollNoFrame, TypeOK

LEMMA PollStartStep ==
  ASSUME IInv, NEW f \in StartFrames, NEW recycled \in BOOLEAN, PollStart(f, recycled)
  PROVE  IInv'
<1>1. /\ phase = "wait" /\ raw_capture \in CaptureType /\ store \in [Slots -> Cells]
      /\ CaptureSound(raw_capture, store) /\ StillOpen(raw_capture) /\ TypeOK
  BY DEF IInv, PollStart, TypeOK
<1>2. PICK o1 \in Outcomes(pc_mac), o2 \in Outcomes(pc_mac') :
        LET before  == ServiceReady(raw_capture, o1)
            started == StartCapture(before, f)
        IN /\ Leaves(ServiceReady(started, o2), "IDLE", recycled)
           /\ tx' = ReadyOut(raw_capture, o1) \cup ReadyOut(started, o2)
  BY DEF PollStart
<1> DEFINE before  == ServiceReady(raw_capture, o1)
           started == StartCapture(before, f)
<1>3. before \in CaptureType /\ CaptureSound(before, store) /\ StillOpen(before)
  BY <1>1, ServiceReadyKeeps, ServiceReadySound
<1>4. started \in CaptureType /\ CaptureSound(started, store) /\ StillOpen(started)
  <2> HIDE DEF before
  <2> QED BY <1>3, StartSound
<1> HIDE DEF started
<1>5. raw_capture' \in CaptureType /\ CaptureSound(raw_capture', store') /\ StillOpen(raw_capture')
  BY <1>2, <1>4, ServiceReadyKeeps, ServiceReadySound DEF PollStart, Leaves, started
<1>6. tx' = ReadyOut(raw_capture, o1) \cup ReadyOut(started, o2) BY <1>2 DEF started
<1>7. tx' \subseteq StatusDatagrams /\ \A m \in tx' : m.status = "READY"
  BY <1>1, <1>4, <1>6, ReadyOutType
<1>8. result' \in Results BY <1>2 DEF Leaves, Results
<1>9. pc_mac' \in Stations \cup {NoMac}
  BY <1>1, RawCaptureAssumption DEF PollStart, LearnMac, TypeOK
<1> QED BY <1>1, <1>5, <1>7, <1>8, <1>9, WaitStep DEF PollStart

LEMMA PollChunkStep ==
  ASSUME IInv, NEW f \in ChunkFrames, NEW recycled \in BOOLEAN, PollChunk(f, recycled)
  PROVE  IInv'
<1>1. /\ phase = "wait" /\ raw_capture \in CaptureType /\ store \in [Slots -> Cells]
      /\ CaptureSound(raw_capture, store) /\ StillOpen(raw_capture) /\ TypeOK /\ ~raw_capture.complete
  BY DEF IInv, PollChunk, TypeOK
<1>2. PICK o \in Outcomes(pc_mac) :
        /\ RawCaptureProcess(ServiceReady(raw_capture, o), f, recycled)
        /\ tx' = ReadyOut(raw_capture, o)
  BY DEF PollChunk
<1> DEFINE rc == ServiceReady(raw_capture, o)
<1>3. rc \in CaptureType /\ CaptureSound(rc, store) /\ StillOpen(rc) /\ ~rc.complete
  BY <1>1, ServiceReadyKeeps, ServiceReadySound
<1>4. /\ raw_capture' \in CaptureType /\ store' \in [Slots -> Cells]
      /\ CaptureSound(raw_capture', store') /\ StillOpen(raw_capture') /\ result' \in Results
      /\ result' = "COMPLETE" => raw_capture'.complete
  BY <1>1, <1>2, <1>3, ProcessSound
<1>5. tx' \subseteq StatusDatagrams /\ \A m \in tx' : m.status = "READY"
  BY <1>1, <1>2, ReadyOutType
<1>6. pc_mac' \in Stations \cup {NoMac}
  BY <1>1, RawCaptureAssumption DEF PollChunk, LearnMac, TypeOK
<1> QED BY <1>1, <1>4, <1>5, <1>6, WaitStep DEF PollChunk

LEMMA PollOtherStep ==
  ASSUME IInv, NEW f \in OtherFrames, NEW recycled \in BOOLEAN, PollOther(f, recycled)
  PROVE  IInv'
<1>1. /\ phase = "wait" /\ raw_capture \in CaptureType /\ store \in [Slots -> Cells]
      /\ CaptureSound(raw_capture, store) /\ StillOpen(raw_capture) /\ TypeOK
  BY DEF IInv, PollOther, TypeOK
<1>2. PICK o \in Outcomes(pc_mac), replied \in BOOLEAN :
        /\ Leaves(ServiceReady(raw_capture, o),
                  IF f.kind = "malformed" \/ (f.kind = "arp" /\ ~replied)
                  THEN "ERROR" ELSE "IDLE", recycled)
        /\ tx' = ReadyOut(raw_capture, o)
  BY DEF PollOther
<1>3. raw_capture' \in CaptureType /\ CaptureSound(raw_capture', store') /\ StillOpen(raw_capture')
  BY <1>1, <1>2, ServiceReadyKeeps, ServiceReadySound DEF PollOther, Leaves
<1>4. result' \in Results BY <1>2 DEF Leaves, Results
<1>5. tx' \subseteq StatusDatagrams /\ \A m \in tx' : m.status = "READY"
  BY <1>1, <1>2, ReadyOutType
<1>6. pc_mac' \in Stations \cup {NoMac}
  BY <1>1, RawCaptureAssumption DEF PollOther, OtherFrames, TypeOK
<1> QED BY <1>1, <1>3, <1>4, <1>5, <1>6, WaitStep DEF PollOther

LEMMA ProcessScanStep == ASSUME IInv, ProcessScan PROVE IInv'
<1> USE DEF IInv, ProcessScan
<1>1. EmptyCell \in Cells BY DEF EmptyCell, Cells, Bodies
<1>2. TypeOK' BY <1>1 DEF TypeOK
<1>3. PacketsCounted' BY DEF PacketsCounted
<1>4. ReplyConsistent' BY DEF ReplyConsistent
<1> QED BY <1>2, <1>3, <1>4 DEF ReceivedScanIntact, DoneNamesScan

LEMMA RejectScanStep == ASSUME IInv, RejectScan PROVE IInv'
<1> USE DEF IInv, RejectScan
<1>1. TypeOK' BY DEF TypeOK
<1>2. PacketsCounted' BY DEF PacketsCounted
<1> QED BY <1>1, <1>2 DEF ReplyConsistent, ReceivedScanIntact, DoneNamesScan

LEMMA SendProcessDoneStep == ASSUME IInv, SendProcessDone PROVE IInv'
<1> USE DEF IInv, SendProcessDone
<1>1. Done(raw_capture) \in StatusDatagrams
  BY DEF TypeOK, CaptureType, Done, StatusDatagrams
<1>2. TypeOK' BY <1>1 DEF TypeOK
<1>3. PacketsCounted' BY DEF PacketsCounted
<1>4. ReplyConsistent' BY DEF ReplyConsistent
<1>5. DoneNamesScan' BY DEF DoneNamesScan, ReplyConsistent, Done
<1> QED BY <1>2, <1>3, <1>4, <1>5 DEF ReceivedScanIntact

\* A reset of the capture that returns to the wait loop.
LEMMA ResetStep ==
  ASSUME IInv, raw_capture' = EthCaptureReset, store' = store, phase' = "wait",
         tx' = {}, pc_mac' \in Stations \cup {NoMac}, result' \in Results,
         scan' \in [scan_id : Nat, total : Nat, packets : Nat], done_sent' \in 0 .. 3
  PROVE  IInv'
<1>1. raw_capture' \in CaptureType /\ CaptureSound(raw_capture', store') /\ StillOpen(raw_capture')
  BY ResetSound
<1>2. TypeOK' BY <1>1 DEF IInv, TypeOK
<1>3. PacketsCounted' BY <1>1 DEF CaptureSound, PacketsCounted
<1> QED BY <1>1, <1>2, <1>3
     DEF IInv, ReplyConsistent, ReceivedScanIntact, DoneNamesScan

LEMMA UdpWaitScanStep == ASSUME IInv, UdpWaitScan PROVE IInv'
BY ResetStep DEF UdpWaitScan, IInv, TypeOK

LEMMA RebootStep == ASSUME IInv, Reboot PROVE IInv'
BY ResetStep, RawCaptureAssumption DEF Reboot, Results, NoScan

\* The frames of Frames are told apart by their kind.
LEMMA FrameKinds ==
  ASSUME NEW f \in Frames
  PROVE  /\ f.kind = "start" => f \in StartFrames
         /\ f.kind = "chunk" => f \in ChunkFrames
         /\ f.kind \notin {"start", "chunk"} => f \in OtherFrames
BY RawCaptureAssumption DEF StartFrames, ChunkFrames, OtherFrames

\* Every step keeps the inductive invariant.
LEMMA NextIInv == IInv /\ [Next]_vars => IInv'
<1> SUFFICES ASSUME IInv, [Next]_vars PROVE IInv' OBVIOUS
<1>1. CASE PollNoFrame BY <1>1, PollNoFrameStep
<1>2. CASE ProcessScan BY <1>2, ProcessScanStep
<1>3. CASE RejectScan BY <1>3, RejectScanStep
<1>4. CASE SendProcessDone BY <1>4, SendProcessDoneStep
<1>5. CASE UdpWaitScan BY <1>5, UdpWaitScanStep
<1>6. CASE Reboot BY <1>6, RebootStep
<1>7. CASE Receive
  <2>1. PICK f \in Frames, recycled \in BOOLEAN : EthCapturePoll(f, recycled)
    BY <1>7 DEF Receive
  <2>2. CASE f.kind = "start" /\ PollStart(f, recycled)
    BY <2>2, FrameKinds, PollStartStep
  <2>3. CASE f.kind = "chunk" /\ PollChunk(f, recycled)
    BY <2>3, FrameKinds, PollChunkStep
  <2>4. CASE f.kind \notin {"start", "chunk"} /\ PollOther(f, recycled)
    BY <2>4, FrameKinds, PollOtherStep
  <2> QED BY <2>1, <2>2, <2>3, <2>4 DEF EthCapturePoll
<1>8. CASE UNCHANGED vars
  BY <1>8 DEF vars, IInv, TypeOK, CaptureSound, LengthBound, LengthExact, Filled,
     MapMatches, ScanCrcAgrees, StillOpen, PacketsCounted, ReplyConsistent, ReceivedScanIntact,
     DoneNamesScan, HeldTransfer
<1> QED BY <1>1, <1>2, <1>3, <1>4, <1>5, <1>6, <1>7, <1>8 DEF Next, Main

-----------------------------------------------------------------------------
(***************************************************************************)
(* Theorems                                                                *)
(***************************************************************************)
\* The inductive invariant holds in every reachable state of the reassembler.
THEOREM InvariantHolds == Spec => []IInv
BY InitIInv, NextIInv, PTL DEF Spec

\* raw_capture_t, the store and main.c's variables keep their types: in
\* particular ready_repeats stays within 0..3, and no bit of received_map
\* names a slot beyond RX_STORE_SIZE.
THEOREM TypeCorrect == Spec => []TypeOK
<1>1. IInv => TypeOK BY DEF IInv
<1> QED BY <1>1, InvariantHolds, PTL

\* A bit of received_map always stands for bytes of the transfer being
\* received, in a slot of its own scan.
THEOREM BitmapMatchesStore == Spec => []MapMatchesStore
<1>1. IInv => MapMatchesStore BY DEF IInv, CaptureSound, MapMatchesStore
<1> QED BY <1>1, InvariantHolds, PTL

\* packet_count is the number of distinct chunks stored.
THEOREM PacketCountExact == Spec => []PacketsCounted
<1>1. IInv => PacketsCounted BY DEF IInv
<1> QED BY <1>1, InvariantHolds, PTL

\* The scan main.c processes is one transfer, whole and undamaged, and its
\* copied id, length and packet count are right.
THEOREM OnlyWholeScans == Spec => []ReceivedScanIntact
<1>1. IInv => ReceivedScanIntact BY DEF IInv
<1> QED BY <1>1, InvariantHolds, PTL

\* PROCESS_DONE names the armed session and the processed scan.
THEOREM DoneIsAboutScan == Spec => []DoneNamesScan
<1>1. IInv => DoneNamesScan BY DEF IInv
<1> QED BY <1>1, InvariantHolds, PTL

\* Outside the wait loop the capture stays the complete one main.c copied.
THEOREM CaptureFrozen == Spec => []ReplyConsistent
<1>1. IInv => ReplyConsistent BY DEF IInv
<1> QED BY <1>1, InvariantHolds, PTL

-----------------------------------------------------------------------------
\* Slots that are all marked and full add up to the whole scan.
LEMMA FullSlotsAddUp ==
  ASSUME NEW rc \in CaptureType, NEW st, CaptureSound(rc, st), rc.active,
         \A i \in SlotsOf(rc.total_len) :
           i \in rc.received_map /\ st[i].len = FullLen(rc.total_len, i)
  PROVE  rc.received_len = rc.total_len
<1> USE Sizes
<1> DEFINE total == rc.total_len
           last == LastSlot(total)
           n == CeilDiv(total, ChunkMax)
<1>1. /\ total \in 1 .. Capacity /\ MapMatches(rc, st) /\ LengthExact(rc, st)
  BY DEF CaptureSound
<1>2. rc.received_map = SlotsOf(total) BY <1>1 DEF MapMatches
<1>3. Cardinality(SlotsOf(total)) = n /\ last \in SlotsOf(total) BY <1>1, SlotsProps
<1>4. FullLen(total, last) = total - last * ChunkMax BY <1>1, <1>3, FullLenProps
<1>5. rc.received_len = Filled(rc) BY <1>1, <1>2 DEF LengthExact
<1>6. rc.received_len = n * ChunkMax - (ChunkMax - FullLen(total, last))
  BY <1>2, <1>3, <1>5 DEF Filled
<1>7. n \in Nat \ {0}
  <2>1. total \in Nat \ {0} BY <1>1
  <2> QED BY <2>1, CeilDivProps
<1>8. last * ChunkMax = n * ChunkMax - ChunkMax /\ n * ChunkMax \in Int
  BY <1>7 DEF LastSlot
<1> HIDE DEF n, last, total
<1> QED BY <1>1, <1>4, <1>6, <1>8 DEF total

\* A capture in progress always waits for a chunk, or was sent one cut short:
\* full slots complete it or, when the scan CRC fails, close it.
THEOREM NeverFullAndOpen == Spec => []WaitsForAChunk
<1>1. IInv => WaitsForAChunk
  <2> SUFFICES ASSUME IInv, phase = "wait", raw_capture.active, ~raw_capture.complete,
                      \A i \in SlotsOf(raw_capture.total_len) :
                        /\ i \in raw_capture.received_map
                        /\ ~(store[i].len < FullLen(raw_capture.total_len, i))
               PROVE  FALSE
    BY DEF WaitsForAChunk
  <2> DEFINE total == raw_capture.total_len
  <2>1. /\ raw_capture \in CaptureType /\ CaptureSound(raw_capture, store)
        /\ raw_capture.received_len # total
    BY DEF IInv, TypeOK, StillOpen
  <2>2. total \in 1 .. Capacity /\ MapMatches(raw_capture, store) BY <2>1 DEF CaptureSound
  <2>3. ASSUME NEW i \in SlotsOf(total) PROVE store[i].len = FullLen(total, i)
    <3>1. FullLen(total, i) \in Nat BY <2>2, FullLenProps
    <3>2. store[i].len \in 1 .. FullLen(total, i) BY <2>2 DEF MapMatches
    <3> QED BY <3>1, <3>2
  <2> QED BY <2>1, <2>3, FullSlotsAddUp
<1> QED BY <1>1, InvariantHolds, PTL

-----------------------------------------------------------------------------
\* What a chunk that keeps the session and the scan does to the bitmap.
LEMMA ChunkKeepsProgress ==
  ASSUME NEW rc \in CaptureType, CaptureSound(rc, store), ~rc.complete, rc.active,
         NEW c \in ChunkFrames, NEW recycled \in BOOLEAN,
         RawCaptureProcess(rc, c, recycled),
         raw_capture'.scan_id = rc.scan_id
  PROVE  rc.received_map \subseteq raw_capture'.received_map
<1> DEFINE cur == CaptureFor(rc, c)
           stored == StoreChunk(cur, c)
<1>1. CASE ChunkRefused(rc, c) BY <1>1 DEF RawCaptureProcess, Leaves
<1>2. CASE ~ChunkRefused(rc, c)
  <2>1. cur \in CaptureType /\ (cur.scan_id = rc.scan_id => cur = rc)
    BY <1>2, CaptureForSound
  <2> HIDE DEF cur
  <2>2. /\ stored.scan_id = cur.scan_id
        /\ cur.received_map \subseteq stored.received_map
    BY <2>1 DEF StoreChunk, CaptureType
  <2>3. stored \in [DOMAIN stored -> {stored[x] : x \in DOMAIN stored}]
        /\ DOMAIN stored = DOMAIN cur
    BY <2>1 DEF StoreChunk, CaptureType
  <2> HIDE DEF stored
  <2>4. \/ raw_capture' = cur \/ raw_capture' = stored
        \/ raw_capture' = [stored EXCEPT !.active = FALSE]
        \/ raw_capture' = [stored EXCEPT !.complete = TRUE]
    BY <1>2 DEF RawCaptureProcess, Leaves, cur, stored
  <2>5. /\ raw_capture'.scan_id = cur.scan_id
        /\ cur.received_map \subseteq raw_capture'.received_map
    BY <2>1, <2>2, <2>3, <2>4 DEF CaptureType
  <2> QED BY <2>1, <2>5
<1> QED BY <1>1, <1>2

LEMMA StepKeepsProgress ==
  ASSUME IInv, [Next]_vars, phase = "wait", raw_capture.active, raw_capture'.armed,
         raw_capture'.session_id = raw_capture.session_id,
         raw_capture'.scan_id = raw_capture.scan_id
  PROVE  raw_capture.received_map \subseteq raw_capture'.received_map
<1>1. raw_capture \in CaptureType /\ raw_capture.armed /\ CaptureSound(raw_capture, store)
  BY DEF IInv, TypeOK, CaptureSound
<1>2. ~Reboot /\ ~ProcessScan /\ ~RejectScan /\ ~SendProcessDone /\ ~UdpWaitScan
  BY DEF Reboot, ProcessScan, RejectScan, SendProcessDone, UdpWaitScan,
     EthCaptureReset, ZeroCapture
<1>3. CASE UNCHANGED vars BY <1>3 DEF vars
<1>4. CASE PollNoFrame BY <1>1, <1>4, ServiceReadyKeeps DEF PollNoFrame
<1>5. CASE Receive
  <2>1. PICK f \in Frames, recycled \in BOOLEAN : EthCapturePoll(f, recycled)
    BY <1>5 DEF Receive
  <2>2. CASE f.kind = "start" /\ PollStart(f, recycled)
    <3>0. f \in StartFrames BY <2>2, FrameKinds
    <3>1. PICK o1 \in Outcomes(pc_mac), o2 \in Outcomes(pc_mac') :
            raw_capture' =
              ServiceReady(StartCapture(ServiceReady(raw_capture, o1), f), o2)
      BY <2>2 DEF PollStart, Leaves
    <3> DEFINE before  == ServiceReady(raw_capture, o1)
               started == StartCapture(before, f)
    <3>2. /\ before \in CaptureType /\ CaptureSound(before, store)
          /\ before.armed /\ before.session_id = raw_capture.session_id
          /\ before.received_map = raw_capture.received_map
      BY <1>1, ServiceReadyKeeps, ServiceReadySound
    <3> HIDE DEF before
    <3>3. /\ started \in CaptureType /\ started.session_id = f.session
          /\ before.session_id = f.session =>
               started.received_map = before.received_map
      BY <3>0, <3>2, StartSound
    <3> HIDE DEF started
    <3>4. /\ raw_capture'.session_id = started.session_id
          /\ raw_capture'.received_map = started.received_map
      BY <3>1, <3>3, ServiceReadyKeeps DEF started, before
    <3> QED BY <3>2, <3>3, <3>4
  <2>3. CASE f.kind = "chunk" /\ PollChunk(f, recycled)
    <3>0. f \in ChunkFrames BY <2>3, FrameKinds
    <3>1. PICK o \in Outcomes(pc_mac) :
            RawCaptureProcess(ServiceReady(raw_capture, o), f, recycled)
      BY <2>3 DEF PollChunk
    <3> DEFINE rc == ServiceReady(raw_capture, o)
    <3>2. /\ rc \in CaptureType /\ CaptureSound(rc, store)
          /\ ~rc.complete /\ rc.active /\ rc.scan_id = raw_capture.scan_id
          /\ rc.received_map = raw_capture.received_map
      BY <1>1, <2>3, ServiceReadyKeeps, ServiceReadySound DEF PollChunk
    <3> HIDE DEF rc
    <3> QED BY <3>0, <3>1, <3>2, ChunkKeepsProgress DEF rc
  <2>4. CASE f.kind \notin {"start", "chunk"} /\ PollOther(f, recycled)
    BY <1>1, <2>4, ServiceReadyKeeps DEF PollOther, Leaves
  <2> QED BY <2>1, <2>2, <2>3, <2>4 DEF EthCapturePoll
<1> QED BY <1>2, <1>3, <1>4, <1>5 DEF Next, Main

\* Within a session and a scan, a marked chunk stays marked.
THEOREM ProgressNeverLost == Spec => ProgressKept
<1>1. IInv /\ [Next]_vars =>
        [(/\ phase = "wait" /\ raw_capture.active /\ raw_capture'.armed
          /\ raw_capture'.session_id = raw_capture.session_id
          /\ raw_capture'.scan_id = raw_capture.scan_id)
         => raw_capture.received_map \subseteq raw_capture'.received_map]_vars
  BY StepKeepsProgress
<1> QED BY <1>1, InvariantHolds, PTL DEF Spec, ProgressKept
=============================================================================
