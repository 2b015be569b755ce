------------------------------ MODULE RawCapture ------------------------------
(***************************************************************************)
(* The firmware's UDP scan reassembler (vitis/radarcollect/src/eth_udp.c)  *)
(* and the main loop's wait / process / reply cycle around it (main.c).    *)
(*                                                                         *)
(* One thread polls the Ethernet MAC.  A START datagram arms a session and *)
(* is answered with up to three READY datagrams; RAW_CHUNK datagrams fill  *)
(* the receive store; when the last byte is in and the whole-scan CRC      *)
(* agrees, main.c processes the scan without polling, sends PROCESS_DONE   *)
(* three times and starts over.  Here any frame of Frames may be the next  *)
(* one received, in any order and any number of times: what this module    *)
(* promises does not depend on a well-behaved sender or network.           *)
(*                                                                         *)
(* Data is abstracted to what the properties tell apart.  A transfer is    *)
(* one capture file a host replays; its whole-scan CRC-32 identifies it.   *)
(* The receive store is a function from chunk slots to what was last       *)
(* written there.  A chunk body is "intact", "damaged" (its own CRC-32     *)
(* fails) or "aliased" (wrong bytes whose chunk CRC-32 happens to agree).  *)
(* The four error and duplicate counters of eth_capture_info_t only feed   *)
(* printf lines and are left out.                                          *)
(***************************************************************************)
EXTENDS Integers, FiniteSets

CONSTANTS
  ChunkMax,    \* ETH_RAW_CHUNK_DATA_MAX, in abstract data units
  Capacity,    \* RX_STORE_SIZE, in the same units
  Transfers,   \* the captures a host may send, one per whole-scan CRC value
  NoTransfer,  \* the zeroed expected_crc32
  HasFrames,   \* the transfers whose bytes hold "AllDataBack" and >= 1 frame
  Frames,      \* the Ethernet frames that can be received
  Stations,    \* the stations on the network, by MAC address
  Pc,          \* the station that owns ETH_PC_IP
  NoMac        \* pc_mac before it is resolved

\* Slot i of the receive store starts at byte i * ChunkMax.
CeilDiv(a, b) == (a + b - 1) \div b
\* The slots of a scan of the given length, and of the whole store.
SlotsOf(total) == 0 .. (CeilDiv(total, ChunkMax) - 1)
Slots == SlotsOf(Capacity)

Bodies == {"intact", "damaged", "aliased"}

StartFrames == [kind : {"start"}, src : Stations, session : Nat, port : Nat]
ChunkFrames == [kind : {"chunk"}, src : Stations, scan_id : Nat, total_len : Nat,
                offset : Nat, chunk_index : Nat, chunk_count : Nat,
                chunk_len : Nat, first : BOOLEAN, scan_crc32 : Transfers,
                body : Bodies]
\* An ARP request for the board's address, a control or raw datagram whose
\* length, magic, version, type or command is wrong, a UDP datagram to another
\* port, and any other frame.
OtherFrames == [kind : {"arp", "malformed", "udp", "other"}, src : Stations]

ASSUME RawCaptureAssumption ==
  /\ ChunkMax \in Nat \ {0}
  /\ Capacity \in Nat \ {0}
  /\ NoTransfer \notin Transfers
  /\ HasFrames \subseteq Transfers
  /\ Frames \subseteq StartFrames \cup ChunkFrames \cup OtherFrames
  /\ Pc \in Stations
  /\ NoMac \notin Stations

VARIABLES
  raw_capture,  \* the static raw_capture_t of eth_udp.c
  store,        \* DDR at RX_STORE_BASE, by chunk slot
  pc_mac,       \* the resolved MAC address of the PC, or NoMac
  result,       \* what the last eth_capture_poll returned
  tx,           \* the status datagrams handed to the MAC in the last step
  phase,        \* where main.c is: waiting, received, replying or halted
  scan,         \* main.c's copy of the capture: udp_scan_id, total, packets
  done_sent     \* eth_capture_send_process_done's `sent`

vars == <<raw_capture, store, pc_mac, result, tx, phase, scan, done_sent>>

-----------------------------------------------------------------------------
(***************************************************************************)
(* State                                                                   *)
(***************************************************************************)
ZeroCapture ==
  [armed |-> FALSE, session_id |-> 0, response_port |-> 0,
   ready_pending |-> FALSE, ready_port |-> 0, ready_repeats |-> 0,
   active |-> FALSE, complete |-> FALSE, expected_crc32 |-> NoTransfer,
   received_map |-> {}, scan_id |-> 0, total_len |-> 0,
   received_len |-> 0, packet_count |-> 0]

\* eth_capture_reset: memset(&raw_capture, 0, sizeof raw_capture).
EthCaptureReset == ZeroCapture

\* What a slot holds: len bytes of the slot's chunk of transfer crc.
EmptyCell == [crc |-> NoTransfer, len |-> 0, body |-> "damaged"]
FullLen(total, i) ==
  IF total - i * ChunkMax < ChunkMax THEN total - i * ChunkMax ELSE ChunkMax

NoScan == [scan_id |-> 0, total |-> 0, packets |-> 0]

\* Mutant of Done: answers at ready_port, which a FIRST chunk has cleared.
DoneAtReadyPort(rc) ==
  [status |-> "PROCESS_DONE", session |-> rc.session_id,
   detail |-> rc.scan_id, port |-> rc.ready_port]

Ready(rc) == [status |-> "READY", session |-> rc.session_id, detail |-> 0,
              port |-> rc.ready_port]
Done(rc)  == [status |-> "PROCESS_DONE", session |-> rc.session_id,
              detail |-> rc.scan_id, port |-> rc.response_port]

Init ==
  /\ raw_capture = EthCaptureReset
  /\ store = [i \in Slots |-> EmptyCell]
  /\ pc_mac = NoMac              \* eth_init never calls arp_resolve
  /\ result = "IDLE"
  /\ tx = {}
  /\ phase = "wait"
  /\ scan = NoScan
  /\ done_sent = 0

-----------------------------------------------------------------------------
(***************************************************************************)
(* Sending a status datagram.  udp_send returns 0 ("sent") once the MAC    *)
(* has released the buffer; it fails at once ("refused") when the PC's MAC *)
(* address is unknown or the MAC still owns the buffer; and it gives up    *)
(* after TX_WAIT_ATTEMPTS polls ("timeout") on a frame that is already     *)
(* queued and may go out all the same.  Module GemTx models the inside.    *)
(***************************************************************************)
Outcomes(mac) == IF mac = NoMac THEN {"refused"} ELSE {"sent", "timeout", "refused"}

\* raw_capture_service_ready: one READY of the three, if one is pending.
ServiceReady(rc, outcome) ==
  IF ~(rc.ready_pending /\ outcome = "sent") THEN rc
  ELSE IF rc.ready_repeats > 1
       THEN [rc EXCEPT !.ready_repeats = @ - 1]
       ELSE [rc EXCEPT !.ready_pending = FALSE]

ReadyOut(rc, outcome) ==
  IF rc.ready_pending /\ outcome # "refused" THEN {Ready(rc)} ELSE {}

-----------------------------------------------------------------------------
(***************************************************************************)
(* START: raw_capture_control_process.  Only another session, or the first *)
(* one, clears the capture; a repeated START just renews the READY budget. *)
(***************************************************************************)
\* Mutant of StartCapture: a START of another session clears nothing.
StartCaptureKeeps(rc, f) ==
  [rc EXCEPT !.armed = TRUE, !.session_id = f.session, !.response_port = f.port, !.ready_port = f.port,
             !.ready_repeats = 3, !.ready_pending = TRUE]

StartCapture(rc, f) ==
  LET cur == IF ~rc.armed \/ rc.session_id # f.session
             THEN [EthCaptureReset EXCEPT !.armed = TRUE, !.session_id = f.session]
             ELSE rc
  IN [cur EXCEPT !.response_port = f.port, !.ready_port = f.port,
                 !.ready_repeats = 3, !.ready_pending = TRUE]

-----------------------------------------------------------------------------
(***************************************************************************)
(* RAW_CHUNK: raw_capture_process, in the order of its checks.             *)
(***************************************************************************)
ChunkFits(c) ==
  /\ c.total_len # 0
  /\ c.total_len <= Capacity
  /\ c.chunk_count = CeilDiv(c.total_len, ChunkMax)
  /\ c.chunk_index < c.chunk_count
  /\ c.chunk_len # 0
  /\ c.chunk_len <= ChunkMax
  /\ c.offset = c.chunk_index * ChunkMax
  /\ c.offset + c.chunk_len <= c.total_len

\* Mutant of OpensCapture: every FIRST chunk opens a capture.
OpensOnFirst(rc, c) == ~rc.active \/ rc.scan_id # c.scan_id \/ c.first

\* The chunk does not belong to the capture in progress: it has to open one.
OpensCapture(rc, c) == ~rc.active \/ rc.scan_id # c.scan_id
MayOpen(c) == c.offset = 0 /\ c.first

\* Mutant of OpenCapture: the scan id is not taken over.
OpenCaptureNoId(rc, c) ==
  [EthCaptureReset EXCEPT !.armed = TRUE, !.session_id = rc.session_id,
     !.response_port = rc.response_port, !.active = TRUE,
     !.total_len = c.total_len, !.expected_crc32 = c.scan_crc32]

OpenCapture(rc, c) ==
  [EthCaptureReset EXCEPT !.armed = TRUE, !.session_id = rc.session_id,
     !.response_port = rc.response_port, !.active = TRUE,
     !.scan_id = c.scan_id, !.total_len = c.total_len,
     !.expected_crc32 = c.scan_crc32]

\* Mutant of ChunkRefused: no START is needed.
ChunkRefusedArmless(rc, c) == ~ChunkFits(c) \/ (OpensCapture(rc, c) /\ ~MayOpen(c))

\* Refused before anything is changed.
ChunkRefused(rc, c) ==
  \/ ~rc.armed
  \/ ~ChunkFits(c)
  \/ OpensCapture(rc, c) /\ ~MayOpen(c)

\* The capture the chunk is checked against: a FIRST chunk of another scan
\* has reset raw_capture by now, whatever the checks that follow say.
CaptureFor(rc, c) == IF OpensCapture(rc, c) THEN OpenCapture(rc, c) ELSE rc

\* Mutants: the scan CRC of later chunks is not compared; a second copy of a
\* chunk is taken for a new one; the whole-scan CRC is not checked.
LengthAgrees(rc, c) == rc.total_len = c.total_len
NeverDuplicate(rc, c) == FALSE
ScanCrcUnchecked(st, rc) == TRUE

HeaderAgrees(rc, c) == rc.total_len = c.total_len /\ rc.expected_crc32 = c.scan_crc32
ChunkCrcAgrees(c) == c.body # "damaged"
IsDuplicate(rc, c) == c.chunk_index \in rc.received_map

\* Mutant of StoreChunk: every chunk is counted with a full slot's length.
StoreChunkFull(rc, c) ==
  [rc EXCEPT !.received_map = @ \cup {c.chunk_index},
             !.received_len = @ + ChunkMax,
             !.packet_count = @ + 1]

StoreChunk(rc, c) ==
  [rc EXCEPT !.received_map = @ \cup {c.chunk_index},
             !.received_len = @ + c.chunk_len,
             !.packet_count = @ + 1]

\* crc32_compute(dst, total_len) = expected_crc32: CRC-32 tells any two scans
\* apart, so it agrees only when every slot holds the scan's own chunk.
ScanCrcAgrees(st, rc) ==
  \A i \in SlotsOf(rc.total_len) :
    st[i] = [crc |-> rc.expected_crc32, len |-> FullLen(rc.total_len, i),
             body |-> "intact"]

\* rc and the result raw_capture_process leaves, recycled being whether
\* eth_rx_recycle_bd gave the descriptor back (if not, the poll is an ERROR).
Leaves(rc, res, recycled) ==
  /\ raw_capture' = rc
  /\ result' = IF recycled THEN res ELSE "ERROR"

RawCaptureProcess(rc, c, recycled) ==
  LET cur    == CaptureFor(rc, c)
      stored == StoreChunk(cur, c)
  IN \/ /\ ChunkRefused(rc, c)
        /\ Leaves(rc, "ERROR", recycled)
        /\ UNCHANGED store
     \/ /\ ~ChunkRefused(rc, c)
        /\ ~HeaderAgrees(cur, c) \/ ~ChunkCrcAgrees(c)
        /\ Leaves(cur, "ERROR", recycled)
        /\ UNCHANGED store
     \/ /\ ~ChunkRefused(rc, c) /\ HeaderAgrees(cur, c) /\ ChunkCrcAgrees(c)
        /\ IsDuplicate(cur, c)
        /\ Leaves(cur, "IN_PROGRESS", recycled)
        /\ UNCHANGED store
     \/ /\ ~ChunkRefused(rc, c) /\ HeaderAgrees(cur, c) /\ ChunkCrcAgrees(c)
        /\ ~IsDuplicate(cur, c)
        /\ store' = [store EXCEPT ![c.chunk_index] =
                       [crc |-> c.scan_crc32, len |-> c.chunk_len, body |-> c.body]]
        /\ \/ /\ stored.received_len # stored.total_len
              /\ Leaves(stored, "IN_PROGRESS", recycled)
           \/ /\ stored.received_len = stored.total_len
              /\ ~ScanCrcAgrees(store', stored)
              /\ Leaves([stored EXCEPT !.active = FALSE], "ERROR", recycled)
           \/ /\ stored.received_len = stored.total_len
              /\ ScanCrcAgrees(store', stored)
              /\ Leaves([stored EXCEPT !.complete = TRUE], "COMPLETE", recycled)

-----------------------------------------------------------------------------
(***************************************************************************)
(* eth_capture_poll, called by main.c until it returns COMPLETE.  Every    *)
(* call first services a pending READY.                                    *)
(***************************************************************************)
\* main.c's reaction to the poll's return value.
MainReacts ==
  IF result' = "COMPLETE"
  THEN /\ phase' = "received"
       /\ scan' = [scan_id |-> raw_capture'.scan_id, total |-> raw_capture'.total_len,
                   packets |-> raw_capture'.packet_count]
  ELSE UNCHANGED <<phase, scan>>

\* The capture is already complete, or no frame has arrived.
PollNoFrame ==
  /\ phase = "wait"
  /\ \E o \in Outcomes(pc_mac) :
       /\ raw_capture' = ServiceReady(raw_capture, o)
       /\ tx' = ReadyOut(raw_capture, o)
  /\ result' = CASE raw_capture.complete -> "COMPLETE"
                 [] ~raw_capture.complete /\ raw_capture.active -> "IN_PROGRESS"
                 [] OTHER -> "IDLE"
  /\ MainReacts
  /\ UNCHANGED <<store, pc_mac, done_sent>>

\* A UDP frame from ETH_PC_IP renews pc_mac before its payload is handled.
LearnMac(f) == pc_mac' = IF f.src = Pc THEN Pc ELSE pc_mac

PollStart(f, recycled) ==
  /\ phase = "wait" /\ ~raw_capture.complete
  /\ LearnMac(f)
  /\ \E o1 \in Outcomes(pc_mac), o2 \in Outcomes(pc_mac') :
       LET before  == ServiceReady(raw_capture, o1)
           started == StartCapture(before, f)
       IN /\ Leaves(ServiceReady(started, o2), "IDLE", recycled)
          /\ tx' = ReadyOut(raw_capture, o1) \cup ReadyOut(started, o2)
  /\ UNCHANGED <<store, phase, scan, done_sent>>

PollChunk(f, recycled) ==
  /\ phase = "wait" /\ ~raw_capture.complete
  /\ LearnMac(f)
  /\ \E o \in Outcomes(pc_mac) :
       /\ RawCaptureProcess(ServiceReady(raw_capture, o), f, recycled)
       /\ tx' = ReadyOut(raw_capture, o)
  /\ MainReacts
  /\ UNCHANGED done_sent

\* An ARP request for the board takes pc_mac over, whoever sent it.
PollOther(f, recycled) ==
  /\ phase = "wait" /\ ~raw_capture.complete
  /\ pc_mac' = CASE f.kind = "arp" -> f.src
                 [] f.kind \in {"malformed", "udp"} /\ f.src = Pc -> Pc
                 [] OTHER -> pc_mac
  /\ \E o \in Outcomes(pc_mac), replied \in BOOLEAN :
       /\ Leaves(ServiceReady(raw_capture, o),
                 IF f.kind = "malformed" \/ (f.kind = "arp" /\ ~replied)
                 THEN "ERROR" ELSE "IDLE", recycled)
       /\ tx' = ReadyOut(raw_capture, o)
  /\ UNCHANGED <<store, phase, scan, done_sent>>

EthCapturePoll(f, recycled) ==
  \/ f.kind = "start" /\ PollStart(f, recycled)
  \/ f.kind = "chunk" /\ PollChunk(f, recycled)
  \/ f.kind \notin {"start", "chunk"} /\ PollOther(f, recycled)

-----------------------------------------------------------------------------
(***************************************************************************)
(* main.c once a scan is complete: nothing is polled any more.             *)
(***************************************************************************)
\* The capture whose bytes the store holds.
HeldTransfer == store[0].crc

\* find_frame_header and the frame count decide whether the scan is decoded
\* in place, which destroys the received image, or main() returns.
ProcessScan ==
  /\ phase = "received"
  /\ HeldTransfer \in HasFrames
  /\ store' = [i \in Slots |-> EmptyCell]
  /\ phase' = "reply"
  /\ done_sent' = 0
  /\ tx' = {}
  /\ UNCHANGED <<raw_capture, pc_mac, result, scan>>

RejectScan ==
  /\ phase = "received"
  /\ HeldTransfer \notin HasFrames
  /\ phase' = "halted"
  /\ tx' = {}
  /\ UNCHANGED <<raw_capture, store, pc_mac, result, scan, done_sent>>

\* eth_capture_send_process_done refuses when there is nobody to answer.
CanReply == raw_capture.armed /\ raw_capture.response_port # 0

\* Mutant of SendProcessDone: `sent--` follows every copy.
SendProcessDoneAgain ==
  /\ phase = "reply" /\ CanReply /\ done_sent < 3
  /\ \E o \in Outcomes(pc_mac) :
       tx' = IF o = "refused" THEN {} ELSE {Done(raw_capture)}
  /\ UNCHANGED <<raw_capture, store, pc_mac, result, phase, scan, done_sent>>

\* One udp_send of the copy being sent: on success the next copy's turn; on
\* failure the transmitter is recovered in the end and the copy tried again.
SendProcessDone ==
  /\ phase = "reply" /\ CanReply /\ done_sent < 3
  /\ \E o \in Outcomes(pc_mac) :
       /\ done_sent' = IF o = "sent" THEN done_sent + 1 ELSE done_sent
       /\ tx' = IF o = "refused" THEN {} ELSE {Done(raw_capture)}
  /\ UNCHANGED <<raw_capture, store, pc_mac, result, phase, scan>>

\* goto udp_wait_scan, which begins with eth_capture_reset().
UdpWaitScan ==
  /\ phase = "reply"
  /\ ~CanReply \/ done_sent = 3
  /\ raw_capture' = EthCaptureReset
  /\ phase' = "wait"
  /\ tx' = {}
  /\ UNCHANGED <<store, pc_mac, result, scan, done_sent>>

\* A board reset: static data is zeroed, DDR keeps what it held, and eth_init
\* forgets the PC's address.
Reboot ==
  /\ raw_capture' = EthCaptureReset
  /\ pc_mac' = NoMac
  /\ result' = "IDLE" /\ tx' = {} /\ phase' = "wait"
  /\ scan' = NoScan /\ done_sent' = 0
  /\ UNCHANGED store

Main == PollNoFrame \/ ProcessScan \/ RejectScan \/ SendProcessDone \/ UdpWaitScan
Receive == \E f \in Frames, recycled \in BOOLEAN : EthCapturePoll(f, recycled)

Next == Main \/ Receive \/ Reboot

Spec == Init /\ [][Next]_vars

-----------------------------------------------------------------------------
(***************************************************************************)
(* Properties                                                              *)
(***************************************************************************)
Results == {"IDLE", "IN_PROGRESS", "COMPLETE", "ERROR"}
Cells == [crc : Transfers \cup {NoTransfer}, len : Nat, body : Bodies]
StatusDatagrams == [status : {"READY", "PROCESS_DONE"}, session : Nat,
                    detail : Nat, port : Nat]

CaptureType ==
  [armed : BOOLEAN, session_id : Nat, response_port : Nat,
   ready_pending : BOOLEAN, ready_port : Nat, ready_repeats : 0 .. 3,
   active : BOOLEAN, complete : BOOLEAN,
   expected_crc32 : Transfers \cup {NoTransfer},
   received_map : SUBSET Slots, scan_id : Nat, total_len : Nat,
   received_len : Nat, packet_count : Nat]

\* Every variable keeps its type; the READY budget never exceeds three and the
\* bitmap never marks a slot outside the store.
TypeOK ==
  /\ raw_capture \in CaptureType
  /\ store \in [Slots -> Cells]
  /\ pc_mac \in Stations \cup {NoMac}
  /\ result \in Results
  /\ tx \subseteq StatusDatagrams
  /\ phase \in {"wait", "received", "reply", "halted"}
  /\ scan \in [scan_id : Nat, total : Nat, packets : Nat]
  /\ done_sent \in 0 .. 3

MapMatches(rc, st) ==
  \A i \in rc.received_map :
    /\ i \in SlotsOf(rc.total_len)
    /\ st[i].crc = rc.expected_crc32
    /\ st[i].len \in 1 .. FullLen(rc.total_len, i)
    /\ st[i].body # "damaged"

\* What the bitmap says has arrived is in the store: every marked slot belongs
\* to the scan and holds bytes of the very transfer being received, whatever
\* earlier scans, resets and half-written captures have left in DDR
\* (raw_capture_process's bitmap, memcpy and resets).
MapMatchesStore ==
  (raw_capture.active /\ phase = "wait") => MapMatches(raw_capture, store)

\* packet_count, which the scan summary reports, is the number of distinct
\* chunks stored, however many copies arrived (raw_capture_process).
PacketsCounted ==
  raw_capture.packet_count = Cardinality(raw_capture.received_map)

\* A scan main.c is about to process is one transfer, whole and undamaged, and
\* main.c's copy of its id, length and packet count is the scan's.
ReceivedScanIntact ==
  phase = "received" =>
    /\ scan.total = raw_capture.total_len
    /\ scan.packets = Cardinality(SlotsOf(scan.total))
    /\ \A i \in SlotsOf(scan.total) :
         store[i] = [crc |-> HeldTransfer, len |-> FullLen(scan.total, i),
                     body |-> "intact"]

\* The reply names the session that was armed and the scan that main.c
\* processed (udp_scan_id, which the scan summary carries too).
DoneNamesScan ==
  \A m \in tx : m.status = "PROCESS_DONE" =>
    /\ phase = "reply"
    /\ m.session = raw_capture.session_id
    /\ m.detail = scan.scan_id
    /\ m.port = raw_capture.response_port

\* Outside the wait loop the capture is frozen: complete, armed, and the scan
\* main.c copied.
ReplyConsistent ==
  phase \in {"received", "reply"} =>
    /\ raw_capture.complete /\ raw_capture.armed /\ raw_capture.active
    /\ raw_capture.scan_id = scan.scan_id
    /\ raw_capture.received_len = raw_capture.total_len

\* A capture in progress is always waiting for something: a slot that is not
\* marked, or one whose mark stands for a chunk cut shorter than the slot.  No
\* order, repetition or mixture of two transfers under one scan id leaves a
\* board with every slot full that takes every further chunk for a duplicate
\* (received_len against received_map, the failed scan CRC's `active = 0`).
WaitsForAChunk ==
  (phase = "wait" /\ raw_capture.active /\ ~raw_capture.complete) =>
    \E i \in SlotsOf(raw_capture.total_len) :
      \/ i \notin raw_capture.received_map
      \/ store[i].len < FullLen(raw_capture.total_len, i)

\* While the session and the scan stay the same no progress is given up: a
\* repeated START, a second copy of the FIRST chunk, a bad chunk or a failed
\* scan CRC never clears what has arrived (raw_capture_control_process,
\* raw_capture_process).
ProgressKept ==
  [][(/\ phase = "wait" /\ raw_capture.active /\ raw_capture'.armed
      /\ raw_capture'.session_id = raw_capture.session_id
      /\ raw_capture'.scan_id = raw_capture.scan_id)
     => raw_capture.received_map \subseteq raw_capture'.received_map]_vars

-----------------------------------------------------------------------------
(***************************************************************************)
(* The inductive invariant behind the safety properties (RawCaptureProofs) *)
(***************************************************************************)
\* What the received chunks can amount to at most: full slots, and the last
\* slot of the scan only as long as the scan leaves it.
LastSlot(total) == CeilDiv(total, ChunkMax) - 1
Filled(rc) ==
  Cardinality(rc.received_map) * ChunkMax
    - (IF LastSlot(rc.total_len) \in rc.received_map
       THEN ChunkMax - FullLen(rc.total_len, LastSlot(rc.total_len)) ELSE 0)
LengthBound(rc) == rc.received_len <= Filled(rc)

\* They amount to exactly that when none of them was cut short.
LengthExact(rc, st) ==
  (\A i \in rc.received_map : st[i].len = FullLen(rc.total_len, i))
    => rc.received_len = Filled(rc)

CaptureSound(rc, st) ==
  /\ rc.packet_count = Cardinality(rc.received_map)
  /\ rc.complete => rc.active
  /\ rc.active => /\ rc.armed
                  /\ rc.total_len \in 1 .. Capacity
                  /\ rc.expected_crc32 \in Transfers
                  /\ LengthBound(rc)
                  /\ LengthExact(rc, st)
                  /\ MapMatches(rc, st)
  /\ rc.complete => /\ rc.received_len = rc.total_len
                    /\ ScanCrcAgrees(st, rc)

\* A capture that has all its length does not stay open.
StillOpen(rc) == rc.active /\ ~rc.complete => rc.received_len # rc.total_len

\* The received chunks never add up to more than their slots hold, so the
\* length test of raw_capture_process can only succeed on a full bitmap; full
\* slots add up to the whole scan, so that it does succeed on them.
IInv ==
  /\ TypeOK
  /\ phase = "wait" => CaptureSound(raw_capture, store) /\ StillOpen(raw_capture)
  /\ PacketsCounted
  /\ ReplyConsistent
  /\ ReceivedScanIntact
  /\ DoneNamesScan
=============================================================================
