----------------------------- MODULE ScanTransfer -----------------------------
(***************************************************************************)
(* A scan session end to end: the replay client (udp_scan_replay.py), the  *)
(* board of RawCapture and the Ethernet link between them.                 *)
(*                                                                         *)
(* The client takes the scans of Plan in turn (--loop, or one run after    *)
(* another): START until READY, every chunk a number of times, then wait   *)
(* for PROCESS_DONE.  Frames reach the board in the order they were sent;  *)
(* a frame is lost on the wire (at most MaxLost times in all) or because   *)
(* the board's RX descriptor ring is full.  The status datagrams of the    *)
(* board may be lost, and reach the client in any order and late.          *)
(***************************************************************************)
EXTENDS RawCapture, Sequences

CONSTANTS
  Plan,          \* the scans the client replays, in order: their data and scan id
  TotalLen,      \* the length of each transfer's data
  ChunkSize,     \* --chunk-size
  ReadyRetries,  \* --ready-retries
  ChunkRepeats,  \* --chunk-repeats
  FirstRepeats,  \* --first-chunk-repeats
  HostPort,      \* the port of the client's socket, in its first run
  RingSize,      \* RX_BD_COUNT
  MaxLost,       \* bound: frames and datagrams the network loses
  MaxReboots,    \* bound: board resets
  Interrupts,    \* whether the operator may stop a run and start the next one
  Patience       \* whether the clients there are pace their frames

ASSUME ScanTransferAssumption ==
  /\ Plan \in Seq([data : Transfers, id : Nat]) /\ Plan # <<>>
  /\ TotalLen \in [Transfers -> Nat \ {0}]
  /\ {ChunkSize, ReadyRetries, ChunkRepeats, FirstRepeats, RingSize} \subseteq Nat \ {0}
  /\ {MaxLost, MaxReboots, HostPort} \subseteq Nat
  /\ Interrupts \in BOOLEAN /\ Patience \subseteq BOOLEAN

\* Scan ids follow one another or come from the clock; a plan does not repeat one.
ASSUME ScanIdsDiffer ==
  \A r, q \in 1 .. Len(Plan) : Plan[r].id = Plan[q].id => r = q

VARIABLES
  host,      \* the client: its place in the program and its loop counters, and
             \* whether it has been patient (a history variable, see TimedOut)
  ring,      \* frames on their way to the board or in its RX ring
  inbox,     \* status datagrams on their way to the client or in its socket
  lost,      \* what the network has lost
  reboots,   \* board resets so far
  handled,   \* the scans the board has processed, in order
  confirmed  \* the scans the client saw PROCESS_DONE for

clientVars == <<host, confirmed>>
boardVars == <<vars, handled, reboots>>
allVars == <<vars, host, ring, inbox, lost, reboots, handled, confirmed>>

-----------------------------------------------------------------------------
(***************************************************************************)
(* The client                                                              *)
(***************************************************************************)
Current == Plan[host.run]
ChunkCount(s) == CeilDiv(TotalLen[s.data], ChunkSize)

\* A --loop client keeps its socket; every run of its own has a new one.
Port(r) == IF Interrupts THEN HostPort + r ELSE HostPort

\* wait_for_ready is called with the scan id as the session id.
StartFrame(r) == [kind |-> "start", src |-> Pc, session |-> Plan[r].id, port |-> Port(r)]

\* build_raw_chunk for chunk i of scan s, as send_scan calls it.
ChunkFrame(s, i) ==
  LET offset == i * ChunkSize
      rest   == TotalLen[s.data] - offset
  IN [kind |-> "chunk", src |-> Pc, scan_id |-> s.id,
      total_len |-> TotalLen[s.data], offset |-> offset, chunk_index |-> i,
      chunk_count |-> ChunkCount(s),
      chunk_len |-> IF rest < ChunkSize THEN rest ELSE ChunkSize,
      first |-> i = 0, scan_crc32 |-> s.data, body |-> "intact"]

\* RawCapture's Frames: at least what this client sends.
ASSUME FramesAssumption ==
  \A r \in 1 .. Len(Plan) :
    /\ StartFrame(r) \in Frames
    /\ \A i \in 0 .. ChunkCount(Plan[r]) - 1 : ChunkFrame(Plan[r], i) \in Frames

\* Mutant of Repeats: every chunk is sent once.
RepeatsOnce(i) == 1

\* send_scan's repeats: the first chunk is sent more often.
Repeats(i) ==
  IF i = 0 /\ FirstRepeats > ChunkRepeats THEN FirstRepeats ELSE ChunkRepeats

NewRun(p, r) ==
  [patient |-> p, pc |-> "start", run |-> r, attempt |-> 0, chunk |-> 0, copy |-> 0]

\* A frame the client sends is queued for the board, lost on the wire, or lost
\* because the ring is full.  A patient client's pacing (--pace-us) leaves a
\* board that polls the time to empty its ring; one that processes a scan or
\* replies polls nothing, and whatever comes then overflows.
SendFrame(f) ==
  \/ /\ Len(ring) < RingSize
     /\ ring' = Append(ring, f)
     /\ UNCHANGED lost
  \/ /\ lost < MaxLost
     /\ lost' = lost + 1
     /\ UNCHANGED ring
  \/ /\ ~host.patient \/ phase # "wait"
     /\ Len(ring) = RingSize
     /\ UNCHANGED <<ring, lost>>

\* wait_for_ready: send one START of the session.
SendStart ==
  /\ host.pc = "start" /\ host.attempt < ReadyRetries
  /\ SendFrame(StartFrame(host.run))
  /\ host' = [host EXCEPT !.pc = "await_ready", !.attempt = @ + 1]
  /\ UNCHANGED <<boardVars, inbox, confirmed>>

\* wait_for_ready: only a READY of this run's own session counts.
IsReady(m) == m.status = "READY" /\ m.session = Current.id /\ m.port = Port(host.run)
TakeReady ==
  /\ host.pc = "await_ready"
  /\ \E m \in inbox : IsReady(m)
  /\ host' = [host EXCEPT !.pc = "send"]
  /\ UNCHANGED <<boardVars, ring, inbox, lost, confirmed>>

\* The board has nothing left to do for the client.
BoardQuiet ==
  \/ ring = <<>> /\ phase = "wait" /\ ~raw_capture.ready_pending
  \/ phase = "halted"

\* A receive timeout, 2 s for READY and 300 s for PROCESS_DONE.  It may run out
\* at any moment; the client has been patient if the answer had not come by
\* then and the board had nothing left to do.
TimedOut(next, answered) ==
  [host EXCEPT !.pc = next, !.patient = @ /\ BoardQuiet /\ ~answered]

ReadyTimeout ==
  /\ host.pc = "await_ready"
  /\ host' = TimedOut(IF host.attempt < ReadyRetries THEN "start" ELSE "failed",
                      \E m \in inbox : IsReady(m))
  /\ UNCHANGED <<boardVars, ring, inbox, lost, confirmed>>

\* send_scan: send one copy of the current chunk and move on.
NextCopy(h) ==
  IF h.copy + 1 < Repeats(h.chunk) THEN [h EXCEPT !.copy = @ + 1]
  ELSE IF h.chunk + 1 < ChunkCount(Plan[h.run])
       THEN [h EXCEPT !.chunk = @ + 1, !.copy = 0]
       ELSE [h EXCEPT !.pc = "await_done"]

SendChunk ==
  /\ host.pc = "send"
  /\ SendFrame(ChunkFrame(Current, host.chunk))
  /\ host' = NextCopy(host)
  /\ UNCHANGED <<boardVars, inbox, confirmed>>

\* wait_for_process_done and main's loop.
IsDone(m) ==
  m.status = "PROCESS_DONE" /\ m.session = Current.id /\ m.port = Port(host.run)
AfterRun(h) == IF h.run < Len(Plan) THEN NewRun(h.patient, h.run + 1) ELSE [h EXCEPT !.pc = "finished"]
TakeDone ==
  /\ host.pc = "await_done"
  /\ \E m \in inbox : IsDone(m)
  /\ host' = AfterRun(host)
  /\ confirmed' = confirmed \cup {Current}
  /\ UNCHANGED <<boardVars, ring, inbox, lost>>

\* Mutant of DoneTimeout: the wait starts over.
DoneTimeoutWaitsOn ==
  /\ host.pc = "await_done"
  /\ host' = TimedOut("await_done", \E m \in inbox : IsDone(m))
  /\ UNCHANGED <<boardVars, ring, inbox, lost, confirmed>>

DoneTimeout ==
  /\ host.pc = "await_done"
  /\ host' = TimedOut("failed", \E m \in inbox : IsDone(m))
  /\ UNCHANGED <<boardVars, ring, inbox, lost, confirmed>>

\* The operator stops a run, or one has failed, and replays the next capture:
\* a new process on a new socket that reads nothing sent to the old one.
Rerun ==
  /\ Interrupts
  /\ host.pc # "finished" /\ host.run < Len(Plan)
  /\ host' = NewRun(host.patient, host.run + 1)
  /\ inbox' = {}
  /\ UNCHANGED <<boardVars, ring, lost, confirmed>>

Client == SendStart \/ TakeReady \/ ReadyTimeout \/ SendChunk \/ TakeDone \/ DoneTimeout

-----------------------------------------------------------------------------
(***************************************************************************)
(* The board                                                               *)
(***************************************************************************)
\* The status datagrams of this step: those for the client arrive or are lost.
Deliver ==
  LET arriving == {m \in tx' : m.port = Port(host.run)}
  IN \E got \in SUBSET arriving :
    LET missing == Cardinality(arriving \ got)
    IN /\ lost + missing <= MaxLost
       /\ lost' = lost + missing
       /\ inbox' = inbox \cup got

BoardPoll ==
  /\ PollNoFrame
  /\ Deliver
  /\ UNCHANGED <<ring, reboots, handled, clientVars>>

BoardReceive ==
  /\ ring # <<>>
  /\ EthCapturePoll(Head(ring), TRUE)
  /\ ring' = Tail(ring)
  /\ Deliver
  /\ UNCHANGED <<reboots, handled, clientVars>>

BoardProcess ==
  /\ ProcessScan
  /\ handled' = Append(handled, [data |-> HeldTransfer, id |-> scan.scan_id])
  /\ UNCHANGED <<ring, inbox, lost, reboots, clientVars>>

BoardReject ==
  /\ RejectScan
  /\ UNCHANGED <<ring, inbox, lost, reboots, handled, clientVars>>

BoardReply ==
  /\ SendProcessDone
  /\ Deliver
  /\ UNCHANGED <<ring, reboots, handled, clientVars>>

BoardWait ==
  /\ UdpWaitScan
  /\ UNCHANGED <<ring, inbox, lost, reboots, handled, clientVars>>

\* A reset sets up the RX ring afresh: the frames in it are gone.
BoardReboot ==
  /\ reboots < MaxReboots
  /\ Reboot
  /\ reboots' = reboots + 1
  /\ ring' = <<>>
  /\ UNCHANGED <<inbox, lost, handled, clientVars>>

Board ==
  BoardPoll \/ BoardReceive \/ BoardProcess \/ BoardReject \/ BoardReply \/ BoardWait

TransferInit ==
  /\ Init
  /\ host \in {NewRun(p, 1) : p \in Patience}
  /\ ring = <<>> /\ inbox = {} /\ lost = 0 /\ reboots = 0
  /\ handled = <<>> /\ confirmed = {}

TransferNext == Client \/ Rerun \/ Board \/ BoardReboot

TransferSpec == TransferInit /\ [][TransferNext]_allVars

\* Fairness.  The client's program and the board's only thread keep running,
\* and a PROCESS_DONE that is tried again and again gets out in the end: its
\* loop recovers the transmitter (GemTx!DoneGetsThrough, for a MAC that stays
\* up).  raw_capture_service_ready only tries at the next poll and recovers
\* nothing, so no READY is ever promised.  Nothing is assumed of the operator,
\* of resets or of the network.
Fairness ==
  /\ WF_allVars(Client)
  /\ WF_allVars(BoardReceive)
  /\ WF_allVars(BoardProcess \/ BoardReject)
  /\ WF_allVars(BoardReply /\ done_sent' # done_sent)
  /\ WF_allVars(BoardWait)

FairTransferSpec == TransferSpec /\ Fairness

-----------------------------------------------------------------------------
(***************************************************************************)
(* Properties                                                              *)
(***************************************************************************)
Scans == {Plan[r] : r \in 1 .. Len(Plan)}
Clients == [patient : BOOLEAN,
            pc : {"start", "await_ready", "send", "await_done", "finished", "failed"},
            run : 1 .. Len(Plan), attempt : 0 .. ReadyRetries, chunk : Nat, copy : Nat]

\* The types of the client's and the link's state; the client never sends more
\* STARTs than its retry count, nor a chunk its capture does not have.
TransferTypeOK ==
  /\ TypeOK
  /\ host \in Clients
  /\ host.chunk < ChunkCount(Current)
  /\ host.copy < Repeats(host.chunk)
  /\ ring \in Seq(StartFrames \cup ChunkFrames) /\ Len(ring) <= RingSize
  /\ inbox \subseteq StatusDatagrams
  /\ lost \in 0 .. MaxLost /\ reboots \in 0 .. MaxReboots
  /\ handled \in Seq([data : Transfers, id : Nat])
  /\ confirmed \subseteq Scans

\* A client that starts to send finds the board prepared: armed for its
\* session, with no capture of other bytes in the way, whatever an earlier run
\* left half sent or still in the ring.  docs/SYSTEM_VALIDATION.md:8 says READY
\* is returned "after the UDP receiver is prepared".
ReadyMeansPrepared ==
  (host.pc = "send" /\ host.chunk = 0 /\ host.copy = 0 /\ reboots = 0) =>
    /\ raw_capture.armed
    /\ raw_capture.session_id = Current.id
    /\ raw_capture.active => raw_capture.expected_crc32 = Current.data

\* The board only ever processes scans a client has offered, under their own
\* id: no mixture of two runs is taken for a scan.
OnlyOfferedScans ==
  \A i \in 1 .. Len(handled) : \E r \in 1 .. host.run : handled[i] = Plan[r]

\* What the session promises (ScanDelivery), in terms of this module's state.
TimesHandled(s) == Cardinality({i \in 1 .. Len(handled) : handled[i] = s})
Offered == {Plan[r] : r \in 1 .. (IF host.pc = "start" /\ host.attempt = 0
                                   THEN host.run - 1 ELSE host.run)}
Delivery == INSTANCE ScanDelivery WITH
  offered <- Offered, processed <- [s \in Scans |-> TimesHandled(s)]

\* The session implements ScanDelivery: a scan is processed only when offered
\* and at most once, although every chunk is sent several times and copies of
\* it outlive the capture, and a PROCESS_DONE the client accepts is about a
\* scan the board has processed (control and chunk handlers, wait_for_ready,
\* wait_for_process_done).
ImplementsDelivery == Delivery!Spec

\* With one frame or datagram lost anywhere, and with whatever the full ring
\* loses while the board processes or replies, the copies of chunks, READY and
\* PROCESS_DONE and the START retries get every scan with frames of a paced
\* client through, unless the board is reset or a wait of the client runs out
\* while the board has yet to answer, as it does when READY cannot be sent for
\* two seconds (send_scan's repeats, raw_capture.ready_repeats,
\* eth_capture_send_process_done).
EveryScanConfirmed ==
  [](host.patient /\ reboots = 0) =>
    \A s \in Scans : s.data \in HasFrames => <>(s \in confirmed)

\* Whatever the network and the board do, the client comes to an end: READY
\* and PROCESS_DONE waits are bounded.
ClientTerminates == <>(host.pc \in {"finished", "failed"})

\* A board that has completed a capture returns to waiting for START, or stops
\* for a capture without frames (main.c's loop through udp_wait_scan).
BoardReturns == (phase = "received") ~> (phase \in {"wait", "halted"})
===============================================================================
