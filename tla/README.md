# A TLA+ model of the Zynq FMCW radar scan path

This directory specifies, model-checks and partly proves the part of the
repository that carries a radar scan from a host's capture file to the
operator's screen: the UDP replay protocol, the firmware's reassembler and
transmit path, the two-pass processing of a scan through the FPGA's FFT, the
FPGA block that returns spectra to memory, and the upload and reassembly of
results on the host.

Every definition is translated from the source; `PROJECT.json` maps each one to
its lines. Line numbers below refer to the same commit. `eth_udp.c`, `main.c`
and the other C files are in `vitis/radarcollect/src/`.

## The system

```
 host                              board (one bare-metal thread)            FPGA
 udp_scan_replay.py --START-->  eth_udp.c: control      main.c
                    <--READY--    and chunk handlers  -> first pass --MM2S--> stream_padder
                    --chunks-->   (capture store)                               | xfft
                                                       <- spectra <--S2MM--  mod_fft
 radar_host/service.py <--results-- eth_udp.c: reports <- second pass
 udp_scan_replay.py <--PROCESS_DONE--  (one TX buffer)
```

The firmware is a single loop: `udp_wait_scan` polls the Ethernet MAC until a
capture is complete, processes it without polling, uploads the results, sends
PROCESS_DONE and goes back (`main.c:440-1594`). There is no interrupt and no
second thread on the CPU; the concurrency is with the MAC, the DMA and the FPGA,
and with the host over a lossy network.

### Inventory

| Part | State | Operations | What makes it correct |
|---|---|---|---|
| Reassembler (`eth_udp.c:127-1198`) | `raw_capture`: session, ports, scan, bitmap, lengths, flags; the receive store | START, RAW_CHUNK, ARP, READY service, reset, poll | a scan handed over is one capture, whole and undamaged; replies name it |
| Main loop (`main.c:410-1594`) | the scan in hand, where it is in the loop | wait, parse, process, reply, stop on a bad capture | always returns to waiting or stops where the code says so |
| Transmit path (`eth_udp.c`) | one descriptor, one buffer, `tx_pending`, `pc_mac` | `frame_send`, `eth_tx_wait`, `udp_send`, retries, `eth_tx_recover` | never overwrites a frame the MAC reads; tells the truth about what was sent; ends |
| Replay client (`udp_scan_replay.py`) | socket, session, scan id, attempts, chunk and copy counters | `wait_for_ready`, `send_scan`, `wait_for_process_done`, loop | starts only on READY, believes only its own PROCESS_DONE, ends |
| Range pipeline (`main.c:735-1104`, `frame_buffer.c`) | frame index, flags, spectrum store, matrix, both DMA channels | first pass, second pass, gates | every spectrum belongs to its frame; the angle and the range of a scan rest on the same spectra |
| `mod_fft` (`ip/mod_fft_1.0/hdl`) | two buffers, pointers, state machine, delayed outputs | write side, read side, handshake | packets are whole and in order; no spectrum is skipped |
| Clutter removal, near field and CFAR (`clutter_rem.c`, `pre_filter.c`, `cfar_detect.c`, `main.c:786-1518`) | clutter sum and mean, near-field bins, profiles, hit histograms, the frame's list of peaks | first and second pass over the spectra; detect, sort, merge, compact, validate in place; summary | what is reported comes from this scan's clean frames, past this scan's near field; the list loses and doubles nothing |
| `stream_padder` | state, beat count | pass, pad | every frame leaves with its full length |
| Result upload (`eth_udp.c:1287-1597`) | log, report number | angle maps, text report, summary, copies | one lost datagram costs nothing |
| Host assemblers (`radar_host/reporting.py`, `service.py`) | partial and completed reports and maps, last summary | `add`, `accept`, `route`, expiry | what is shown is whole, of one scan, and shown once |
| Receiver service and its window (`radar_host/service.py`, `radar_monitor.py`) | thread, stop flag, bounded queue, counters; scheduled poll, buttons | start, stop, drain, receive loop, emit, poll | no event is lost unaccounted, the thread outlives a full queue and ends when told to |
| FFT, AoA, range analysis (`fft_proc.c`, `radar_algo.c`, ...) | none | floating-point functions | equals the intended formula |
| UART, configuration and test blocks | shift registers, FIFO | byte in, byte out | overflow is reported |

Hard behaviours: a chunk may be duplicated, delayed, reordered, lost, or belong to an
earlier run; either side may restart between any two steps; the MAC reads the single
transmit buffer while the CPU wants to refill it, and a timed-out send is still
queued; a DMA wait may time out with the transfer still armed; two buffers of
`mod_fft` change hands in adjacent clocks; the host's duplicate filters work by time;
its two threads share a queue that one of them may find full again after making room;
the list of a frame's peaks is rewritten over itself four times, and the near-field
boundary of a scan lives in another file. `PROJECT.json` "hazards" lists them at their
lines with the properties that cover them.

## The modules

| Module | Models | Kind |
|---|---|---|
| `RawCapture` | reassembler and the main loop around it | component |
| `RawCaptureProofs` | its theorems | proofs |
| `ScanDelivery` | what a replay session promises | abstract specification |
| `ScanTransfer` | client + link + RX ring + `RawCapture` | composition, refines `ScanDelivery` |
| `ScanTransferProofs` | its theorems, the refinement among them | proofs |
| `DatagramOut` | what a sender may rely on | abstract specification |
| `GemTx` | transmit path and MAC | component, refines `DatagramOut` |
| `GemTxProofs` | its theorems, the refinement among them | proofs |
| `ReportDelivery` | result upload, link, host assemblers | composition |
| `ReportDeliveryProofs` | its theorems | proofs |
| `EventQueue` | the host's receive thread, GUI thread and event queue | component |
| `EventQueueProofs` | its theorems | proofs |
| `RangePipeline` | both passes, DMA channels, FPGA | component |
| `RangePipelineProofs` | its theorems | proofs |
| `ModFft` | `mod_fft_v1_0_M00_AXIS.v`, clock by clock | component |
| `ModFftProofs` | its theorems | proofs |
| `PeakDetect` | a frame's detector, `cfar_detect.c` | component |
| `RangeDetection` | both passes over a scan's spectra around `PeakDetect`, and its summary | composition |
| `DetectionProofs` | the theorems about both | proofs |
| `MCRawCapture`, `MCScanTransfer`, `MCRangeDetection` | the sets TLC uses | instances |

Some operators come in pairs: next to the translated one stands a variant, marked
"Mutant of", with a plausible bug. They are used only to show that a property
notices the bug (`PROJECT.json` "mutants"); no specification uses them.

### RawCapture

`raw_capture` is the record `raw_capture_t` with the counters that only feed
prints left out. `store` is the receive store as a function from chunk slots to
`<<transfer, slot, body>>`; a transfer is a capture file, named by its whole-scan
CRC-32. A body is intact, damaged (its chunk CRC-32 fails) or aliased (wrong with
a matching chunk CRC-32), so both CRC checks matter. `Frames` are the Ethernet
frames that may arrive, in any order and number. Actions: `Receive` (one poll:
START, chunk, ARP or a foreign frame, with the READY service before and after),
`Poll` (nothing received), and main.c's wait, process, reject, reply and restart.

Capture lengths and offsets are in units of the chunk size, with a last chunk that
may be shorter; slot arithmetic is the code's.

### ScanTransfer

The client runs the captures of `Plan` one after another, as `--loop` or as a new
process after an interruption: START attempts, READY, each chunk with its repeats,
PROCESS_DONE, every wait with its timeout. Frames travel through a lossy link to a
bounded ring that drops what does not fit; status datagrams may be lost. A patient
client paces its frames, so that a board that polls empties the ring in time; one that
processes a scan or replies does not poll, and loses what comes then to every client.
`host.patient` is also a history: it ends when a wait of the client runs out while the
board has yet to answer. The board is `RawCapture`, taken as it is: each client frame
is one of its `Frames`. A board may reset between any two steps. `Delivery` is the
refinement mapping to `ScanDelivery`, in which a scan is offered, processed at most
once, and confirmed only after it has been processed.

`ScanIdsDiffer` says that no two runs of a plan have one scan id. The client draws
its ids from the clock and counts them up, and only an explicit `--scan-id` used
again breaks that: such a START would be answered READY although the board still
holds a capture of other bytes under the id. `FramesAssumption` says that the
board's `Frames` hold all the client sends.

### GemTx

The MAC's side is its `TXEN` bit, whether it is reading the buffer, and whether the
buffer was refilled meanwhile (`torn`). `bd_used` is the USED bit. The CPU's side is
one call at a time with its loop counters: a reply to ARP (queued, not awaited), a
READY (one attempt), a report datagram (attempts with bounded recoveries),
PROCESS_DONE (three copies, unbounded recoveries). The MAC may stall and resume at any
moment. `outcome` and `wire` record what the calls returned and what left the board;
`Outgoing` maps them to `DatagramOut`: what is on the wire is in the order of the
calls, success means sent, a refusal before submission means never sent.
`AllCopiesOut` is about the moment PROCESS_DONE's call returns: all its copies are on
the wire, the last one too.

### ReportDelivery

`left` is the list of datagrams main.c still has to send for the scan: both angle
maps if the angle gate passed, the text chunks, the summary, each with its
copies. `GemTx` justifies its two assumptions: sends keep their order and each
ends within 0.8 s (4 x 2000 x 50 us and recoveries), sent or failed. That
0.8 s is the tick of the model's clock; the two-second window and the
thirty-second expiry of the host are counted in it. The host's assemblers are
functions from keys to gathered pieces.

### EventQueue

Two threads: "rx" (`_receive_loop`) and "gui" (Tk's callbacks `start_receiver`,
`stop_receiver`, `_poll_events`). `_emit` is four steps, because only a queue
operation and the locked counter update are atomic: put, take the oldest, count,
put again (`emitting` is each thread's place in it). `Stopped` is `stop()` after
its join, which returns because the thread has ended or, after a second, because
it is still emitting. Each `start_receiver` makes a new service, so a thread that
was given up only reaches its own old queue; the state is the current service's.
A socket error ends the loop with a warning; a failure to record an event
(`HandleFails`) leaves `_poll_events` before `root.after`, and the window never
polls again. `stop()` itself returns after a second at the latest, by
`join(timeout=1.0)`; the property `ThreadEnds` is about the thread it may have given
up, which ends too.

`Receive` carries one assumption about time: while `start_receiver` has yet to
return, datagrams do not fill the queue (2048 events) before it has put LISTENING.
`shown` and `gone` record what the operator has seen and what a full queue has
cost; they guide no action.

### RangePipeline

`pc` is main's place: wait, arm, send, sending, receiving, store, analyse. A
spectrum is named by the scan and frame it was computed from, so that a stale or
misplaced one is visible. `mm2s` and `s2mm` are the DMA channels as the driver
sees them: a busy channel refuses a transfer, a timed-out wait leaves it armed.
`FpgaTakes` and `FpgaDelivers` move frames through the FPGA, in order, unless it
is `stalled`. It yields one spectrum per frame, or puts its first one out twice,
which is what `ModFft` shows of the RTL: `doubling` is chosen initially. `newest` and
`before` are history: the last frame a transfer was started for, now and when the
scan in hand began.

A scan counts as complete when its first pass ends at exactly `Total` frames, however
many its capture holds (`main.c:1392`). So a longer capture that stalls right there
passes as complete and may yield an angle, from a full array, and one that does not
stall is degraded; no property says otherwise.

### ModFft

Every register of the always blocks is a variable, and `Clock` gives each its
next value from the present ones, as nonblocking assignments do. `Words` stands
for 2048 and `StartCount` for 32. Around it: the CPU of main.c's first pass, which
arms, sends and waits; the FFT, which puts words out at any pace and cannot be
held up (S00_AXIS ties TREADY high); and a DMA channel that takes `Skid` beats
before it is armed and may lower TREADY at any clock, armed or not.

That matters, because the block looks at TREADY when it reads a word but moves TVALID
and TLAST on whether or not the word before was taken (`M00_AXIS:176-188`, `223`). In the
middle of a packet a pause does no harm, and the properties cover every pattern of
pauses there. At three clocks of a packet it does:

- low when the first word is read: the last word of the packet before is offered again;
- low when the last word is read: TLAST comes a word early;
- low one clock later: TVALID drops, and the last word and TLAST are lost.

The block design joins M00_AXIS straight to S_AXIS_S2MM, and the port through which the
DMA writes is shared with the other channel, so nothing in the repository excludes
them; the DMA core and its FIFO, which would have to, are not in it. `disturbed`
remembers whether one has happened, the properties are about runs in which none has,
and a hazard without a property records the rest. `Skid` is at least one, for the first
word, and at most `Words - 3`: with more, the channel would accept most of a repeated
packet unarmed. A board that works implies that the channel takes some beats ahead, and
AXI DMA's buffer is far smaller than a packet.

### PeakDetect

One frame's spectrum after clutter removal. `Begin` subtracts the noise floor and
blanks the near field, and then every round of the loops of `cfar_detect_1d`,
`merge_adjacent_peaks` and `peak_validate` is a step: a bin under test, a pair of
the exchange sort, a pair of the merge, a peak kept or dropped. `peaks` is the C
array up to `num_peaks`; a peak merged away keeps its place with `NoBin` until
`CompactStep`. `insert_sort` and an index are `Kth`; powers and `HalfPower` have the
width of a u32 (`Word`), and the interpolated magnitude, a float, is an exact
fraction. `CFAR_MODE` 1 (OS-CFAR) is what is built: the other modes, and the
sliding `noise_sum` that only they read, are left out, as is `cfar_detect_2d`,
which nothing calls.

### RangeDetection

`StartScan`, `FftFrame` and `ModelClutter` are the first pass: clearing, storing and
accumulating clean frames, then the clutter mean and the near-field boundary,
which `pre_filter.c` keeps from scan to scan. `LoadFrame`, PeakDetect's steps and
`CountPeaks` are the second, one frame at a time, with `SkipSaturated` for flagged
frames; `Summarise` finds the target in the mean profile and tests its
prominence. Spectra come from `Spectra`, one set for each scan; whether a frame
is saturated is a free choice; the first pass may end after any frame.

## What is checked

| Run | Question | Bounds |
|---|---|---|
| `raw_capture` | does any order of frames break the reassembler? | three captures, two with the same scan id, of one, two and two slots with a short last chunk; intact chunks of each, one damaged, one aliased, short chunks of another chunk size; two stations. Two slots suffice for a hole, a duplicate, a short tail and a foreign chunk |
| `scan_transfer` | are only offered scans processed, and confirmed only when processed? | two runs, two losses, one reset, interruptions anywhere, ring of four |
| `scan_transfer_live` | does one loss, or a ring that overflows while the board is busy, cost a patient client a scan? do client and board come to an end? | patient and impatient clients, one loss, one reset, three captures, the last without frames, three START attempts, ring of two, which drops what any client sends to a busy board |
| `gem_tx` | can a frame be torn, or an outcome lie? do sends end? | four sends of any kind, two stalls, two polls and attempts, one recovery |
| `report_delivery` | is what is shown whole, once, and complete? which results survive a board reset? | two scans, a lost datagram, a failed send, a reset anywhere, sends delayed up to a tick each |
| `report_reboot` | (violated) is a report ever assembled from two? | one reset |
| `event_queue` | does the receiver outlive a full queue, is every drop counted, STOPPED the last event, and does nothing hang? | queue of two, drains of one, three datagrams, two starts, one fault: the queue fills, is emptied between two steps of `_emit`, and is full again when STOPPED comes |
| `range_pipeline` | is every scan reported from its own spectra, or at least not more than one frame late? do angle and range rest on the same ones? does the board recover? | arrays of two frames, captures of up to three (one more than the array), scans modulo two, stalls without bound |
| `mod_fft` | are packets whole, which frame's are they, and is every frame answered? | five words, start count two, four frames: two turns of each buffer, the repeated packet in the first; TREADY low at any clock within a packet |
| `mod_fft_order` | (violated) is the packet for a frame its spectrum? | the same |
| `range_detection` | does the list of peaks lose or double any? is what is reported this scan's, past its near field, and prominent? | 18 bins, lists of three peaks, two scans of two frames, eleven kinds of spectra, any frame saturated, the first pass ending anywhere: more peaks than the list has room for, a merge that replaces a peak, the fallback without CFAR, a half power that wraps, a near field that moves and a target at either end of the range all occur |
| `range_detection_width` | (violated) does the width test reject a spike of one bin? | the same |

The type invariants and the inductive invariants are proved, not run; the
inductive ones were put to TLC on the instances above first.

Bounded counters stand for what the code bounds by larger numbers (2000 polls,
four READY attempts); a second iteration of each loop occurs in every run.

### Fairness

- The CPU's only thread and the client's program keep running: weak fairness of
  their next step. Neither can be preempted for ever.
- In `ScanTransfer` a board that keeps sending PROCESS_DONE gets it out in the end,
  since that loop recovers the transmitter (`eth_tx_recover`). `GemTx` shows this
  (`DoneGetsThrough`), provided the MAC eventually stays up. Nothing of the kind is
  assumed of READY: `raw_capture_service_ready` (`eth_udp.c:178-189`) tries again at the
  next poll and recovers nothing. `EveryScanConfirmed` therefore has the premise that no
  wait of the client runs out while the board still owes it an answer; a transmitter
  that hangs before the first READY fails it, and `ClientTerminates` says what is left.
- In `RangePipeline` an FPGA that is not stalled works; stalling is not fair, and
  `RecoversFromStall` assumes only that it eventually stops stalling.
- In `ModFft` the clock runs, and the FFT puts out what it holds. That TREADY comes up
  again and again while the channel is armed is a premise of `EveryFrameAnswered`.
- In `RangeDetection` the thread goes on: it never waits between the two passes.
- In `EventQueue` both threads run and a scheduled poll is served.
- Nothing is assumed of the network, the operator, resets or faults.

## What is proved

All theorems hold for every value of the constants allowed by the assumptions
named in the modules.

**RawCaptureProofs.** `IInv` is inductive. Its core is `LengthBound`: the received
length is at most the sum of the marked slots' lengths, hence smaller than the
total while any slot is unmarked; together with `MapMatches` (a marked slot holds
bytes of the capture in hand that passed their chunk CRC) it makes the comparison
of two lengths (`eth_udp.c:1035`) imply that every slot was written by this
capture (`FullMap`), and the whole-scan CRC excludes aliased bodies. `TypeOK`,
`MapMatchesStore`, `PacketsCounted`, `ReceivedScanIntact`, `DoneNamesScan`,
`ReplyConsistent` follow, and the action property `ProgressKept`. `WaitsForAChunk`
(`NeverFullAndOpen`) uses the same sum the other way: slots that are all full add up to
the total, so the capture completes or, when its CRC fails, is closed. The assumption is
`RawCaptureAssumption`: positive chunk and store sizes and well-formed frames; the
whole-scan CRC-32 is taken to identify a capture.

**GemTxProofs.** `IInv` says who owns the buffer at each moment and what the
send under way has achieved. From it: `WireIntact` (no torn frame) and
`ImplementsTransport`, the refinement of `DatagramOut`, initial states and every
step. `Counted` adds, for `AllCopiesOut`, that while the wait sees the descriptor
released one copy more is on the wire than the counter of PROCESS_DONE says; the call
returns when the counter has reached all copies.

**ReportDeliveryProofs.** What keeps two scans apart is the identifier of a datagram.
`Genuine`: it names the scan of its data, of a text only until the board restarts,
since report numbers count scans until then (`Numbered`). `Filed`: an assembler keeps
pieces under the scan they are of, whatever has expired or started over. `NeverMixed`
(`ShownIsWhole`) follows for every number of scans, chunks, losses, failures and
resets and every window; `report_reboot` shows why texts are excepted. The other three
theorems rest on three more inductive invariants; all start from the shape of what
main.c sends for one scan (`UploadShape`): maps first, summaries last, items one after
the other, pieces in order, with the copies next to each other.

- `NothingTwice` (`ShownOnce`), by `OnceInv`. Every part of the way keeps the order
  of datagrams (`InOrder`), so a piece that an assembler holds or has shown is never
  behind what is to come, but for its copies; and those are at most two places
  behind it in the line (`CopiesClose`), hence at most two ticks (`Recent`). A report
  that is shown either has a piece that will not be seen again (`Gone`) or is still
  known to be completed as long as copies are under way (`Remembered`); a shown
  summary is still in the filter when its copies come (`SummaryPast`).
  The theorem assumes `Window > 2` and `Expiry > 2`: two ticks are at most 1.6 s, the
  code's window is 2 s and its expiry 30 s.
- `ReadInTime` (`ArrivedIsShown`), by `GatherInv`. The datagrams of an item
  follow one another, and the one that was begun goes on with the next (`Grouped`,
  `Begun`), so only lost datagrams, each costing a tick at most, make an assembler
  wait (`OnTime`). As long as they cannot outlast its expiry (`Few`, which counts every
  loss there has been), whatever arrived of an unfinished item is in the socket or
  held (`Gathering`), and what is held has never all pieces (`PartialOK`).
  `Few` is a premise of the property, not of the theorem: once enough losses come
  between two chunks, the first has expired, and the property is false.
  `NothingForgotten` says the same of a link with `MaxLost + 1 < Expiry`; the code's
  30 s are 37 ticks.
- `OneLossHarmless` (`OneLossIsNothing`), by `LossInv` on top of `GatherInv`: until
  something is lost, every datagram in the line has arrived before or is followed by
  another copy (`Spare`), so one loss leaves what will have arrived in the end
  unchanged (`SentWhole`). It assumes `Expiry > 2`, nothing of `MaxLost`: the property
  speaks of at most one loss.

**RangePipelineProofs.** `IInv`: as long as no spectrum has been put out twice, at
most one frame is on its way to the FPGA or in it, and while it is, the receive
channel is armed, so that no other frame can be sent; it is the frame in hand if main
still waits (`Matched`). That is why a late spectrum can never be taken for another
frame's: `dma_recv_start` refuses the armed channel, and the pass breaks. Once a
spectrum has been put out twice, as by the present RTL, that part says nothing; what
holds then too is `AngleAndRangeAgree` (`StoresAgree`), that the valid elements of the
array are the clean frames with a place in it, each with the spectrum the second pass
reads. `ReportedFromOwnFrames` (`ResultsFresh`) speaks of an FPGA that yields one
spectrum per frame (`doubling = "never"`), which is what main.c relies on and what
`ModFft` refutes for the present RTL. `NeverTwoBehind` says what is left without it:
`Lagged` compares the frames under way with those main expects and keeps the
difference at zero or one, because a spectrum is put out twice once, and a transfer
that is refused can only lower it. For frame 0 the frame before is the last one sent
before the scan (`before`).

**ModFftProofs.** The invariant counts. `W` frames are written and the next packet is
frame `D`'s; while a packet is sent `W` is one or two ahead of `D`, and from that
follow which buffer is read, what both flags say, and that the write side never
enters the buffer being read. `Answered` gives the sequence of packets exactly:
the first frame's twice, then every frame's once (`PacketsInOrder`); `PacketsAreWhole`
follows. The invariant has two halves. `Base`, the types and what is written where,
holds for every TREADY; `Orderly`, the read side, as long as the DMA was ready at the
ends of each packet (`~disturbed`), and both theorems have that premise. They hold for
every packet length, every pattern of pauses within a packet, and every `Skid` from
one to `Words - 3`.

**ScanTransferProofs.** Frames in the link keep their order, so they get a rank:
START of a run before its chunks, those before START of the next run. `TInv` says
that the ring is sorted by rank, lies below what the client sends next and not
below the session the board is armed for, and that a client past READY has been
answered for its own run (`Seen`). A chunk that opens a capture is therefore of
the run the board is armed for; and once a run's scan has been processed, no
START of that run is left anywhere to arm the board again (`Gone`).
`OnlyOfferedScans`, `ReadyMeansPrepared` and the refinement of `ScanDelivery` follow.
`BoardIsRawCapture` carries every theorem of `RawCaptureProofs` over to a session.
The assumptions are `ScanIdsDiffer`, `FramesAssumption` and those of the two modules.

**DetectionProofs.** The invariant follows the list of peaks through its loops: what
`out` holds has been taken from the part of `peaks` already visited, no bin twice;
each entry is a bin that crossed the threshold, with its power (`PeaksReal`). A merge
replaces a peak only by a stronger neighbour, so the strongest of a neighbourhood
stays (`LocalPeaksSurvive`); a list without duplicates adds at most one to a bin
(`OneHitPerFrame`). A second invariant, `SumInv`, says what the accumulators hold
between any two steps of both passes: the sums over the clean frames visited so far of
this scan, whatever the scan before left there (`SumsHold`). At the end of the second
pass the profile in memory is therefore the one that the property defines from the
stored spectra at once (`ScanProfile`), and the near-field boundary in force the one
of this scan's own mean; `TargetOfThisScan`, `TargetStandsOut` (the median of the
neighbourhood has at least half of it at or below) and `NothingFromNearField` follow.
Laws of sums over sets, which would need induction, are proved by taking a smallest
set that breaks the law; adding one term is the only property of the fold they use.

**EventQueueProofs.** The second put of `_emit` cannot fail while the service
holds its thread. `RoomAgain` says why: a thread between making room and using it
is alone with the queue, since `stop()` emits only after the receive thread's end
(or gives it up) and `start()` before the queue can be full. `TypeOK`,
`ReceiverSurvives` and `DropsCounted` follow; the last needs that the events a
full queue has cost are finite and grow by one between two counts. `StoppedIsLast`
rests on `Final`: nothing is behind STOPPED in the queue, the drained batch or what
has been shown, because its thread emits it with the receive thread gone.

Every safety invariant and every action property of the passing runs is proved,
and so are both refinements. Only model-checked are the
liveness properties, because the proof system handles neither fairness nor
ENABLED: `EveryScanConfirmed`, `ClientTerminates`, `BoardReturns`, `BoundedSendsReturn`,
`DoneGetsThrough`, `RecoversFromStall`, `EveryFrameAnswered`, `ThreadEnds`,
`NoEventStuck` and `ScanEnds`. The three violated properties are refuted by TLC.

## Findings

1. `mod_fft` sends the first spectrum after reset twice (`mod_fft_order`). A buffer's
   full flag is cleared one clock after the state machine has returned to IDLE and
   looked at it (`mod_fft_v1_0_M00_AXIS.v:123`, `253-258`). From then on the packet
   taken for each frame is the spectrum of the frame before, never of one further back
   (`PacketOrder`), also when the DMA is ready in every clock: element (r, c) of the
   array holds its left neighbour's data, and element (0, 0) the last element of the
   previous scan.
2. A report can be assembled from pieces of two after a board reset
   (`report_reboot`).
3. `peak_validate` measures a peak's width between the first bins that are *not*
   above half power (`cfar_detect.c:233-239`), one more than its bins. A spike of a
   single bin has width 2 and passes `VALIDATE_MIN_WIDTH`, which
   `radar_config.h:193` documents as rejecting it (`range_detection_width`).

## What is not modelled

`PROJECT.json` "components" gives the reason for every part. In short: numeric
code is left open where control does not depend on it; one-time initialisation,
register drivers, formatting, files and widgets have no interleavings; vendored
and generated cores are outside the repository's own logic. Of the operator's
window only the use of the receiver is modelled, not which heatmap it draws. The
Dropped count may exceed the events lost: when the GUI empties the queue between
queue.Full and the take, nothing is taken and the drop is counted all the same.

## Plan

Done, in the order of their weight for a scan: `RawCapture` with proofs,
`ScanTransfer` with the proof of its refinement, `GemTx` with proofs, `ReportDelivery`
with proofs, `RangePipeline` with proofs, `ModFft` with proofs, `EventQueue` with
proofs, `PeakDetect` and `RangeDetection` with proofs. Next:

1. `StreamPadder`, composed with `ModFft`'s environment: every frame leaves with
   `TOTAL_BEATS` beats and TLAST on the last, refining the one-frame-in,
   one-frame-out FPGA of `RangePipeline`. Theorem: the beat count invariant.
2. The receive descriptor ring of the MAC driver, with wrap and recycling.
3. The in-place reordering (`main.c:700-722`) and the column and row copies of
   `frame_buffer.c` against reference definitions.
4. `BkUart`: the FIFO at its limit, the pending transmit register.
