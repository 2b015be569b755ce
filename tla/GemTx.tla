--------------------------------- MODULE GemTx ---------------------------------
(***************************************************************************)
(* The firmware's transmit path (eth_udp.c): one descriptor and one buffer *)
(* shared by the CPU, which fills them, and the Ethernet MAC (GEM), which  *)
(* reads them concurrently and hands them back by setting the descriptor's *)
(* USED bit.  Its callers, one at a time, are                              *)
(*   arp      arp_reply_to_request: frame_send without waiting             *)
(*   ready    raw_capture_service_ready: one udp_send                      *)
(*   report   udp_send_retry: log, angle map and summary datagrams         *)
(*   done     eth_capture_send_process_done: three copies, until sent      *)
(* The MAC may stall (no TX clock, a flow-control pause, a hung DMA) and   *)
(* resume at any moment.  The waits of the code (2000 polls or attempts,   *)
(* 100 ms) are far longer than a frame's 0.1 ms on the wire, so that they  *)
(* only run out on a MAC that is stalled.                                  *)
(***************************************************************************)
EXTENDS Naturals, Sequences, FiniteSets

CONSTANTS
  WaitPolls,     \* TX_WAIT_ATTEMPTS of eth_tx_wait
  Attempts,      \* TX_WAIT_ATTEMPTS of the retrying callers
  RecoveryMax,   \* TX_RECOVERY_MAX
  DoneCopies,    \* the copies of PROCESS_DONE
  MaxCalls,      \* bound: sends the firmware makes
  MaxStalls      \* bound: times the MAC stalls

ASSUME GemTxAssumption ==
  /\ {WaitPolls, Attempts, DoneCopies} \subseteq Nat \ {0}
  /\ {RecoveryMax, MaxCalls, MaxStalls} \subseteq Nat

VARIABLES
  bd_used,          \* the USED bit of tx_bd[0]: the CPU owns the buffer
  tx_buf,           \* whose datagram tx_buf[0] holds, by call; 0 is none
  tx_pending,       \* a frame was submitted and not yet seen released
  pc_mac_resolved,  \* udp_send has an address to send to
  gem,              \* the MAC: whether TXEN is set, it is reading tx_buf, and
                    \* tx_buf was refilled meanwhile
  stalled,          \* the MAC makes no progress
  stalls,           \* how often it has stalled
  call,             \* the send under way and its loop counters
  outcome,          \* what each send so far has returned, or "open"
  wire              \* the frames that went out

macVars == <<gem, stalled, stalls, wire>>
vars == <<bd_used, tx_buf, tx_pending, pc_mac_resolved, gem, stalled, stalls,
          call, outcome, wire>>

Kinds == {"arp", "ready", "report", "done"}
Number == Len(outcome)
Idle == [kind |-> "arp", pc |-> "idle", polls |-> 0, attempt |-> 0, round |-> 0, copy |-> 0]

Init ==
  /\ bd_used = TRUE /\ tx_buf = 0 /\ tx_pending = FALSE
  /\ pc_mac_resolved = FALSE
  /\ gem = [enabled |-> TRUE, reading |-> FALSE, torn |-> FALSE]
  /\ stalled = FALSE /\ stalls = 0
  /\ call = Idle /\ outcome = <<>> /\ wire = <<>>

-----------------------------------------------------------------------------
(***************************************************************************)
(* What the callers make of a udp_send or frame_send that has returned.    *)
(***************************************************************************)
\* The send is over.
Finish(status) ==
  /\ call' = Idle
  /\ outcome' = [outcome EXCEPT ![Number] = status]

Goto(c) == call' = c /\ UNCHANGED outcome

\* The frame was sent; PROCESS_DONE has copies to go.
Succeeded ==
  IF call.kind = "done" /\ call.copy + 1 < DoneCopies
  THEN Goto([call EXCEPT !.pc = "send", !.copy = @ + 1, !.attempt = 0])
  ELSE Finish("sent")

\* Mutant of Retries: the last copy of PROCESS_DONE is not tried again.
RetriesButLast ==
  call.kind = "report" \/ (call.kind = "done" /\ call.copy + 1 < DoneCopies)

Retries == call.kind \in {"report", "done"}

LastAttempt == call.attempt + 1 = Attempts

\* The MAC will release the descriptor well within the waits of the code.
MacWorks == gem.enabled /\ ~stalled /\ ~bd_used

\* One attempt failed.  status is what a caller that does not retry gets.
Failed(status) ==
  \/ /\ ~Retries
     /\ Finish(status)
  \/ /\ Retries /\ ~LastAttempt
     /\ Goto([call EXCEPT !.pc = "send", !.attempt = @ + 1])
  \/ /\ Retries /\ LastAttempt
     /\ ~MacWorks \/ ~pc_mac_resolved
     /\ IF call.kind = "report" /\ call.round = RecoveryMax
        THEN Finish("failed")
        ELSE Goto([call EXCEPT !.pc = "recover"])

-----------------------------------------------------------------------------
(***************************************************************************)
(* The CPU                                                                 *)
(***************************************************************************)
Begin(kind) ==
  /\ call.pc = "idle" /\ Number < MaxCalls
  /\ call' = [Idle EXCEPT !.kind = kind, !.pc = "send"]
  /\ outcome' = Append(outcome, "open")
  /\ pc_mac_resolved' = (pc_mac_resolved \/ kind = "arp")
  /\ UNCHANGED <<bd_used, tx_buf, tx_pending, macVars>>

\* eth_capture_poll learns the PC's address from a UDP frame.
LearnMac ==
  /\ call.pc = "idle"
  /\ pc_mac_resolved' = TRUE
  /\ UNCHANGED <<bd_used, tx_buf, tx_pending, macVars, call, outcome>>

\* udp_send and udp_send_retry without an address.
NoAddress ==
  /\ call.pc = "send" /\ ~pc_mac_resolved
  /\ IF call.kind = "report" THEN Finish("refused") ELSE Failed("refused")
  /\ UNCHANGED <<bd_used, tx_buf, tx_pending, pc_mac_resolved, macVars>>

\* frame_send's test: the MAC has released the descriptor.
CanFill == bd_used

\* frame_send while the MAC owns the descriptor: -6.
FrameBusy ==
  /\ call.pc = "send" /\ pc_mac_resolved
  /\ ~CanFill
  /\ Failed("refused")
  /\ UNCHANGED <<bd_used, tx_buf, tx_pending, pc_mac_resolved, macVars>>

\* frame_send: fill the buffer, give the descriptor to the MAC and start it.
FrameSend ==
  /\ call.pc = "send" /\ pc_mac_resolved
  /\ CanFill
  /\ tx_buf' = Number
  /\ gem' = [gem EXCEPT !.torn = @ \/ gem.reading]
  /\ bd_used' = FALSE /\ tx_pending' = TRUE
  /\ IF call.kind = "arp" THEN Finish("queued")
     ELSE Goto([call EXCEPT !.pc = "wait", !.polls = 0])
  /\ UNCHANGED <<pc_mac_resolved, stalled, stalls, wire>>

\* Mutant of Released: the wait ends when the flag says so.
ReleasedLate == bd_used \/ call.polls + 1 = WaitPolls

\* eth_tx_wait sees the descriptor released.
Released == bd_used

TxWaitDone ==
  /\ call.pc = "wait" /\ Released
  /\ tx_pending' = FALSE
  /\ Succeeded
  /\ UNCHANGED <<bd_used, tx_buf, pc_mac_resolved, macVars>>

\* eth_tx_wait polls once more, or gives up and leaves the frame queued.
TxWaitPoll ==
  /\ call.pc = "wait" /\ ~Released
  /\ \/ /\ call.polls + 1 < WaitPolls
        /\ Goto([call EXCEPT !.polls = @ + 1])
     \/ /\ call.polls + 1 = WaitPolls /\ ~MacWorks
        /\ Failed("failed")
  /\ UNCHANGED <<bd_used, tx_buf, tx_pending, pc_mac_resolved, macVars>>

\* Mutants of RestartMac: the transmitter is not stopped first; it is not
\* enabled again.
RestartMacRunning == UNCHANGED gem
RestartMacOff == gem' = [enabled |-> FALSE, reading |-> FALSE, torn |-> FALSE]

\* eth_tx_recover clears TXEN, which makes the MAC drop what it is sending, and
\* sets it again.
RestartMac == gem' = [enabled |-> TRUE, reading |-> FALSE, torn |-> FALSE]

\* Mutant of AfterRecover: the recoveries are not counted.
AfterRecoverForever(c) == [c EXCEPT !.pc = "send", !.attempt = 0]

\* Only udp_send_retry counts its recoveries.
AfterRecover(c) ==
  [c EXCEPT !.pc = "send", !.attempt = 0, !.round = IF c.kind = "report" THEN @ + 1 ELSE @]

\* eth_tx_recover: take every descriptor back and restart the queue.
Recover ==
  /\ call.pc = "recover"
  /\ RestartMac
  /\ bd_used' = TRUE /\ tx_pending' = FALSE
  /\ Goto(AfterRecover(call))
  /\ UNCHANGED <<tx_buf, pc_mac_resolved, stalled, stalls, wire>>

\* The send under way goes on.
SendStep == NoAddress \/ FrameBusy \/ FrameSend \/ TxWaitDone \/ TxWaitPoll \/ Recover

-----------------------------------------------------------------------------
(***************************************************************************)
(* The MAC                                                                 *)
(***************************************************************************)
GemFetch ==
  /\ MacWorks /\ ~gem.reading
  /\ gem' = [gem EXCEPT !.reading = TRUE, !.torn = FALSE]
  /\ UNCHANGED <<bd_used, tx_buf, tx_pending, pc_mac_resolved, stalled, stalls,
                 call, outcome, wire>>

GemRelease ==
  /\ ~stalled /\ gem.reading
  /\ gem' = [gem EXCEPT !.reading = FALSE]
  /\ wire' = Append(wire, [call |-> tx_buf, torn |-> gem.torn])
  /\ bd_used' = TRUE
  /\ UNCHANGED <<tx_buf, tx_pending, pc_mac_resolved, stalled, stalls, call, outcome>>

MacStalls ==
  /\ ~stalled /\ stalls < MaxStalls
  /\ stalled' = TRUE /\ stalls' = stalls + 1
  /\ UNCHANGED <<bd_used, tx_buf, tx_pending, pc_mac_resolved, gem, call, outcome, wire>>

MacResumes ==
  /\ stalled
  /\ stalled' = FALSE
  /\ UNCHANGED <<bd_used, tx_buf, tx_pending, pc_mac_resolved, gem, stalls, call,
                 outcome, wire>>

Gem == GemFetch \/ GemRelease

Next ==
  \/ \E k \in Kinds : Begin(k)
  \/ LearnMac \/ SendStep \/ Gem \/ MacStalls \/ MacResumes

Spec == Init /\ [][Next]_vars

\* The CPU runs on, and a MAC that is not stalled sends what it owns.
Fairness == WF_vars(SendStep) /\ WF_vars(Gem)
FairSpec == Spec /\ Fairness

-----------------------------------------------------------------------------
(***************************************************************************)
(* Properties                                                              *)
(***************************************************************************)
CallType == [kind : Kinds, pc : {"idle", "send", "wait", "recover"},
             polls : Nat, attempt : Nat, round : Nat, copy : Nat]
GemType == [enabled : BOOLEAN, reading : BOOLEAN, torn : BOOLEAN]
Results == {"open", "sent", "refused", "queued", "failed"}
Frame == [call : Nat, torn : BOOLEAN]

\* Types; the loop counters never pass the limits of their loops.
TypeOK ==
  /\ bd_used \in BOOLEAN /\ tx_pending \in BOOLEAN
  /\ pc_mac_resolved \in BOOLEAN /\ stalled \in BOOLEAN
  /\ tx_buf \in 0 .. Number
  /\ gem \in GemType
  /\ stalls \in Nat
  /\ call \in CallType
  /\ call.polls < WaitPolls /\ call.attempt < Attempts
  /\ call.round <= RecoveryMax /\ call.copy < DoneCopies
  /\ outcome \in Seq(Results)
  /\ wire \in Seq(Frame)

\* No frame on the wire mixes two fillings of the buffer: whatever times out,
\* is retried or recovered, the CPU fills it only while the MAC is not reading
\* (frame_send's USED test, eth_tx_recover).
WireIntact == \A i \in 1 .. Len(wire) : ~wire[i].torn

\* eth_capture_send_process_done only returns when all its copies, the last
\* one too, have gone out on the wire, whatever timed out, was left queued or
\* was dropped by a recovery on the way.
TimesOut(n) == Cardinality({i \in 1 .. Len(wire) : wire[i].call = n})
AllCopiesOut ==
  [][(call.kind = "done" /\ call.pc # "idle" /\ call'.pc = "idle")
     => TimesOut(Number) >= DoneCopies]_vars

\* What DatagramOut promises: order, and truthful results.  A READY that timed
\* out and is still queued, for one, goes out before any later datagram.
Outgoing == [i \in 1 .. Len(wire) |-> wire[i].call]
Transport == INSTANCE DatagramOut WITH out <- Outgoing
ImplementsTransport == Transport!Spec

\* Every send but PROCESS_DONE comes to an end on its own, even on a MAC that
\* never moves again (the bounded loops of eth_tx_wait and udp_send_retry).
BoundedSendsReturn ==
  (call.pc # "idle" /\ call.kind # "done") ~> (call.pc = "idle")

\* PROCESS_DONE is sent in the end by a MAC that stays up, whatever state an
\* earlier stall or timeout left the descriptor in (eth_tx_recover).
DoneGetsThrough ==
  <>[](~stalled /\ pc_mac_resolved) => []((call.pc # "idle") ~> (call.pc = "idle"))

-----------------------------------------------------------------------------
(***************************************************************************)
(* The inductive invariant behind WireIntact and ImplementsTransport       *)
(* (GemTxProofs).                                                          *)
(***************************************************************************)
\* The MAC reads only what it owns.
Ownership == ~gem.torn /\ (gem.reading => ~bd_used)

\* The last send, and no other, is open while a send is under way.
OneOpen ==
  /\ call.pc # "idle" => Number > 0
  /\ \A n \in 1 .. Number : outcome[n] = "open" <=> (n = Number /\ call.pc # "idle")

\* The buffer holds the latest datagram that was ever queued, and one that is
\* still queued belongs to a send that did not claim success.
Latest ==
  /\ \A i \in 1 .. Len(wire) : wire[i].call <= tx_buf
  /\ ~bd_used => tx_buf > 0 /\ outcome[tx_buf] \in {"open", "queued", "failed"}
  /\ ~pc_mac_resolved => tx_buf = 0

\* What the send under way has achieved.
Progress ==
  /\ call.pc = "wait" =>
       /\ tx_buf = Number
       /\ bd_used => \E i \in 1 .. Len(wire) : wire[i].call = Number
  /\ call.pc = "send" /\ ~Retries => tx_buf < Number
  /\ call.pc = "recover" =>
       Retries /\ (call.kind = "report" => call.round < RecoveryMax)

IInv == TypeOK /\ WireIntact /\ Ownership /\ OneOpen /\ Latest /\ Progress
===============================================================================
