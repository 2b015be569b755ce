-------------------------- MODULE ScanTransferProofs --------------------------
(***************************************************************************)
(* Proofs about ScanTransfer, for every plan without a repeated scan id,   *)
(* every chunk size, ring, retry count, and bound on losses and resets.    *)
(*                                                                         *)
(* The argument.  The link keeps the order of frames.  Rank numbers them:  *)
(* START of run r before its chunks, those before START of run r + 1.  The *)
(* frames in the ring are in the order of their ranks, below what the      *)
(* client sends next and not below the session the board is armed for.     *)
(* A client sends chunks of a run only after a READY of that run, and then *)
(* the board is armed for that run or unarmed (Seen).  So a chunk that     *)
(* opens a capture is of the very run the board is armed for, and once a   *)
(* run's scan has been processed no START of that run is left anywhere to  *)
(* arm the board for it again.                                             *)
(***************************************************************************)
EXTENDS ScanTransfer, RawCaptureProofs

-----------------------------------------------------------------------------
(***************************************************************************)
(* The inductive invariant                                                 *)
(***************************************************************************)
\* The run with the given scan id, and those of a frame and of the board's
\* session.
RunOf(id) == CHOOSE r \in 1 .. Len(Plan) : Plan[r].id = id
FrameRun(f) == RunOf(IF f.kind = "start" THEN f.session ELSE f.scan_id)
BoardRun == RunOf(raw_capture.session_id)

\* f is a frame of run r.
OfRun(f, r) ==
  \/ f.kind = "start" /\ f.session = Plan[r].id
  \/ f.kind = "chunk" /\ f.scan_id = Plan[r].id /\ f.scan_crc32 = Plan[r].data

Rank(f) == 2 * FrameRun(f) + (IF f.kind = "start" THEN 0 ELSE 1)

\* No chunk of the run has been sent.
Early ==
  \/ host.pc \in {"start", "await_ready"}
  \/ host.pc = "send" /\ host.chunk = 0 /\ host.copy = 0
HostRank == 2 * host.run + (IF Early THEN 0 ELSE 1)

\* A START of run q has reached the board, or none has since its last reset,
\* and none of an earlier run will.
Seen(q) ==
  /\ raw_capture.armed => q <= BoardRun
  /\ \A i \in 1 .. Len(ring) : ring[i].kind = "start" => q <= FrameRun(ring[i])

\* Run r is over for the board.
Gone(r) ==
  /\ 2 * r + 1 <= HostRank
  /\ \A i \in 1 .. Len(ring) : 2 * r + 1 <= Rank(ring[i])
  /\ raw_capture.armed /\ phase \in {"wait", "received"} => r < BoardRun

Handled(s) == \E i \in 1 .. Len(handled) : handled[i] = s

HostOK ==
  /\ host \in Clients
  /\ host.chunk < ChunkCount(Current)
  /\ host.copy < Repeats(host.chunk)
  /\ host.pc \in {"send", "await_done"} => Seen(host.run)
  /\ host.pc # "start" => host.attempt # 0

RingOK ==
  /\ ring \in Seq(Frames)
  /\ \A i \in 1 .. Len(ring) :
       /\ \E r \in 1 .. host.run : OfRun(ring[i], r)
       /\ Rank(ring[i]) <= HostRank
       /\ ring[i].kind = "chunk" => Seen(FrameRun(ring[i]))
  /\ \A i, j \in 1 .. Len(ring) : i < j => Rank(ring[i]) <= Rank(ring[j])

BoardOK ==
  /\ raw_capture.ready_pending => raw_capture.armed
  /\ raw_capture.armed =>
       /\ BoardRun \in 1 .. host.run /\ raw_capture.session_id = Plan[BoardRun].id
       /\ \A i \in 1 .. Len(ring) : 2 * BoardRun <= Rank(ring[i])
  /\ raw_capture.active =>
       /\ raw_capture.armed
       /\ raw_capture.scan_id = Plan[BoardRun].id
       /\ 2 * BoardRun + 1 <= HostRank
       /\ \A i \in 1 .. Len(ring) : 2 * BoardRun + 1 <= Rank(ring[i])
       /\ phase = "wait" => raw_capture.expected_crc32 = Plan[BoardRun].data
  /\ phase # "wait" => raw_capture.active
  /\ phase = "received" => HeldTransfer = Plan[BoardRun].data
  /\ phase = "reply" => Handled(Plan[BoardRun])

HandledOK ==
  /\ handled \in Seq([data : Transfers, id : Nat])
  /\ \A i \in 1 .. Len(handled) : \E r \in 1 .. host.run : handled[i] = Plan[r] /\ Gone(r)
  /\ \A i, j \in 1 .. Len(handled) : handled[i] = handled[j] => i = j

InboxOK ==
  /\ inbox \subseteq StatusDatagrams
  /\ \A m \in inbox :
       \E q \in 1 .. host.run :
         /\ m.session = Plan[q].id
         /\ m.status = "READY" => Seen(q)
         /\ m.status = "PROCESS_DONE" => Handled(Plan[q])

PreparedOK ==
  (/\ reboots = 0 /\ Early
   /\ host.pc = "send" \/ \E m \in inbox : m.status = "READY" /\ m.session = Current.id) =>
    raw_capture.armed /\ raw_capture.session_id = Current.id

ConfirmedOK == \A s \in confirmed : \E r \in 1 .. host.run : s = Plan[r] /\ Handled(s)

LinkOK == Len(ring) <= RingSize /\ lost \in 0 .. MaxLost /\ reboots \in 0 .. MaxReboots

TInv ==
  /\ IInv
  /\ HostOK
  /\ RingOK
  /\ BoardOK
  /\ HandledOK
  /\ InboxOK
  /\ PreparedOK
  /\ ConfirmedOK
  /\ LinkOK

-----------------------------------------------------------------------------
(***************************************************************************)
(* Plans and frames                                                        *)
(***************************************************************************)
LEMMA Constants ==
  /\ Len(Plan) \in Nat \ {0}
  /\ ChunkSize \in Nat \ {0} /\ ReadyRetries \in Nat \ {0}
  /\ ChunkRepeats \in Nat \ {0} /\ FirstRepeats \in Nat \ {0} /\ RingSize \in Nat \ {0}
  /\ MaxLost \in Nat /\ MaxReboots \in Nat
BY ScanTransferAssumption

LEMMA PlanScan ==
  ASSUME NEW r \in 1 .. Len(Plan)
  PROVE  /\ Plan[r] \in [data : Transfers, id : Nat]
         /\ ChunkCount(Plan[r]) \in Nat \ {0}
<1> DEFINE S == [data : Transfers, id : Nat]
<1>0. Plan \in Seq(S) BY ScanTransferAssumption
<1> HIDE DEF S
<1>a. Plan[r] \in S BY <1>0
<1>1. Plan[r] \in [data : Transfers, id : Nat] BY <1>a DEF S
<1>2. TotalLen[Plan[r].data] \in Nat \ {0} BY <1>1, ScanTransferAssumption
<1> QED BY <1>1, <1>2, Constants, CeilDivProps DEF ChunkCount

\* A scan id names its run.
LEMMA RunOfPlan ==
  ASSUME NEW r \in 1 .. Len(Plan)
  PROVE  RunOf(Plan[r].id) = r
<1>1. \A q \in 1 .. Len(Plan) : Plan[q].id = Plan[r].id => q = r BY ScanIdsDiffer
<1>2. \E q \in 1 .. Len(Plan) : Plan[q].id = Plan[r].id OBVIOUS
<1> DEFINE q == RunOf(Plan[r].id)
<1>3. q \in 1 .. Len(Plan) /\ Plan[q].id = Plan[r].id BY <1>2, Zenon DEF RunOf
<1> HIDE DEF q
<1>4. q = r BY <1>1, <1>3
<1> QED BY <1>4 DEF q

LEMMA FrameOfRun ==
  ASSUME NEW r \in 1 .. Len(Plan), NEW f, OfRun(f, r)
  PROVE  /\ FrameRun(f) = r
         /\ f.kind = "start" => Rank(f) = 2 * r
         /\ f.kind = "chunk" => Rank(f) = 2 * r + 1
         /\ f.kind \in {"start", "chunk"}
<1>1. FrameRun(f) = r BY RunOfPlan DEF FrameRun, OfRun
<1>2. f.kind \in {"start", "chunk"} BY DEF OfRun
<1> QED BY <1>1, <1>2 DEF Rank

LEMMA StartFrameProps ==
  ASSUME NEW r \in 1 .. Len(Plan)
  PROVE  StartFrame(r) \in Frames /\ StartFrame(r).kind = "start" /\ OfRun(StartFrame(r), r)
<1>1. StartFrame(r) \in Frames BY FramesAssumption
<1> QED BY <1>1 DEF StartFrame, OfRun

LEMMA ChunkFrameProps ==
  ASSUME NEW r \in 1 .. Len(Plan), NEW i \in Nat, i < ChunkCount(Plan[r])
  PROVE  /\ ChunkFrame(Plan[r], i) \in Frames
         /\ ChunkFrame(Plan[r], i).kind = "chunk"
         /\ OfRun(ChunkFrame(Plan[r], i), r)
<1>1. i \in 0 .. ChunkCount(Plan[r]) - 1 BY PlanScan
<1>2. ChunkFrame(Plan[r], i) \in Frames BY <1>1, FramesAssumption
<1> QED BY <1>2 DEF ChunkFrame, OfRun

LEMMA RepeatsType == ASSUME NEW i \in Nat PROVE Repeats(i) \in Nat \ {0}
BY Constants DEF Repeats

\* A run that starts anew, and one that ends.
LEMMA NewRunProps ==
  ASSUME NEW p \in BOOLEAN, NEW r \in 1 .. Len(Plan)
  PROVE  LET h == NewRun(p, r) IN
         /\ h \in Clients /\ h.run = r /\ h.pc = "start"
         /\ h.chunk < ChunkCount(Plan[r]) /\ h.copy < Repeats(h.chunk)
<1> DEFINE h == NewRun(p, r)
<1>1. /\ h.run = r /\ h.pc = "start" /\ h.chunk = 0 /\ h.copy = 0 BY DEF NewRun
<1>2. h \in Clients BY Constants DEF NewRun, Clients
<1>3. 0 < ChunkCount(Plan[r]) BY PlanScan
<1>4. 0 < Repeats(0) BY RepeatsType
<1> HIDE DEF h
<1> QED BY <1>1, <1>2, <1>3, <1>4 DEF h

-----------------------------------------------------------------------------
(***************************************************************************)
(* Steps of the client                                                     *)
(***************************************************************************)
\* A step in which the client moves on, and may put a frame f into the ring.
LEMMA HostStep ==
  ASSUME TInv, UNCHANGED boardVars,
         host' \in Clients, host'.chunk < ChunkCount(Plan[host'.run]),
         host'.copy < Repeats(host'.chunk),
         host.run <= host'.run, HostRank <= HostRank',
         host'.pc # "start" => host'.attempt # 0,
         host'.pc \in {"send", "await_done"} => Seen(host'.run) /\ host'.run = host.run,
         NEW f,
         \/ ring' = ring
         \/ /\ ring' = Append(ring, f) /\ Len(ring) < RingSize
            /\ f \in Frames /\ OfRun(f, host.run) /\ host'.run = host.run
            /\ HostRank <= Rank(f) /\ Rank(f) <= HostRank'
            /\ f.kind = "chunk" => Seen(host.run),
         inbox' \subseteq inbox, PreparedOK', lost' \in 0 .. MaxLost,
         \A s \in confirmed' : s \in confirmed \/ (s = Plan[host.run] /\ Handled(s))
  PROVE  TInv'
<1> USE Constants
<1>0. /\ UNCHANGED vars /\ handled' = handled /\ reboots' = reboots
      /\ raw_capture' = raw_capture /\ store' = store /\ phase' = phase
  BY DEF boardVars, vars
<1>1. IInv' BY <1>0, NextIInv DEF TInv
<1>2. /\ host.run \in 1 .. Len(Plan) /\ host'.run \in 1 .. Len(Plan)
      /\ HostRank \in Nat /\ HostRank' \in Nat
  <2>1. host.run \in 1 .. Len(Plan) /\ host'.run \in 1 .. Len(Plan)
    BY DEF TInv, HostOK, Clients
  <2>2. host.run \in Nat /\ host'.run \in Nat BY <2>1
  <2>3. HostRank \in Nat BY ONLY <2>2 DEF HostRank
  <2>4. HostRank' \in Nat BY ONLY <2>2 DEF HostRank
  <2> QED BY <2>1, <2>3, <2>4
<1>3. ring \in Seq(Frames) /\ Len(ring) \in Nat BY DEF TInv, RingOK
<1>4. /\ ring' \in Seq(Frames) /\ Len(ring') \in Nat /\ Len(ring') <= RingSize
      /\ \A i \in 1 .. Len(ring') :
           \/ i \in 1 .. Len(ring) /\ ring'[i] = ring[i]
           \/ /\ i = Len(ring) + 1 /\ ring'[i] = f
              /\ OfRun(f, host.run) /\ HostRank <= Rank(f) /\ Rank(f) <= HostRank'
              /\ f.kind = "chunk" => Seen(host.run)
  <2>0. Len(ring) <= RingSize BY DEF TInv, LinkOK
  <2>1. CASE ring' = ring BY <1>3, <2>0, <2>1
  <2>2. CASE /\ ring' = Append(ring, f) /\ Len(ring) < RingSize
             /\ f \in Frames /\ OfRun(f, host.run)
             /\ HostRank <= Rank(f) /\ Rank(f) <= HostRank'
             /\ f.kind = "chunk" => Seen(host.run)
    <3>1. ring' \in Seq(Frames) /\ Len(ring') = Len(ring) + 1 BY <1>3, <2>2
    <3>2. \A i \in 1 .. Len(ring) : ring'[i] = ring[i] BY <1>3, <2>2
    <3>3. ring'[Len(ring) + 1] = f BY <1>3, <2>2
    <3>4. \A i \in 1 .. Len(ring) + 1 : i \in 1 .. Len(ring) \/ i = Len(ring) + 1 BY <1>3
    <3> QED BY <1>3, <2>2, <3>1, <3>2, <3>3, <3>4
  <2> QED BY <2>1, <2>2
<1>5. OfRun(f, host.run) =>
        /\ FrameRun(f) = host.run /\ Rank(f) \in Nat
        /\ f.kind \in {"start", "chunk"} /\ 2 * host.run <= Rank(f)
  BY <1>2, FrameOfRun
<1>6. \A i \in 1 .. Len(ring) :
        /\ FrameRun(ring[i]) \in 1 .. host.run /\ Rank(ring[i]) \in Nat
        /\ Rank(ring[i]) <= HostRank
  <2> TAKE i \in 1 .. Len(ring)
  <2>1. PICK r \in 1 .. host.run : OfRun(ring[i], r) /\ Rank(ring[i]) <= HostRank
    BY DEF TInv, RingOK
  <2>2. r \in 1 .. Len(Plan) /\ r \in Nat /\ host.run \in Nat BY <1>2
  <2>3. /\ FrameRun(ring[i]) = r /\ ring[i].kind \in {"start", "chunk"}
        /\ ring[i].kind = "start" => Rank(ring[i]) = 2 * r
        /\ ring[i].kind = "chunk" => Rank(ring[i]) = 2 * r + 1
    BY <2>1, <2>2, FrameOfRun
  <2>4. Rank(ring[i]) \in Nat
    <3>1. 2 * r \in Nat /\ 2 * r + 1 \in Nat BY ONLY <2>2
    <3>2. CASE ring[i].kind = "start" BY ONLY <2>3, <3>1, <3>2
    <3>3. CASE ring[i].kind = "chunk" BY ONLY <2>3, <3>1, <3>3
    <3> QED BY ONLY <2>3, <3>2, <3>3
  <2> QED BY <2>1, <2>3, <2>4
<1>7. BoardRun' = BoardRun BY <1>0 DEF BoardRun
<1>8. ASSUME NEW q \in 1 .. host.run, Seen(q) PROVE Seen(q)'
  <2>1. raw_capture'.armed => q <= BoardRun' BY <1>0, <1>7, <1>8 DEF Seen
  <2>2. ASSUME NEW i \in 1 .. Len(ring'), ring'[i].kind = "start"
        PROVE  q <= FrameRun(ring'[i])
    <3>1. CASE i \in 1 .. Len(ring) /\ ring'[i] = ring[i] BY <1>8, <2>2, <3>1 DEF Seen
    <3>2. CASE ring'[i] = f /\ OfRun(f, host.run)
      <4>1. FrameRun(ring'[i]) = host.run BY <1>5, <3>2
      <4> QED BY <1>2, <4>1
    <3> QED BY <1>4, <3>1, <3>2
  <2> QED BY <2>1, <2>2 DEF Seen
<1>9. ASSUME NEW q \in 1 .. host.run, Gone(q) PROVE Gone(q)'
  <2>1. 2 * q + 1 <= HostRank /\ \A i \in 1 .. Len(ring) : 2 * q + 1 <= Rank(ring[i])
    BY <1>9 DEF Gone
  <2>2. 2 * q + 1 <= HostRank' BY <1>2, <2>1
  <2>3. ASSUME NEW i \in 1 .. Len(ring') PROVE 2 * q + 1 <= Rank(ring'[i])
    <3>1. CASE i \in 1 .. Len(ring) /\ ring'[i] = ring[i] BY <2>1, <3>1
    <3>2. CASE ring'[i] = f /\ OfRun(f, host.run) /\ HostRank <= Rank(f)
      <4>1. Rank(f) \in Nat BY <1>5, <3>2
      <4>2. 2 * q + 1 <= Rank(f) BY <1>2, <2>1, <3>2, <4>1
      <4> QED BY <3>2, <4>2
    <3> QED BY <1>4, <3>1, <3>2
  <2> QED BY <1>0, <1>7, <1>9, <2>2, <2>3 DEF Gone
<1>10. \A s : Handled(s) => Handled(s)' BY <1>0 DEF Handled
<1>11. HostOK' BY <1>2, <1>8 DEF HostOK, Current
<1>12. RingOK'
  <2>1. ASSUME NEW i \in 1 .. Len(ring')
        PROVE  /\ \E r \in 1 .. host'.run : OfRun(ring'[i], r)
               /\ Rank(ring'[i]) <= HostRank'
               /\ ring'[i].kind = "chunk" => Seen(FrameRun(ring[i]))'
    <3>1. CASE i \in 1 .. Len(ring) /\ ring'[i] = ring[i]
      <4>1. PICK r \in 1 .. host.run : OfRun(ring[i], r) BY <3>1 DEF TInv, RingOK
      <4>2. r \in 1 .. host'.run BY <1>2
      <4>3. ring[i].kind = "chunk" => Seen(FrameRun(ring[i])) BY <3>1 DEF TInv, RingOK
      <4> DEFINE q == FrameRun(ring[i])
      <4>4. q \in 1 .. host.run /\ FrameRun(ring[i])' = q BY <1>6, <3>1
      <4> HIDE DEF q
      <4>5. ring'[i].kind = "chunk" => Seen(FrameRun(ring[i]))'
        <5>1. ring'[i].kind = "chunk" => Seen(q) BY <3>1, <4>3 DEF q
        <5> QED BY <1>0, <1>7, <1>8, <4>4, <5>1 DEF Seen
      <4> QED BY <1>2, <1>6, <3>1, <4>1, <4>2, <4>5
    <3>2. CASE /\ ring'[i] = f
               /\ OfRun(f, host.run) /\ Rank(f) <= HostRank'
               /\ f.kind = "chunk" => Seen(host.run)
      <4>1. host.run \in 1 .. host'.run /\ host.run \in 1 .. host.run BY <1>2
      <4>2. FrameRun(ring[i])' = host.run BY <1>5, <3>2
      <4>4. ring'[i].kind = "chunk" => Seen(FrameRun(ring[i]))'
        <5> DEFINE q == host.run
        <5>1. q \in 1 .. host.run /\ (ring'[i].kind = "chunk" => Seen(q)) BY <3>2, <4>1
        <5> HIDE DEF q
        <5>2. FrameRun(ring[i])' = q BY <4>2 DEF q
        <5> QED BY <1>0, <1>7, <1>8, <5>1, <5>2 DEF Seen
      <4> QED BY <3>2, <4>1, <4>4
    <3> QED BY <1>4, <3>1, <3>2
  <2>2. ASSUME NEW i \in 1 .. Len(ring'), NEW j \in 1 .. Len(ring'), i < j
        PROVE  Rank(ring'[i]) <= Rank(ring'[j])
    <3>1. i \in 1 .. Len(ring) /\ ring'[i] = ring[i] BY <1>3, <1>4, <2>2
    <3>2. CASE j \in 1 .. Len(ring) /\ ring'[j] = ring[j]
      BY <2>2, <3>1, <3>2 DEF TInv, RingOK
    <3>3. CASE ring'[j] = f /\ OfRun(f, host.run) /\ HostRank <= Rank(f)
      BY <1>2, <1>5, <1>6, <3>1, <3>3
    <3> QED BY <1>4, <3>2, <3>3
  <2> QED BY <1>4, <2>1, <2>2 DEF RingOK
<1>13. BoardOK'
  <2>1. BoardOK BY DEF TInv
  <2>2. raw_capture.armed => \A i \in 1 .. Len(ring') : 2 * BoardRun <= Rank(ring'[i])
    <3> SUFFICES ASSUME raw_capture.armed
                 PROVE  \A i \in 1 .. Len(ring') : 2 * BoardRun <= Rank(ring'[i])
      OBVIOUS
    <3>1. /\ BoardRun \in 1 .. host.run
          /\ \A i \in 1 .. Len(ring) : 2 * BoardRun <= Rank(ring[i])
      BY <2>1 DEF BoardOK
    <3>2. OfRun(f, host.run) => 2 * BoardRun <= Rank(f) BY <1>2, <1>5, <3>1
    <3> QED BY <1>4, <3>1, <3>2
  <2>3. raw_capture.active =>
          /\ 2 * BoardRun + 1 <= HostRank'
          /\ \A i \in 1 .. Len(ring') : 2 * BoardRun + 1 <= Rank(ring'[i])
    <3> SUFFICES ASSUME raw_capture.active
                 PROVE  /\ 2 * BoardRun + 1 <= HostRank'
                        /\ \A i \in 1 .. Len(ring') : 2 * BoardRun + 1 <= Rank(ring'[i])
      OBVIOUS
    <3>1. /\ 2 * BoardRun + 1 <= HostRank /\ BoardRun \in Nat
          /\ \A i \in 1 .. Len(ring) : 2 * BoardRun + 1 <= Rank(ring[i])
      BY <2>1 DEF BoardOK
    <3>2. 2 * BoardRun + 1 <= HostRank' BY <1>2, <3>1
    <3>3. OfRun(f, host.run) /\ HostRank <= Rank(f) => 2 * BoardRun + 1 <= Rank(f)
      BY <1>2, <1>5, <3>1
    <3> QED BY <1>4, <3>1, <3>2, <3>3
  <2>4. raw_capture.armed => BoardRun \in 1 .. host'.run BY <1>2, <2>1 DEF BoardOK
  <2>5. HeldTransfer' = HeldTransfer BY <1>0 DEF HeldTransfer
  <2>6. phase = "reply" => Handled(Plan[BoardRun])'
    BY <1>0, <1>7, <2>1 DEF BoardOK, Handled
  <2> QED BY <1>0, <1>7, <2>1, <2>2, <2>3, <2>4, <2>5, <2>6 DEF BoardOK, Handled
<1>14. HandledOK'
  <2>1. HandledOK BY DEF TInv
  <2>2. ASSUME NEW i \in 1 .. Len(handled)
        PROVE  \E r \in 1 .. host'.run : handled[i] = Plan[r] /\ Gone(r)'
    <3>1. PICK r \in 1 .. host.run : handled[i] = Plan[r] /\ Gone(r) BY <2>1 DEF HandledOK
    <3>2. r \in 1 .. host'.run BY <1>2
    <3> QED BY <1>9, <3>1, <3>2
  <2> QED BY <1>0, <2>1, <2>2 DEF HandledOK
<1>15. InboxOK'
  <2>1. inbox \subseteq StatusDatagrams BY DEF TInv, InboxOK
  <2>2. ASSUME NEW m \in inbox'
        PROVE  \E q \in 1 .. host'.run :
                 /\ m.session = Plan[q].id
                 /\ m.status = "READY" => Seen(q)'
                 /\ m.status = "PROCESS_DONE" => Handled(Plan[q])'
    <3>1. PICK q \in 1 .. host.run :
            /\ m.session = Plan[q].id
            /\ m.status = "READY" => Seen(q)
            /\ m.status = "PROCESS_DONE" => Handled(Plan[q])
      BY DEF TInv, InboxOK
    <3>2. q \in 1 .. host'.run BY <1>2
    <3> QED BY <1>8, <1>10, <3>1, <3>2
  <2> QED BY <2>1, <2>2 DEF InboxOK
<1>16. ConfirmedOK'
  <2>1. ASSUME NEW s \in confirmed'
        PROVE  \E r \in 1 .. host'.run : s = Plan[r] /\ Handled(s)'
    <3>1. PICK r \in 1 .. host.run : s = Plan[r] /\ Handled(s)
      BY <1>2 DEF TInv, ConfirmedOK
    <3>2. r \in 1 .. host'.run BY <1>2
    <3> QED BY <1>10, <3>1, <3>2
  <2> QED BY <2>1 DEF ConfirmedOK
<1>17. LinkOK' BY <1>0, <1>4 DEF TInv, LinkOK
<1> QED BY <1>1, <1>11, <1>12, <1>13, <1>14, <1>15, <1>16, <1>17 DEF TInv

\* What a client's step may rely on.
LEMMA HostFacts ==
  ASSUME TInv
  PROVE  /\ host \in Clients /\ host.run \in 1 .. Len(Plan)
         /\ host.attempt \in 0 .. ReadyRetries /\ host.chunk \in Nat /\ host.copy \in Nat
         /\ host.patient \in BOOLEAN
         /\ host.chunk < ChunkCount(Plan[host.run])
         /\ host.copy < Repeats(host.chunk)
         /\ host.pc \in {"send", "await_done"} => Seen(host.run)
         /\ host.pc # "start" => host.attempt # 0
         /\ lost \in 0 .. MaxLost
         /\ HostRank \in Nat /\ 2 * host.run <= HostRank /\ HostRank <= 2 * host.run + 1
<1>1. host \in Clients /\ host.run \in 1 .. Len(Plan) BY DEF TInv, HostOK, Clients
<1>2. 2 * host.run <= HostRank /\ HostRank <= 2 * host.run + 1 /\ HostRank \in Nat
  BY <1>1, Constants DEF HostRank
<1> QED BY <1>1, <1>2 DEF TInv, HostOK, Clients, Current, LinkOK

LEMMA RunFacts ==
  ASSUME TInv
  PROVE  /\ host.run \in 1 .. Len(Plan) /\ host.run \in Nat
         /\ HostRank \in Nat /\ HostRank <= 2 * host.run + 1 /\ lost \in 0 .. MaxLost
         /\ host.patient \in BOOLEAN
BY HostFacts

\* A datagram in the socket with the client's session is of the client's run.
LEMMA InboxSession ==
  ASSUME TInv, NEW m \in inbox, m.session = Plan[host.run].id
  PROVE  /\ m.status = "READY" => Seen(host.run)
         /\ m.status = "PROCESS_DONE" => Handled(Plan[host.run])
<1>1. PICK q \in 1 .. host.run :
        /\ m.session = Plan[q].id
        /\ m.status = "READY" => Seen(q)
        /\ m.status = "PROCESS_DONE" => Handled(Plan[q])
  BY DEF TInv, InboxOK
<1>2. q \in 1 .. Len(Plan) /\ host.run \in 1 .. Len(Plan) BY HostFacts, Constants
<1>3. q = host.run BY <1>1, <1>2, ScanIdsDiffer
<1> QED BY <1>1, <1>3

LEMMA SendStartStep == ASSUME TInv, SendStart PROVE TInv'
<1> DEFINE f == StartFrame(host.run)
<1>1. /\ UNCHANGED boardVars /\ inbox' = inbox /\ confirmed' = confirmed
      /\ host.pc = "start" /\ host.attempt < ReadyRetries /\ SendFrame(f)
      /\ host' = [host EXCEPT !.pc = "await_ready", !.attempt = @ + 1]
  BY DEF SendStart
<1>2. /\ host' \in Clients /\ host'.run = host.run /\ host'.pc = "await_ready"
      /\ host'.chunk = host.chunk /\ host'.copy = host.copy
      /\ host'.attempt # 0
  <2>0. host \in Clients /\ host.attempt \in 0 .. ReadyRetries BY HostFacts
  <2>1. host.attempt + 1 \in 0 .. ReadyRetries /\ host.attempt + 1 # 0
    BY <1>1, <2>0, Constants, SMT
  <2> QED BY <1>1, <2>0, <2>1 DEF Clients
<1>3. Early /\ Early' BY <1>1, <1>2 DEF Early
<1>4. HostRank = 2 * host.run /\ HostRank' = 2 * host.run
  BY <1>2, <1>3, HostFacts DEF HostRank
<1>5. f \in Frames /\ f.kind = "start" /\ OfRun(f, host.run) /\ Rank(f) = 2 * host.run
  BY HostFacts, StartFrameProps, FrameOfRun
<1> HIDE DEF f
<1>6. PreparedOK'
  BY <1>1, <1>2, <1>3 DEF TInv, PreparedOK, Current, boardVars, vars
<1>7. lost' \in 0 .. MaxLost
  <2>1. lost' = lost \/ (lost < MaxLost /\ lost' = lost + 1) BY <1>1 DEF SendFrame
  <2>2. lost \in 0 .. MaxLost /\ MaxLost \in Nat BY HostFacts, Constants
  <2> QED BY <2>1, <2>2
<1>8. \/ ring' = ring
      \/ /\ ring' = Append(ring, f) /\ Len(ring) < RingSize
         /\ f \in Frames /\ OfRun(f, host.run) /\ host'.run = host.run
         /\ HostRank <= Rank(f) /\ Rank(f) <= HostRank'
         /\ f.kind = "chunk" => Seen(host.run)
  BY <1>1, <1>2, <1>4, <1>5, HostFacts DEF SendFrame
<1>9. /\ host'.chunk < ChunkCount(Plan[host'.run]) /\ host'.copy < Repeats(host'.chunk)
      /\ host'.attempt # 0
      /\ host.run <= host'.run /\ HostRank <= HostRank'
      /\ host'.pc \notin {"send", "await_done"}
  BY <1>2, <1>4, HostFacts
<1> QED BY <1>1, <1>2, <1>6, <1>7, <1>8, <1>9, HostStep

LEMMA TakeReadyStep == ASSUME TInv, TakeReady PROVE TInv'
<1>1. /\ UNCHANGED boardVars /\ UNCHANGED <<ring, inbox, lost, confirmed>>
      /\ host.pc = "await_ready" /\ host' = [host EXCEPT !.pc = "send"]
  BY DEF TakeReady
<1>2. PICK m \in inbox : m.status = "READY" /\ m.session = Plan[host.run].id
  BY DEF TakeReady, IsReady, Current
<1>3. /\ host' \in Clients /\ host'.run = host.run /\ host'.pc = "send"
      /\ host'.chunk = host.chunk /\ host'.copy = host.copy
      /\ host'.attempt = host.attempt
  BY <1>1, HostFacts DEF Clients
<1>4. Early BY <1>1 DEF Early
<1>5. HostRank <= HostRank' BY <1>3, <1>4, HostFacts DEF HostRank
<1>6. Seen(host.run) BY <1>2, InboxSession
<1>7. PreparedOK'
  BY <1>1, <1>2, <1>3, <1>4 DEF TInv, PreparedOK, Current, boardVars, vars
<1> QED BY <1>1, <1>3, <1>5, <1>6, <1>7, HostFacts, HostStep

\* A wait that runs out moves the client on and touches its patience only.
LEMMA TimedOutEffect ==
  ASSUME TInv, NEW next \in {"start", "failed"}, NEW answered
  PROVE  LET h == TimedOut(next, answered) IN
         /\ h \in Clients /\ h.run = host.run /\ h.pc = next
         /\ h.chunk = host.chunk /\ h.copy = host.copy /\ h.attempt = host.attempt
<1> DEFINE p == host.patient /\ BoardQuiet /\ ~answered
<1>1. p \in BOOLEAN BY Zenon
<1>2. TimedOut(next, answered) = [host EXCEPT !.pc = next, !.patient = p]
  BY HostFacts, Zenon DEF TimedOut
<1> HIDE DEF p
<1> QED BY <1>1, <1>2, HostFacts DEF Clients

LEMMA ReadyTimeoutStep == ASSUME TInv, ReadyTimeout PROVE TInv'
<1>1. /\ UNCHANGED boardVars /\ UNCHANGED <<ring, inbox, lost, confirmed>>
      /\ host.pc = "await_ready"
      /\ \E next \in {"start", "failed"}, answered \in BOOLEAN : host' = TimedOut(next, answered)
  BY DEF ReadyTimeout
<1>2. /\ host' \in Clients /\ host'.run = host.run /\ host'.pc \in {"start", "failed"}
      /\ host'.chunk = host.chunk /\ host'.copy = host.copy
      /\ host'.attempt = host.attempt
  BY <1>1, TimedOutEffect
<1>3. Early BY <1>1 DEF Early
<1>4. HostRank <= HostRank' BY <1>2, <1>3, HostFacts DEF HostRank
<1>5. PreparedOK'
  BY <1>1, <1>2, <1>3 DEF TInv, PreparedOK, Current, boardVars, vars
<1> QED BY <1>1, <1>2, <1>4, <1>5, HostFacts, HostStep

LEMMA SendChunkStep == ASSUME TInv, SendChunk PROVE TInv'
<1> DEFINE f == ChunkFrame(Plan[host.run], host.chunk)
<1>1. /\ UNCHANGED boardVars /\ inbox' = inbox /\ confirmed' = confirmed
      /\ host.pc = "send" /\ SendFrame(f) /\ host' = NextCopy(host)
  BY DEF SendChunk, Current
<1>2. /\ host' \in Clients /\ host'.run = host.run
      /\ host'.chunk < ChunkCount(Plan[host.run])
      /\ host'.copy < Repeats(host'.chunk)
      /\ ~Early' /\ host'.attempt = host.attempt
  <2>1. CASE host.copy + 1 < Repeats(host.chunk)
    <3>1. host' = [host EXCEPT !.copy = @ + 1] BY <1>1, <2>1 DEF NextCopy
    <3>2. host \in Clients /\ host.copy + 1 \in Nat /\ host.copy + 1 # 0 BY HostFacts
    <3>3. /\ host' \in Clients /\ host'.run = host.run /\ host'.chunk = host.chunk
          /\ host'.copy = host.copy + 1 /\ host'.pc = "send"
          /\ host'.attempt = host.attempt
      BY <1>1, <3>1, <3>2 DEF Clients
    <3> QED BY <2>1, <3>2, <3>3, HostFacts DEF Early
  <2>2. CASE /\ ~(host.copy + 1 < Repeats(host.chunk))
             /\ host.chunk + 1 < ChunkCount(Plan[host.run])
    <3>1. host' = [host EXCEPT !.chunk = @ + 1, !.copy = 0] BY <1>1, <2>2 DEF NextCopy
    <3>0. host \in Clients /\ host.chunk + 1 \in Nat /\ host.chunk + 1 # 0 BY HostFacts
    <3>2. 0 < Repeats(host.chunk + 1) BY <3>0, RepeatsType
    <3>3. /\ host' \in Clients /\ host'.run = host.run /\ host'.chunk = host.chunk + 1
          /\ host'.copy = 0 /\ host'.pc = "send" /\ host'.attempt = host.attempt
      <4> DEFINE h == [host EXCEPT !.chunk = @ + 1]
      <4>1. /\ h \in Clients /\ h.run = host.run /\ h.chunk = host.chunk + 1 /\ h.pc = "send"
            /\ h.attempt = host.attempt
        BY <1>1, <3>0 DEF Clients
      <4>2. host' = [h EXCEPT !.copy = 0] BY <3>0, <3>1 DEF Clients
      <4> HIDE DEF h
      <4> QED BY <4>1, <4>2 DEF Clients
    <3> QED BY <2>2, <3>0, <3>2, <3>3 DEF Early
  <2>3. CASE /\ ~(host.copy + 1 < Repeats(host.chunk))
             /\ ~(host.chunk + 1 < ChunkCount(Plan[host.run]))
    <3>1. host' = [host EXCEPT !.pc = "await_done"] BY <1>1, <2>3 DEF NextCopy
    <3> QED BY <3>1, HostFacts DEF Clients, Early
  <2> QED BY <2>1, <2>2, <2>3
<1>3. HostRank' = 2 * host.run + 1 BY <1>2 DEF HostRank
<1>4. f \in Frames /\ f.kind = "chunk" /\ OfRun(f, host.run) /\ Rank(f) = 2 * host.run + 1
  <2>1. /\ host.run \in 1 .. Len(Plan) /\ host.chunk \in Nat
        /\ host.chunk < ChunkCount(Plan[host.run])
    BY HostFacts
  <2>2. f \in Frames /\ f.kind = "chunk" /\ OfRun(f, host.run) BY <2>1, ChunkFrameProps
  <2> HIDE DEF f
  <2> QED BY <2>1, <2>2, FrameOfRun
<1> HIDE DEF f
<1>5. Seen(host.run) BY <1>1, HostFacts
<1>6. PreparedOK' BY <1>2 DEF PreparedOK
<1>7. lost' \in 0 .. MaxLost
  <2>1. lost' = lost \/ (lost < MaxLost /\ lost' = lost + 1) BY <1>1 DEF SendFrame
  <2>2. lost \in 0 .. MaxLost /\ MaxLost \in Nat BY HostFacts, Constants
  <2> QED BY <2>1, <2>2
<1>8. \/ ring' = ring
      \/ /\ ring' = Append(ring, f) /\ Len(ring) < RingSize
         /\ f \in Frames /\ OfRun(f, host.run) /\ host'.run = host.run
         /\ HostRank <= Rank(f) /\ Rank(f) <= HostRank'
         /\ f.kind = "chunk" => Seen(host.run)
  BY <1>1, <1>2, <1>3, <1>4, <1>5, HostFacts DEF SendFrame
<1> QED BY <1>1, <1>2, <1>3, <1>5, <1>6, <1>7, <1>8, HostFacts, HostStep

\* No datagram in the socket has the session of a run to come.
LEMMA NewRunPrepared ==
  ASSUME TInv, inbox' \subseteq inbox, NEW p, host' = NewRun(p, host.run + 1),
         host.run < Len(Plan)
  PROVE  PreparedOK'
<1>1. host'.run = host.run + 1 /\ host'.pc = "start" BY DEF NewRun
<1>2. host'.run \in 1 .. Len(Plan) BY <1>1, HostFacts
<1>3. ASSUME NEW m \in inbox PROVE m.session # Plan[host'.run].id
  <2>1. PICK q \in 1 .. host.run : m.session = Plan[q].id BY DEF TInv, InboxOK
  <2>2. q \in 1 .. Len(Plan) /\ q # host'.run BY <1>1, <1>2, RunFacts
  <2> QED BY <1>2, <2>1, <2>2, ScanIdsDiffer
<1> QED BY <1>1, <1>3 DEF PreparedOK, Current

LEMMA NewRank ==
  ASSUME host.run \in Nat, HostRank <= 2 * host.run + 1, HostRank \in Nat,
         host'.run = host.run + 1
  PROVE  HostRank <= HostRank'
<1>1. host'.run \in Nat /\ 2 * host'.run = 2 * host.run + 2 OBVIOUS
<1>2. HostRank' \in Nat /\ 2 * host'.run <= HostRank' BY ONLY <1>1 DEF HostRank
<1> HIDE DEF HostRank
<1> QED BY <1>1, <1>2

LEMMA TakeDoneStep == ASSUME TInv, TakeDone PROVE TInv'
<1>1. /\ UNCHANGED boardVars /\ UNCHANGED <<ring, inbox, lost>>
      /\ host.pc = "await_done" /\ host' = AfterRun(host)
      /\ confirmed' = confirmed \cup {Plan[host.run]}
  BY DEF TakeDone, Current
<1>2. Handled(Plan[host.run]) BY InboxSession DEF TakeDone, IsDone, Current
<1>3. \A s \in confirmed' : s \in confirmed \/ (s = Plan[host.run] /\ Handled(s))
  BY <1>1, <1>2
<1>4. CASE host.run < Len(Plan)
  <2>1. host' = NewRun(host.patient, host.run + 1) BY <1>1, <1>4 DEF AfterRun
  <2>2. host.run + 1 \in 1 .. Len(Plan) BY <1>4, RunFacts, Constants
  <2>3. /\ host' \in Clients /\ host'.run = host.run + 1 /\ host'.pc = "start"
        /\ host'.chunk < ChunkCount(Plan[host'.run]) /\ host'.copy < Repeats(host'.chunk)
    BY <2>1, <2>2, RunFacts, NewRunProps
  <2>4. HostRank <= HostRank'
    BY <2>3, RunFacts, NewRank
  <2>5. PreparedOK' BY <1>1, <1>4, <2>1, NewRunPrepared
  <2> QED BY <1>1, <1>3, <2>3, <2>4, <2>5, RunFacts, HostStep
<1>5. CASE ~(host.run < Len(Plan))
  <2>1. host' = [host EXCEPT !.pc = "finished"] BY <1>1, <1>5 DEF AfterRun
  <2>2. /\ host' \in Clients /\ host'.run = host.run /\ host'.pc = "finished"
        /\ host'.chunk = host.chunk /\ host'.copy = host.copy
        /\ host'.attempt = host.attempt
    BY <2>1, HostFacts DEF Clients
  <2>3. ~Early' BY <2>2 DEF Early
  <2>4. HostRank <= HostRank' BY <2>2, <2>3, HostFacts DEF HostRank
  <2>5. PreparedOK' BY <2>3 DEF PreparedOK
  <2> QED BY <1>1, <1>3, <2>2, <2>4, <2>5, HostFacts, HostStep
<1> QED BY <1>4, <1>5

LEMMA DoneTimeoutStep == ASSUME TInv, DoneTimeout PROVE TInv'
<1>1. /\ UNCHANGED boardVars /\ UNCHANGED <<ring, inbox, lost, confirmed>>
      /\ host.pc = "await_done"
      /\ \E answered \in BOOLEAN : host' = TimedOut("failed", answered)
  BY DEF DoneTimeout
<1>2. /\ host' \in Clients /\ host'.run = host.run /\ host'.pc = "failed"
      /\ host'.chunk = host.chunk /\ host'.copy = host.copy
      /\ host'.attempt = host.attempt
  BY <1>1, TimedOutEffect
<1>3. ~Early' BY <1>2 DEF Early
<1>4. HostRank <= HostRank' BY <1>2, <1>3, HostFacts DEF HostRank
<1>5. PreparedOK' BY <1>3 DEF PreparedOK
<1> QED BY <1>1, <1>2, <1>4, <1>5, HostFacts, HostStep

LEMMA RerunStep == ASSUME TInv, Rerun PROVE TInv'
<1>1. /\ UNCHANGED boardVars /\ UNCHANGED <<ring, lost, confirmed>>
      /\ host.run < Len(Plan) /\ host' = NewRun(host.patient, host.run + 1)
      /\ inbox' \subseteq inbox
  BY DEF Rerun
<1>2. host.run + 1 \in 1 .. Len(Plan) BY <1>1, RunFacts, Constants
<1>3. /\ host' \in Clients /\ host'.run = host.run + 1 /\ host'.pc = "start"
      /\ host'.chunk < ChunkCount(Plan[host'.run]) /\ host'.copy < Repeats(host'.chunk)
  BY <1>1, <1>2, RunFacts, NewRunProps
<1>4. HostRank <= HostRank' BY <1>3, RunFacts, NewRank
<1>5. PreparedOK' BY <1>1, NewRunPrepared
<1> QED BY <1>1, <1>3, <1>4, <1>5, RunFacts, HostStep

-----------------------------------------------------------------------------
(***************************************************************************)
(* What the board's handlers do to the session and the capture             *)
(***************************************************************************)
\* Servicing READY starts nothing, and sends nothing but READYs of the session.
LEMMA ServiceStartsNothing ==
  ASSUME NEW rc \in CaptureType, NEW o
  PROVE  /\ ServiceReady(rc, o).ready_pending => rc.ready_pending
         /\ \A m \in ReadyOut(rc, o) :
              rc.ready_pending /\ m.status = "READY" /\ m.session = rc.session_id
         /\ IsFiniteSet(ReadyOut(rc, o))
<1>1. ServiceReady(rc, o).ready_pending => rc.ready_pending
  BY DEF ServiceReady, CaptureType
<1>2. \A m \in ReadyOut(rc, o) :
        rc.ready_pending /\ m.status = "READY" /\ m.session = rc.session_id
  BY DEF ReadyOut, Ready
<1>3. IsFiniteSet(ReadyOut(rc, o)) BY FS_EmptySet, FS_Singleton DEF ReadyOut
<1> QED BY <1>1, <1>2, <1>3

\* A complete capture that is sound is active, and the store holds its bytes.
LEMMA CompleteHeld ==
  ASSUME NEW rc \in CaptureType, NEW st, CaptureSound(rc, st), rc.complete
  PROVE  rc.active /\ st[0].crc = rc.expected_crc32
<1>1. rc.active /\ rc.total_len \in 1 .. Capacity /\ ScanCrcAgrees(st, rc)
  BY DEF CaptureSound
<1>2. 0 \in SlotsOf(rc.total_len) BY <1>1, SlotsProps
<1>3. st[0] = [crc |-> rc.expected_crc32, len |-> FullLen(rc.total_len, 0),
               body |-> "intact"]
  BY <1>1, <1>2 DEF ScanCrcAgrees
<1> QED BY <1>1, <1>3

\* What main.c makes of a poll.
LEMMA Received ==
  ASSUME phase = "wait", MainReacts, result' = "COMPLETE" => raw_capture'.complete,
         raw_capture' \in CaptureType, CaptureSound(raw_capture', store')
  PROVE  /\ phase' \in {"wait", "received"}
         /\ phase' = "received" =>
              raw_capture'.active /\ store'[0].crc = raw_capture'.expected_crc32
BY CompleteHeld DEF MainReacts

LEMMA NoFrameEffect ==
  ASSUME IInv, PollNoFrame
  PROVE  /\ phase = "wait" /\ phase' \in {"wait", "received"}
         /\ raw_capture'.armed = raw_capture.armed
         /\ raw_capture'.session_id = raw_capture.session_id
         /\ raw_capture'.active = raw_capture.active
         /\ raw_capture'.scan_id = raw_capture.scan_id
         /\ raw_capture'.expected_crc32 = raw_capture.expected_crc32
         /\ raw_capture'.ready_pending => raw_capture.ready_pending
         /\ phase' = "received" =>
              raw_capture'.active /\ store'[0].crc = raw_capture'.expected_crc32
         /\ IsFiniteSet(tx')
         /\ \A m \in tx' : /\ raw_capture.ready_pending
                          /\ m.status = "READY" /\ m.session = raw_capture.session_id
<1>1. /\ phase = "wait" /\ raw_capture \in CaptureType
      /\ CaptureSound(raw_capture, store) /\ store' = store
  BY DEF IInv, PollNoFrame, TypeOK
<1>2. PICK o : raw_capture' = ServiceReady(raw_capture, o) /\ tx' = ReadyOut(raw_capture, o)
  BY DEF PollNoFrame
<1>3. /\ raw_capture' \in CaptureType /\ CaptureSound(raw_capture', store')
      /\ raw_capture'.complete = raw_capture.complete
  BY <1>1, <1>2, ServiceReadyKeeps, ServiceReadySound
<1>4. result' = "COMPLETE" => raw_capture'.complete BY <1>3 DEF PollNoFrame
<1>5. /\ phase' \in {"wait", "received"}
      /\ phase' = "received" =>
           raw_capture'.active /\ store'[0].crc = raw_capture'.expected_crc32
  BY <1>1, <1>3, <1>4, Received DEF PollNoFrame
<1> QED BY <1>1, <1>2, <1>5, ServiceReadyKeeps, ServiceStartsNothing

LEMMA StartEffect ==
  ASSUME IInv, NEW f \in StartFrames, PollStart(f, TRUE)
  PROVE  /\ phase = "wait" /\ phase' = phase
         /\ raw_capture'.armed /\ raw_capture'.session_id = f.session
         /\ raw_capture'.active =>
              /\ raw_capture.active /\ raw_capture.session_id = f.session
              /\ raw_capture'.scan_id = raw_capture.scan_id
              /\ raw_capture'.expected_crc32 = raw_capture.expected_crc32
         /\ IsFiniteSet(tx')
         /\ \A m \in tx' :
              /\ m.status = "READY"
              /\ \/ raw_capture.ready_pending /\ m.session = raw_capture.session_id
                 \/ m.session = f.session
<1>1. /\ phase = "wait" /\ phase' = phase /\ raw_capture \in CaptureType
      /\ CaptureSound(raw_capture, store)
  BY DEF IInv, PollStart, TypeOK
<1>2. PICK o1 \in Outcomes(pc_mac), o2 \in Outcomes(pc_mac') :
        LET before  == ServiceReady(raw_capture, o1)
            started == StartCapture(before, f)
        IN /\ Leaves(ServiceReady(started, o2), "IDLE", TRUE)
           /\ tx' = ReadyOut(raw_capture, o1) \cup ReadyOut(started, o2)
  BY DEF PollStart
<1> DEFINE before  == ServiceReady(raw_capture, o1)
           started == StartCapture(before, f)
<1>3. before \in CaptureType /\ CaptureSound(before, store)
  BY <1>1, ServiceReadyKeeps, ServiceReadySound
<1>4. started \in CaptureType /\ started.armed /\ started.session_id = f.session
  <2> HIDE DEF before
  <2> QED BY <1>3, StartSound
<1>5. started.active =>
        /\ before.active /\ before.session_id = f.session
        /\ started.scan_id = before.scan_id
        /\ started.expected_crc32 = before.expected_crc32
  <2> HIDE DEF before
  <2>1. CASE ~before.armed \/ before.session_id # f.session
    BY <2>1 DEF StartCapture, EthCaptureReset, ZeroCapture
  <2>2. CASE ~(~before.armed \/ before.session_id # f.session)
    BY <1>3, <2>2 DEF StartCapture, CaptureType
  <2> QED BY <2>1, <2>2
<1>6. /\ before.active = raw_capture.active /\ before.session_id = raw_capture.session_id
      /\ before.scan_id = raw_capture.scan_id
      /\ before.expected_crc32 = raw_capture.expected_crc32
  BY <1>1, ServiceReadyKeeps
<1>7. /\ raw_capture' = ServiceReady(started, o2)
      /\ tx' = ReadyOut(raw_capture, o1) \cup ReadyOut(started, o2)
  BY <1>2 DEF Leaves
<1> HIDE DEF before, started
<1>8. /\ raw_capture'.armed = started.armed /\ raw_capture'.session_id = started.session_id
      /\ raw_capture'.active = started.active /\ raw_capture'.scan_id = started.scan_id
      /\ raw_capture'.expected_crc32 = started.expected_crc32
  BY <1>4, <1>7, ServiceReadyKeeps
<1>9. /\ IsFiniteSet(ReadyOut(raw_capture, o1)) /\ IsFiniteSet(ReadyOut(started, o2))
      /\ \A m \in ReadyOut(raw_capture, o1) :
           raw_capture.ready_pending /\ m.status = "READY"
           /\ m.session = raw_capture.session_id
      /\ \A m \in ReadyOut(started, o2) : m.status = "READY" /\ m.session = f.session
  BY <1>1, <1>4, ServiceStartsNothing
<1>10. IsFiniteSet(tx') BY <1>7, <1>9, FS_Union
<1>11. \A m \in tx' :
         /\ m.status = "READY"
         /\ \/ raw_capture.ready_pending /\ m.session = raw_capture.session_id
            \/ m.session = f.session
  BY <1>7, <1>9
<1> QED BY <1>1, <1>4, <1>5, <1>6, <1>8, <1>10, <1>11

\* The fields of raw_capture that a chunk may set, when the capture is active.
LEMMA ProcessEffect ==
  ASSUME NEW rc \in CaptureType, CaptureSound(rc, store), ~rc.complete,
         NEW c \in ChunkFrames, RawCaptureProcess(rc, c, TRUE)
  PROVE  /\ raw_capture'.armed = rc.armed
         /\ raw_capture'.session_id = rc.session_id
         /\ raw_capture'.ready_pending => rc.ready_pending
         /\ raw_capture'.active =>
              /\ rc.armed
              /\ \/ /\ rc.active /\ raw_capture'.scan_id = rc.scan_id
                    /\ raw_capture'.expected_crc32 = rc.expected_crc32
                 \/ /\ raw_capture'.scan_id = c.scan_id
                    /\ raw_capture'.expected_crc32 = c.scan_crc32
<1> DEFINE cur == CaptureFor(rc, c)
           stored == StoreChunk(cur, c)
<1>1. CASE ChunkRefused(rc, c)
  <2>1. raw_capture' = rc BY <1>1 DEF RawCaptureProcess, Leaves
  <2> QED BY <2>1 DEF CaptureSound
<1>2. CASE ~ChunkRefused(rc, c)
  <2>1. rc.armed BY <1>2 DEF ChunkRefused
  <2>2. cur \in CaptureType BY <1>2, CaptureForSound
  <2>3. /\ cur.armed /\ cur.session_id = rc.session_id
        /\ cur.ready_pending => rc.ready_pending
        /\ \/ /\ rc.active /\ cur.scan_id = rc.scan_id
              /\ cur.expected_crc32 = rc.expected_crc32
           \/ /\ cur.scan_id = c.scan_id /\ cur.expected_crc32 = c.scan_crc32
    BY <2>1 DEF CaptureFor, OpensCapture, OpenCapture, EthCaptureReset, ZeroCapture
  <2> HIDE DEF cur
  <2>4. \/ raw_capture' = cur \/ raw_capture' = stored
        \/ raw_capture' = [stored EXCEPT !.active = FALSE]
        \/ raw_capture' = [stored EXCEPT !.complete = TRUE]
    BY <1>2 DEF RawCaptureProcess, Leaves, cur, stored
  <2>5. /\ raw_capture'.armed = cur.armed /\ raw_capture'.session_id = cur.session_id
        /\ raw_capture'.ready_pending = cur.ready_pending
        /\ raw_capture'.scan_id = cur.scan_id
        /\ raw_capture'.expected_crc32 = cur.expected_crc32
    BY <2>2, <2>4 DEF CaptureType, StoreChunk
  <2> QED BY <2>1, <2>3, <2>5
<1> QED BY <1>1, <1>2

LEMMA ChunkEffect ==
  ASSUME IInv, NEW f \in ChunkFrames, PollChunk(f, TRUE)
  PROVE  /\ phase = "wait" /\ phase' \in {"wait", "received"}
         /\ raw_capture'.armed = raw_capture.armed
         /\ raw_capture'.session_id = raw_capture.session_id
         /\ raw_capture'.ready_pending => raw_capture.ready_pending
         /\ raw_capture'.active =>
              /\ raw_capture.armed
              /\ \/ /\ raw_capture.active /\ raw_capture'.scan_id = raw_capture.scan_id
                    /\ raw_capture'.expected_crc32 = raw_capture.expected_crc32
                 \/ /\ raw_capture'.scan_id = f.scan_id
                    /\ raw_capture'.expected_crc32 = f.scan_crc32
         /\ phase' = "received" =>
              raw_capture'.active /\ store'[0].crc = raw_capture'.expected_crc32
         /\ IsFiniteSet(tx')
         /\ \A m \in tx' : /\ raw_capture.ready_pending
                          /\ m.status = "READY" /\ m.session = raw_capture.session_id
<1>1. /\ phase = "wait" /\ raw_capture \in CaptureType /\ store \in [Slots -> Cells]
      /\ CaptureSound(raw_capture, store) /\ StillOpen(raw_capture) /\ ~raw_capture.complete
  BY DEF IInv, PollChunk, TypeOK
<1>2. PICK o \in Outcomes(pc_mac) :
        /\ RawCaptureProcess(ServiceReady(raw_capture, o), f, TRUE)
        /\ tx' = ReadyOut(raw_capture, o)
  BY DEF PollChunk
<1> DEFINE rc == ServiceReady(raw_capture, o)
<1>3. rc \in CaptureType /\ CaptureSound(rc, store) /\ StillOpen(rc) /\ ~rc.complete
  BY <1>1, ServiceReadyKeeps, ServiceReadySound
<1>4. /\ rc.armed = raw_capture.armed /\ rc.session_id = raw_capture.session_id
      /\ rc.active = raw_capture.active /\ rc.scan_id = raw_capture.scan_id
      /\ rc.expected_crc32 = raw_capture.expected_crc32
  BY <1>1, ServiceReadyKeeps
<1>5. rc.ready_pending => raw_capture.ready_pending BY <1>1, ServiceStartsNothing
<1>6. /\ IsFiniteSet(tx')
      /\ \A m \in tx' : /\ raw_capture.ready_pending
                       /\ m.status = "READY" /\ m.session = raw_capture.session_id
  BY <1>1, <1>2, ServiceStartsNothing
<1>7. RawCaptureProcess(rc, f, TRUE) BY <1>2
<1> HIDE DEF rc
<1>8. /\ raw_capture' \in CaptureType /\ CaptureSound(raw_capture', store')
      /\ result' = "COMPLETE" => raw_capture'.complete
  BY <1>1, <1>3, <1>7, ProcessSound
<1>9. /\ phase' \in {"wait", "received"}
      /\ phase' = "received" =>
           raw_capture'.active /\ store'[0].crc = raw_capture'.expected_crc32
  BY <1>1, <1>8, Received DEF PollChunk
<1>10. /\ raw_capture'.armed = rc.armed
       /\ raw_capture'.session_id = rc.session_id
       /\ raw_capture'.ready_pending => rc.ready_pending
       /\ raw_capture'.active =>
            /\ rc.armed
            /\ \/ /\ rc.active /\ raw_capture'.scan_id = rc.scan_id
                  /\ raw_capture'.expected_crc32 = rc.expected_crc32
               \/ /\ raw_capture'.scan_id = f.scan_id
                  /\ raw_capture'.expected_crc32 = f.scan_crc32
  BY <1>1, <1>3, <1>7, ProcessEffect
<1> QED BY <1>1, <1>4, <1>5, <1>6, <1>9, <1>10

-----------------------------------------------------------------------------
(***************************************************************************)
(* Steps of the board                                                      *)
(***************************************************************************)
\* The ring after a board's step: what is left of it, or nothing.
RingAfter(k) ==
  /\ ring' \in Seq(Frames) /\ Len(ring') <= Len(ring)
  /\ \A i \in 1 .. Len(ring') : i + k \in 1 .. Len(ring) /\ ring'[i] = ring[i + k]

LEMMA BoardFacts ==
  ASSUME TInv
  PROVE  /\ ring \in Seq(Frames) /\ Len(ring) \in Nat
         /\ host.run \in 1 .. Len(Plan) /\ HostRank \in Nat
         /\ \A i \in 1 .. Len(ring) :
              /\ ring[i] \in Frames /\ ring[i].kind \in {"start", "chunk"}
              /\ FrameRun(ring[i]) \in 1 .. host.run
              /\ OfRun(ring[i], FrameRun(ring[i]))
              /\ Rank(ring[i]) \in Nat /\ Rank(ring[i]) <= HostRank
              /\ ring[i].kind = "start" => Rank(ring[i]) = 2 * FrameRun(ring[i])
              /\ ring[i].kind = "chunk" => Rank(ring[i]) = 2 * FrameRun(ring[i]) + 1
<1>1. ring \in Seq(Frames) /\ Len(ring) \in Nat BY DEF TInv, RingOK
<1>2. host.run \in 1 .. Len(Plan) /\ HostRank \in Nat BY HostFacts
<1>3. ASSUME NEW i \in 1 .. Len(ring)
      PROVE  /\ ring[i] \in Frames /\ ring[i].kind \in {"start", "chunk"}
             /\ FrameRun(ring[i]) \in 1 .. host.run
             /\ OfRun(ring[i], FrameRun(ring[i]))
             /\ Rank(ring[i]) \in Nat /\ Rank(ring[i]) <= HostRank
             /\ ring[i].kind = "start" => Rank(ring[i]) = 2 * FrameRun(ring[i])
             /\ ring[i].kind = "chunk" => Rank(ring[i]) = 2 * FrameRun(ring[i]) + 1
  <2>1. PICK r \in 1 .. host.run : OfRun(ring[i], r) /\ Rank(ring[i]) <= HostRank
    BY DEF TInv, RingOK
  <2>2. r \in 1 .. Len(Plan) BY <1>2, <2>1, Constants
  <2>3. ring[i] \in Frames BY <1>1
  <2> QED BY <2>1, <2>2, <2>3, FrameOfRun
<1> QED BY <1>1, <1>2, <1>3

\* A step of the board, given what it does to its session and to the run's end.
LEMMA BoardStep ==
  ASSUME TInv, IInv', host' = host, confirmed' = confirmed,
         NEW k \in Nat, RingAfter(k),
         BoardOK',
         \A q \in 1 .. host.run : Seen(q) => Seen(q)',
         \A q \in 1 .. host.run : Gone(q) => Gone(q)',
         \/ handled' = handled
         \/ \E r \in 1 .. host.run :
              handled' = Append(handled, Plan[r]) /\ Gone(r)' /\ ~Handled(Plan[r]),
         inbox' \subseteq StatusDatagrams,
         \A m \in inbox' :
           \/ m \in inbox
           \/ m.status = "READY" /\ \E q \in 1 .. host.run : m.session = Plan[q].id /\ Seen(q)'
           \/ m.status = "PROCESS_DONE"
              /\ \E q \in 1 .. host.run : m.session = Plan[q].id /\ Handled(Plan[q]),
         PreparedOK',
         lost' \in 0 .. MaxLost, reboots' \in 0 .. MaxReboots
  PROVE  TInv'
<1> USE Constants
<1>1. /\ ring \in Seq(Frames) /\ Len(ring) \in Nat /\ Len(ring) <= RingSize
      /\ ring' \in Seq(Frames) /\ Len(ring') \in Nat /\ Len(ring') <= Len(ring)
      /\ \A i \in 1 .. Len(ring') : i + k \in 1 .. Len(ring) /\ ring'[i] = ring[i + k]
  <2>1. Len(ring) <= RingSize BY DEF TInv, LinkOK
  <2>2. Len(ring') \in Nat BY DEF RingAfter
  <2> QED BY <2>1, <2>2, BoardFacts DEF RingAfter
<1>2. HostRank' = HostRank /\ HostRank \in Nat BY HostFacts DEF HostRank, Early
<1>3. handled \in Seq([data : Transfers, id : Nat]) /\ Len(handled) \in Nat
  BY DEF TInv, HandledOK
<1>4. /\ handled' \in Seq([data : Transfers, id : Nat])
      /\ Len(handled) <= Len(handled') /\ Len(handled') \in Nat
      /\ \A i \in 1 .. Len(handled) : handled'[i] = handled[i]
      /\ \A i \in 1 .. Len(handled') :
           \/ i \in 1 .. Len(handled)
           \/ /\ i = Len(handled) + 1
              /\ \E r \in 1 .. host.run : handled'[i] = Plan[r] /\ Gone(r)' /\ ~Handled(Plan[r])
  <2>1. CASE handled' = handled BY <1>3, <2>1
  <2>2. ASSUME NEW r \in 1 .. host.run, handled' = Append(handled, Plan[r]),
               Gone(r)', ~Handled(Plan[r])
        PROVE  <1>4!1 /\ <1>4!2 /\ <1>4!3 /\ <1>4!4
    <3>0. r \in 1 .. Len(Plan) BY HostFacts
    <3> DEFINE x == Plan[r]
               S == [data : Transfers, id : Nat]
    <3>1. x \in S BY <3>0, PlanScan
    <3>2. handled' = Append(handled, x) /\ handled \in Seq(S) BY <1>3, <2>2
    <3> HIDE DEF x, S
    <3>3. /\ handled' \in Seq(S) /\ Len(handled') = Len(handled) + 1
          /\ \A i \in 1 .. Len(handled) : handled'[i] = handled[i]
          /\ handled'[Len(handled) + 1] = x
      BY <1>3, <3>1, <3>2
    <3>4. \A i \in 1 .. Len(handled) + 1 : i \in 1 .. Len(handled) \/ i = Len(handled) + 1
      BY <1>3
    <3> QED BY <1>3, <2>2, <3>3, <3>4 DEF x, S
  <2> QED BY <2>1, <2>2
<1>5. \A s : Handled(s) => Handled(s)'
  <2> SUFFICES ASSUME NEW s, Handled(s) PROVE Handled(s)' OBVIOUS
  <2>1. PICK i \in 1 .. Len(handled) : handled[i] = s BY DEF Handled
  <2>2. Len(handled) <= Len(handled') /\ Len(handled') \in Nat /\ handled'[i] = handled[i]
    BY <1>4
  <2>3. i \in 1 .. Len(handled') BY <1>3, <2>2
  <2> QED BY <2>1, <2>2, <2>3 DEF Handled
<1>6. HostOK'
  <2>1. host.pc \in {"send", "await_done"} => Seen(host.run)' BY HostFacts
  <2> QED BY <2>1 DEF TInv, HostOK, Current, Seen
<1>7. RingOK'
  <2>1. ASSUME NEW i \in 1 .. Len(ring')
        PROVE  /\ \E r \in 1 .. host'.run : OfRun(ring'[i], r)
               /\ Rank(ring'[i]) <= HostRank'
               /\ ring'[i].kind = "chunk" => Seen(FrameRun(ring[i]))'
    <3> DEFINE j == i + k
    <3>1. j \in 1 .. Len(ring) /\ ring'[i] = ring[j] BY <1>1
    <3> HIDE DEF j
    <3>0. PICK q \in 1 .. host.run : FrameRun(ring[j]) = q BY <3>1, BoardFacts
    <3>2. /\ \E r \in 1 .. host.run : OfRun(ring[j], r)
          /\ Rank(ring[j]) <= HostRank
          /\ ring[j].kind = "chunk" => Seen(q)
      BY <3>0, <3>1 DEF TInv, RingOK
    <3>3. q \in 1 .. host.run /\ FrameRun(ring[i])' = q BY <3>0, <3>1
    <3>4. ring'[i].kind = "chunk" => Seen(q)' BY <3>1, <3>2, <3>3
    <3>5. ring'[i].kind = "chunk" => Seen(FrameRun(ring[i]))'
      BY <3>3, <3>4 DEF Seen
    <3> QED BY <1>2, <3>1, <3>2, <3>5
  <2>2. ASSUME NEW i \in 1 .. Len(ring'), NEW j \in 1 .. Len(ring'), i < j
        PROVE  Rank(ring'[i]) <= Rank(ring'[j])
    <3>1. /\ i + k \in 1 .. Len(ring) /\ j + k \in 1 .. Len(ring) /\ i + k < j + k
          /\ ring'[i] = ring[i + k] /\ ring'[j] = ring[j + k]
      BY <1>1, <2>2
    <3> QED BY <3>1 DEF TInv, RingOK
  <2> QED BY <1>1, <2>1, <2>2 DEF RingOK
<1>8. HandledOK'
  <2>1. ASSUME NEW i \in 1 .. Len(handled')
        PROVE  \E r \in 1 .. host'.run : handled'[i] = Plan[r] /\ Gone(r)'
    <3>1. CASE i \in 1 .. Len(handled)
      <4>1. PICK r \in 1 .. host.run : handled[i] = Plan[r] /\ Gone(r)
        BY <3>1 DEF TInv, HandledOK
      <4>2. Gone(r)' BY <4>1
      <4> QED BY <1>4, <3>1, <4>1, <4>2
    <3> QED BY <1>4, <3>1
  <2>2. ASSUME NEW i \in 1 .. Len(handled'), NEW j \in 1 .. Len(handled'),
               handled'[i] = handled'[j]
        PROVE  i = j
    <3>1. CASE i \in 1 .. Len(handled) /\ j \in 1 .. Len(handled)
      BY <1>4, <2>2, <3>1 DEF TInv, HandledOK
    <3>2. CASE i \in 1 .. Len(handled) /\ j \notin 1 .. Len(handled)
      <4>1. ~Handled(handled'[j]) BY <1>4, <3>2
      <4> QED BY <1>4, <2>2, <3>2, <4>1 DEF Handled
    <3>3. CASE i \notin 1 .. Len(handled) /\ j \in 1 .. Len(handled)
      <4>1. ~Handled(handled'[i]) BY <1>4, <3>3
      <4> QED BY <1>4, <2>2, <3>3, <4>1 DEF Handled
    <3>4. CASE i \notin 1 .. Len(handled) /\ j \notin 1 .. Len(handled)
      BY <1>4, <3>4
    <3> QED BY <3>1, <3>2, <3>3, <3>4
  <2> QED BY <1>4, <2>1, <2>2 DEF HandledOK
<1>9. InboxOK'
  <2>1. ASSUME NEW m \in inbox'
        PROVE  \E q \in 1 .. host'.run :
                 /\ m.session = Plan[q].id
                 /\ m.status = "READY" => Seen(q)'
                 /\ m.status = "PROCESS_DONE" => Handled(Plan[q])'
    <3>1. CASE m \in inbox
      <4>1. PICK q \in 1 .. host.run :
              /\ m.session = Plan[q].id
              /\ m.status = "READY" => Seen(q)
              /\ m.status = "PROCESS_DONE" => Handled(Plan[q])
        BY <3>1 DEF TInv, InboxOK
      <4> QED BY <1>5, <4>1
    <3>2. CASE m.status = "READY" /\ \E q \in 1 .. host.run : m.session = Plan[q].id /\ Seen(q)'
      BY <3>2
    <3>3. CASE m.status = "PROCESS_DONE"
               /\ \E q \in 1 .. host.run : m.session = Plan[q].id /\ Handled(Plan[q])
      BY <1>5, <3>3
    <3> QED BY <3>1, <3>2, <3>3
  <2> QED BY <2>1 DEF InboxOK
<1>10. ConfirmedOK'
  <2>1. ASSUME NEW s \in confirmed PROVE \E r \in 1 .. host.run : s = Plan[r] /\ Handled(s)'
    BY <1>5 DEF TInv, ConfirmedOK
  <2> QED BY <2>1 DEF ConfirmedOK
<1>11. LinkOK' BY <1>1 DEF LinkOK
<1> QED BY <1>6, <1>7, <1>8, <1>9, <1>10, <1>11 DEF TInv

\* A step in which the board's session stays, or ends.
LEMMA KeepSession ==
  ASSUME TInv, host' = host, NEW k \in Nat, RingAfter(k),
         raw_capture'.armed =>
           raw_capture.armed /\ raw_capture'.session_id = raw_capture.session_id,
         raw_capture'.armed /\ phase' \in {"wait", "received"} => phase \in {"wait", "received"}
  PROVE  /\ HostRank' = HostRank
         /\ \A q \in 1 .. host.run : Seen(q) => Seen(q)'
         /\ \A q \in 1 .. host.run : Gone(q) => Gone(q)'
         /\ raw_capture'.armed =>
              /\ BoardRun' = BoardRun /\ BoardRun \in 1 .. host.run
              /\ raw_capture'.session_id = Plan[BoardRun].id
              /\ \A i \in 1 .. Len(ring') : 2 * BoardRun <= Rank(ring'[i])
         /\ raw_capture.active =>
              /\ 2 * BoardRun + 1 <= HostRank
              /\ \A i \in 1 .. Len(ring') : 2 * BoardRun + 1 <= Rank(ring'[i])
<1>1. HostRank' = HostRank BY DEF HostRank, Early
<1>2. raw_capture'.armed => BoardRun' = BoardRun BY DEF BoardRun
<1>3. \A i \in 1 .. Len(ring') : i + k \in 1 .. Len(ring) /\ ring'[i] = ring[i + k]
  BY DEF RingAfter
<1>4. ASSUME NEW q \in 1 .. host.run, Seen(q) PROVE Seen(q)'
  BY <1>2, <1>3, <1>4 DEF Seen
<1>5. ASSUME NEW q \in 1 .. host.run, Gone(q) PROVE Gone(q)'
  BY <1>1, <1>2, <1>3, <1>5 DEF Gone
<1>6. raw_capture'.armed =>
        /\ BoardRun \in 1 .. host.run /\ raw_capture'.session_id = Plan[BoardRun].id
        /\ \A i \in 1 .. Len(ring') : 2 * BoardRun <= Rank(ring'[i])
  BY <1>3 DEF TInv, BoardOK
<1>7. raw_capture.active =>
        /\ 2 * BoardRun + 1 <= HostRank
        /\ \A i \in 1 .. Len(ring') : 2 * BoardRun + 1 <= Rank(ring'[i])
  BY <1>3 DEF TInv, BoardOK
<1> QED BY <1>1, <1>2, <1>4, <1>5, <1>6, <1>7

\* A step that leaves the session and the capture as they are.
LEMMA KeepCapture ==
  ASSUME TInv, host' = host, NEW k \in Nat, RingAfter(k),
         raw_capture'.armed = raw_capture.armed,
         raw_capture'.session_id = raw_capture.session_id,
         raw_capture'.active = raw_capture.active,
         raw_capture'.scan_id = raw_capture.scan_id,
         raw_capture'.expected_crc32 = raw_capture.expected_crc32,
         raw_capture'.ready_pending => raw_capture.ready_pending,
         phase' \in {"wait", "received"} => phase \in {"wait", "received"},
         phase' = "wait" => phase = "wait",
         phase' # "wait" => raw_capture.active,
         phase' = "received" => HeldTransfer' = Plan[BoardRun].data,
         phase' = "reply" => Handled(Plan[BoardRun])'
  PROVE  BoardOK'
<1>1. /\ HostRank' = HostRank /\ BoardRun' = BoardRun
      /\ raw_capture.armed =>
              /\ BoardRun \in 1 .. host.run
              /\ raw_capture'.session_id = Plan[BoardRun].id
              /\ \A i \in 1 .. Len(ring') : 2 * BoardRun <= Rank(ring'[i])
      /\ raw_capture.active =>
              /\ 2 * BoardRun + 1 <= HostRank
              /\ \A i \in 1 .. Len(ring') : 2 * BoardRun + 1 <= Rank(ring'[i])
  BY KeepSession DEF BoardRun
<1>2. /\ raw_capture.ready_pending => raw_capture.armed
      /\ raw_capture.active =>
           /\ raw_capture.armed
           /\ raw_capture.scan_id = Plan[BoardRun].id
           /\ phase = "wait" => raw_capture.expected_crc32 = Plan[BoardRun].data
  BY DEF TInv, BoardOK
<1> QED BY <1>1, <1>2 DEF BoardOK

\* What the network makes of the status datagrams of a step.
LEMMA Delivered ==
  ASSUME TInv, TypeOK', IsFiniteSet(tx'), Deliver
  PROVE  /\ lost' \in 0 .. MaxLost
         /\ inbox' \subseteq StatusDatagrams
         /\ \A m \in inbox' : m \in inbox \/ m \in tx'
<1> DEFINE arriving == {m \in tx' : m.port = Port(host.run)}
<1>1. PICK got \in SUBSET arriving :
        /\ lost + Cardinality(arriving \ got) <= MaxLost
        /\ lost' = lost + Cardinality(arriving \ got)
        /\ inbox' = inbox \cup got
  BY DEF Deliver
<1>2. arriving \ got \subseteq tx' OBVIOUS
<1>3. Cardinality(arriving \ got) \in Nat BY <1>2, FS_Subset, FS_CardinalityType
<1>4. got \subseteq tx' OBVIOUS
<1> HIDE DEF arriving
<1>5. lost \in Nat BY HostFacts, Constants
<1>6. lost' \in 0 .. MaxLost BY <1>1, <1>3, <1>5, Constants
<1>7. inbox \subseteq StatusDatagrams /\ tx' \subseteq StatusDatagrams
  BY DEF TInv, InboxOK, TypeOK
<1> QED BY <1>1, <1>4, <1>6, <1>7

\* The client finds prepared what it found prepared before.
LEMMA KeepPrepared ==
  ASSUME TInv, host' = host, reboots' = reboots,
         raw_capture'.armed = raw_capture.armed,
         raw_capture'.session_id = raw_capture.session_id,
         \A m \in inbox' :
           \/ m \in inbox
           \/ m.status = "READY" /\ m.session = raw_capture.session_id /\ raw_capture.ready_pending
           \/ m.status = "PROCESS_DONE"
  PROVE  PreparedOK'
<1>1. raw_capture.ready_pending => raw_capture.armed BY DEF TInv, BoardOK
<1> QED BY <1>1 DEF TInv, PreparedOK, Early, Current

\* A READY of the session is about a run whose START the board has seen.
LEMMA ReadySeen ==
  ASSUME TInv, raw_capture.ready_pending
  PROVE  /\ BoardRun \in 1 .. host.run /\ raw_capture.session_id = Plan[BoardRun].id
         /\ Seen(BoardRun)
<1>1. /\ raw_capture.armed
      /\ BoardRun \in 1 .. host.run /\ raw_capture.session_id = Plan[BoardRun].id
      /\ \A i \in 1 .. Len(ring) : 2 * BoardRun <= Rank(ring[i])
  BY DEF TInv, BoardOK
<1>2. ASSUME NEW i \in 1 .. Len(ring), ring[i].kind = "start"
      PROVE  BoardRun <= FrameRun(ring[i])
  <2>1. Rank(ring[i]) = 2 * FrameRun(ring[i]) /\ FrameRun(ring[i]) \in 1 .. host.run
    BY <1>2, BoardFacts
  <2> QED BY <1>1, <2>1, BoardFacts
<1>3. BoardRun <= BoardRun BY <1>1, BoardFacts
<1> QED BY <1>1, <1>2, <1>3 DEF Seen

LEMMA SameRing ==
  ASSUME TInv, ring' = ring PROVE RingAfter(0)
BY BoardFacts DEF RingAfter

LEMMA RingTail ==
  ASSUME TInv, ring # <<>>, ring' = Tail(ring)
  PROVE  RingAfter(1) /\ Head(ring) = ring[1] /\ 1 \in 1 .. Len(ring)
<1>1. ring \in Seq(Frames) BY BoardFacts
<1>2. /\ Len(ring) \in Nat \ {0} /\ Head(ring) = ring[1]
      /\ ring' \in Seq(Frames) /\ Len(ring') = Len(ring) - 1
      /\ \A i \in 1 .. Len(ring') : ring'[i] = ring[i + 1]
  BY <1>1
<1> QED BY <1>1, <1>2 DEF RingAfter

\* The steps of RawCapture that the composition takes.
LEMMA BoardSteps ==
  ASSUME TInv
  PROVE  /\ PollNoFrame \/ ProcessScan \/ RejectScan \/ SendProcessDone \/ UdpWaitScan
              \/ Reboot => Next /\ IInv'
         /\ ring # <<>> /\ EthCapturePoll(Head(ring), TRUE) => Next /\ IInv'
<1>1. Next => IInv' BY NextIInv DEF TInv
<1>2. ring # <<>> => Head(ring) \in Frames BY BoardFacts
<1>3. TRUE \in BOOLEAN OBVIOUS
<1>4. ASSUME ring # <<>>, EthCapturePoll(Head(ring), TRUE) PROVE Receive
  BY <1>2, <1>3, <1>4 DEF Receive
<1> QED BY <1>1, <1>4 DEF Next, Main

LEMMA BoardPollStep == ASSUME TInv, BoardPoll PROVE TInv'
<1>1. /\ PollNoFrame /\ Deliver /\ ring' = ring /\ reboots' = reboots
      /\ handled' = handled /\ host' = host /\ confirmed' = confirmed
  BY DEF BoardPoll, clientVars
<1>2. IInv /\ IInv' BY <1>1, BoardSteps DEF TInv
<1>3. /\ phase = "wait" /\ phase' \in {"wait", "received"}
      /\ raw_capture'.armed = raw_capture.armed
      /\ raw_capture'.session_id = raw_capture.session_id
      /\ raw_capture'.active = raw_capture.active
      /\ raw_capture'.scan_id = raw_capture.scan_id
      /\ raw_capture'.expected_crc32 = raw_capture.expected_crc32
      /\ raw_capture'.ready_pending => raw_capture.ready_pending
      /\ phase' = "received" =>
           raw_capture'.active /\ store'[0].crc = raw_capture'.expected_crc32
      /\ IsFiniteSet(tx')
      /\ \A m \in tx' : /\ raw_capture.ready_pending
                       /\ m.status = "READY" /\ m.session = raw_capture.session_id
  BY <1>1, <1>2, NoFrameEffect
<1>4. RingAfter(0) BY <1>1, SameRing
<1>5. /\ lost' \in 0 .. MaxLost /\ inbox' \subseteq StatusDatagrams
      /\ \A m \in inbox' : m \in inbox \/ m \in tx'
  BY <1>1, <1>2, <1>3, Delivered DEF IInv
<1>6. /\ \A q \in 1 .. host.run : Seen(q) => Seen(q)'
      /\ \A q \in 1 .. host.run : Gone(q) => Gone(q)'
  BY <1>1, <1>3, <1>4, KeepSession
<1>7. phase' = "received" => HeldTransfer' = Plan[BoardRun].data
  BY <1>3 DEF TInv, BoardOK, HeldTransfer
<1>8. BoardOK' BY <1>1, <1>3, <1>4, <1>7, KeepCapture
<1>9. PreparedOK' BY <1>1, <1>3, <1>5, KeepPrepared
<1>10. \A m \in inbox' :
         \/ m \in inbox
         \/ m.status = "READY" /\ \E q \in 1 .. host.run : m.session = Plan[q].id /\ Seen(q)'
         \/ m.status = "PROCESS_DONE"
            /\ \E q \in 1 .. host.run : m.session = Plan[q].id /\ Handled(Plan[q])
  <2> SUFFICES ASSUME NEW m \in tx'
               PROVE  /\ m.status = "READY"
                      /\ \E q \in 1 .. host.run : m.session = Plan[q].id /\ Seen(q)'
    BY <1>5
  <2>1. /\ BoardRun \in 1 .. host.run /\ raw_capture.session_id = Plan[BoardRun].id
        /\ Seen(BoardRun)
    BY <1>3, ReadySeen
  <2>2. PICK q \in 1 .. host.run : BoardRun = q BY <2>1
  <2>3. Seen(q)' BY <1>6, <2>1, <2>2
  <2> QED BY <1>3, <2>1, <2>2, <2>3
<1>11. reboots' \in 0 .. MaxReboots BY <1>1 DEF TInv, LinkOK
<1> QED BY <1>1, <1>2, <1>4, <1>5, <1>6, <1>8, <1>9, <1>10, <1>11, BoardStep

LEMMA ReceiveStartStep ==
  ASSUME TInv, BoardReceive, Head(ring).kind = "start"
  PROVE  TInv'
<1> DEFINE f == Head(ring)
<1>1. /\ ring # <<>> /\ EthCapturePoll(f, TRUE) /\ Deliver /\ ring' = Tail(ring)
      /\ reboots' = reboots /\ handled' = handled /\ host' = host /\ confirmed' = confirmed
  BY DEF BoardReceive, clientVars
<1>2. IInv /\ IInv' BY <1>1, BoardSteps DEF TInv
<1>3. RingAfter(1) /\ f = ring[1] /\ 1 \in 1 .. Len(ring) BY <1>1, RingTail
<1>4. PICK r \in 1 .. host.run : FrameRun(f) = r BY <1>3, BoardFacts
<1>5. /\ f \in StartFrames /\ f.session = Plan[r].id /\ Rank(f) = 2 * r
  BY <1>3, <1>4, BoardFacts, FrameKinds DEF OfRun
<1>6. PollStart(f, TRUE) BY <1>1 DEF EthCapturePoll
<1> HIDE DEF f
<1>7. /\ phase = "wait" /\ phase' = phase
      /\ raw_capture'.armed /\ raw_capture'.session_id = f.session
      /\ raw_capture'.active =>
           /\ raw_capture.active /\ raw_capture.session_id = f.session
           /\ raw_capture'.scan_id = raw_capture.scan_id
           /\ raw_capture'.expected_crc32 = raw_capture.expected_crc32
      /\ IsFiniteSet(tx')
      /\ \A m \in tx' :
           /\ m.status = "READY"
           /\ \/ raw_capture.ready_pending /\ m.session = raw_capture.session_id
              \/ m.session = f.session
  BY <1>2, <1>5, <1>6, StartEffect
<1>8. r \in 1 .. Len(Plan) /\ host.run \in 1 .. Len(Plan) BY BoardFacts
<1>9. BoardRun' = r BY <1>5, <1>7, <1>8, RunOfPlan DEF BoardRun
<1>10. \A i \in 1 .. Len(ring') : i + 1 \in 1 .. Len(ring) /\ ring'[i] = ring[i + 1]
  BY <1>3 DEF RingAfter
<1>11. \A i \in 1 .. Len(ring') : 2 * r <= Rank(ring'[i])
  <2> SUFFICES ASSUME NEW i \in 1 .. Len(ring') PROVE 2 * r <= Rank(ring'[i]) OBVIOUS
  <2>1. i + 1 \in 1 .. Len(ring) /\ ring'[i] = ring[i + 1] /\ 1 < i + 1 BY <1>10
  <2>2. Rank(ring[1]) <= Rank(ring[i + 1]) BY <1>3, <2>1 DEF TInv, RingOK
  <2> QED BY <1>3, <1>5, <2>1, <2>2
<1>12. raw_capture.armed =>
         /\ BoardRun \in 1 .. host.run /\ BoardRun <= r
         /\ raw_capture.session_id = Plan[BoardRun].id
  <2>1. raw_capture.armed =>
          /\ BoardRun \in 1 .. host.run /\ raw_capture.session_id = Plan[BoardRun].id
          /\ 2 * BoardRun <= Rank(ring[1])
    BY <1>3 DEF TInv, BoardOK
  <2> QED BY <1>3, <1>5, <2>1
<1>13. HostRank' = HostRank BY <1>1 DEF HostRank, Early
<1>14. ASSUME NEW q \in 1 .. host.run, Seen(q) PROVE Seen(q)'
  <2>1. q <= r BY <1>3, <1>4, <1>14 DEF Seen, f
  <2> QED BY <1>9, <1>10, <1>14, <2>1 DEF Seen
<1>15. ASSUME NEW q \in 1 .. host.run, Gone(q) PROVE Gone(q)'
  <2>1. 2 * q + 1 <= 2 * r BY <1>3, <1>5, <1>15 DEF Gone
  <2>2. q < r BY <2>1
  <2> QED BY <1>9, <1>10, <1>13, <1>15, <2>2 DEF Gone
<1>16. BoardOK'
  <2>1. raw_capture'.active =>
          /\ raw_capture'.scan_id = Plan[r].id
          /\ 2 * r + 1 <= HostRank
          /\ \A i \in 1 .. Len(ring') : 2 * r + 1 <= Rank(ring'[i])
          /\ raw_capture'.expected_crc32 = Plan[r].data
    <3> SUFFICES ASSUME raw_capture'.active
                 PROVE  /\ raw_capture'.scan_id = Plan[r].id
                        /\ 2 * r + 1 <= HostRank
                        /\ \A i \in 1 .. Len(ring') : 2 * r + 1 <= Rank(ring'[i])
                        /\ raw_capture'.expected_crc32 = Plan[r].data
      OBVIOUS
    <3>1. BoardRun = r BY <1>5, <1>7, <1>8, RunOfPlan DEF BoardRun
    <3>2. /\ raw_capture.scan_id = Plan[BoardRun].id
          /\ 2 * BoardRun + 1 <= HostRank
          /\ \A i \in 1 .. Len(ring) : 2 * BoardRun + 1 <= Rank(ring[i])
          /\ raw_capture.expected_crc32 = Plan[BoardRun].data
      BY <1>7 DEF TInv, BoardOK
    <3> QED BY <1>7, <1>10, <3>1, <3>2
  <2> QED BY <1>1, <1>5, <1>7, <1>9, <1>11, <1>13, <2>1 DEF BoardOK
<1>17. /\ lost' \in 0 .. MaxLost /\ inbox' \subseteq StatusDatagrams
       /\ \A m \in inbox' : m \in inbox \/ m \in tx'
  BY <1>1, <1>2, <1>7, Delivered DEF IInv
<1>18. Seen(r)'
  <2>1. ASSUME NEW i \in 1 .. Len(ring'), ring'[i].kind = "start"
        PROVE  r <= FrameRun(ring'[i])
    <3>1. i + 1 \in 1 .. Len(ring) /\ ring'[i] = ring[i + 1] BY <1>10
    <3>2. Rank(ring'[i]) = 2 * FrameRun(ring'[i]) /\ FrameRun(ring'[i]) \in 1 .. host.run
      BY <2>1, <3>1, BoardFacts
    <3> QED BY <1>8, <1>11, <3>2
  <2>2. r <= r BY <1>8
  <2> QED BY <1>9, <2>1, <2>2 DEF Seen
<1>19. \A m \in inbox' :
         \/ m \in inbox
         \/ m.status = "READY" /\ \E q \in 1 .. host.run : m.session = Plan[q].id /\ Seen(q)'
         \/ m.status = "PROCESS_DONE"
            /\ \E q \in 1 .. host.run : m.session = Plan[q].id /\ Handled(Plan[q])
  <2> SUFFICES ASSUME NEW m \in tx'
               PROVE  /\ m.status = "READY"
                      /\ \E q \in 1 .. host.run : m.session = Plan[q].id /\ Seen(q)'
    BY <1>17
  <2>1. CASE raw_capture.ready_pending /\ m.session = raw_capture.session_id
    <3>1. PICK q \in 1 .. host.run : BoardRun = q BY <2>1, ReadySeen
    <3>2. raw_capture.session_id = Plan[q].id /\ Seen(q) BY <2>1, <3>1, ReadySeen
    <3> QED BY <1>7, <1>14, <2>1, <3>2
  <2>2. CASE m.session = f.session BY <1>5, <1>7, <1>18, <2>2
  <2> QED BY <1>7, <2>1, <2>2
<1>20. PreparedOK'
  <2> SUFFICES ASSUME reboots = 0, Early,
                      \/ host.pc = "send"
                      \/ \E m \in inbox' : m.status = "READY" /\ m.session = Current.id
               PROVE  raw_capture'.session_id = Current.id
    BY <1>1, <1>7 DEF PreparedOK, Current, Early
  <2>1. CASE raw_capture.armed /\ raw_capture.session_id = Current.id
    <3>1. BoardRun = host.run BY <1>8, <2>1, RunOfPlan DEF BoardRun, Current
    <3>2. r = host.run BY <1>8, <1>12, <2>1, <3>1
    <3> QED BY <1>5, <1>7, <3>2 DEF Current
  <2>2. CASE f.session = Current.id BY <1>7, <2>2
  <2>3. CASE host.pc = "send" \/ \E m \in inbox : m.status = "READY" /\ m.session = Current.id
    BY <2>1, <2>3 DEF TInv, PreparedOK
  <2>4. CASE raw_capture.ready_pending /\ raw_capture.session_id = Current.id
    BY <2>1, <2>4 DEF TInv, BoardOK
  <2> QED BY <1>7, <1>17, <2>2, <2>3, <2>4
<1>21. reboots' \in 0 .. MaxReboots BY <1>1 DEF TInv, LinkOK
<1> QED BY <1>1, <1>2, <1>3, <1>14, <1>15, <1>16, <1>17, <1>19, <1>20, <1>21, BoardStep

LEMMA ReceiveChunkStep ==
  ASSUME TInv, BoardReceive, Head(ring).kind = "chunk"
  PROVE  TInv'
<1> DEFINE f == Head(ring)
<1>1. /\ ring # <<>> /\ EthCapturePoll(f, TRUE) /\ Deliver /\ ring' = Tail(ring)
      /\ reboots' = reboots /\ handled' = handled /\ host' = host /\ confirmed' = confirmed
  BY DEF BoardReceive, clientVars
<1>2. IInv /\ IInv' BY <1>1, BoardSteps DEF TInv
<1>3. RingAfter(1) /\ f = ring[1] /\ 1 \in 1 .. Len(ring) BY <1>1, RingTail
<1>4. PICK r \in 1 .. host.run : FrameRun(f) = r BY <1>3, BoardFacts
<1>5. /\ f \in ChunkFrames /\ f.scan_id = Plan[r].id /\ f.scan_crc32 = Plan[r].data
      /\ Rank(f) = 2 * r + 1 /\ Rank(f) <= HostRank
  BY <1>3, <1>4, BoardFacts, FrameKinds DEF OfRun
<1>6. Seen(r) BY <1>3, <1>4 DEF TInv, RingOK
<1>7. PollChunk(f, TRUE) BY <1>1 DEF EthCapturePoll
<1> HIDE DEF f
<1>8. /\ phase = "wait" /\ phase' \in {"wait", "received"}
      /\ raw_capture'.armed = raw_capture.armed
      /\ raw_capture'.session_id = raw_capture.session_id
      /\ raw_capture'.ready_pending => raw_capture.ready_pending
      /\ raw_capture'.active =>
           /\ raw_capture.armed
           /\ \/ /\ raw_capture.active /\ raw_capture'.scan_id = raw_capture.scan_id
                 /\ raw_capture'.expected_crc32 = raw_capture.expected_crc32
              \/ /\ raw_capture'.scan_id = f.scan_id
                 /\ raw_capture'.expected_crc32 = f.scan_crc32
      /\ phase' = "received" =>
           raw_capture'.active /\ store'[0].crc = raw_capture'.expected_crc32
      /\ IsFiniteSet(tx')
      /\ \A m \in tx' : /\ raw_capture.ready_pending
                       /\ m.status = "READY" /\ m.session = raw_capture.session_id
  BY <1>2, <1>5, <1>7, ChunkEffect
<1>9. /\ HostRank' = HostRank
      /\ \A q \in 1 .. host.run : Seen(q) => Seen(q)'
      /\ \A q \in 1 .. host.run : Gone(q) => Gone(q)'
      /\ raw_capture'.armed =>
           /\ BoardRun' = BoardRun /\ BoardRun \in 1 .. host.run
           /\ raw_capture'.session_id = Plan[BoardRun].id
           /\ \A i \in 1 .. Len(ring') : 2 * BoardRun <= Rank(ring'[i])
  BY <1>1, <1>3, <1>8, KeepSession
<1>10. \A i \in 1 .. Len(ring') : i + 1 \in 1 .. Len(ring) /\ ring'[i] = ring[i + 1]
  BY <1>3 DEF RingAfter
<1>11. \A i \in 1 .. Len(ring') : 2 * r + 1 <= Rank(ring'[i])
  <2> SUFFICES ASSUME NEW i \in 1 .. Len(ring') PROVE 2 * r + 1 <= Rank(ring'[i]) OBVIOUS
  <2>1. i + 1 \in 1 .. Len(ring) /\ ring'[i] = ring[i + 1] /\ 1 < i + 1 BY <1>10
  <2>2. Rank(ring[1]) <= Rank(ring[i + 1]) BY <1>3, <2>1 DEF TInv, RingOK
  <2> QED BY <1>3, <1>5, <2>1, <2>2
\* The chunk is of the run the board is armed for.
<1>12. raw_capture.armed => BoardRun = r
  <2> SUFFICES ASSUME raw_capture.armed PROVE BoardRun = r OBVIOUS
  <2>1. BoardRun \in 1 .. host.run /\ 2 * BoardRun <= 2 * r + 1
    BY <1>3, <1>5 DEF TInv, BoardOK
  <2>2. r <= BoardRun BY <1>6 DEF Seen
  <2> QED BY <2>1, <2>2
<1>13. raw_capture'.active =>
         /\ raw_capture'.armed /\ BoardRun = r
         /\ raw_capture'.scan_id = Plan[r].id
         /\ raw_capture'.expected_crc32 = Plan[r].data
  <2>1. raw_capture.active =>
          /\ raw_capture.scan_id = Plan[BoardRun].id
          /\ raw_capture.expected_crc32 = Plan[BoardRun].data
    BY <1>8 DEF TInv, BoardOK
  <2> QED BY <1>5, <1>8, <1>12, <2>1
<1>14. BoardOK'
  <2>1. raw_capture'.ready_pending => raw_capture'.armed BY <1>8 DEF TInv, BoardOK
  <2>2. phase' = "received" => HeldTransfer' = Plan[BoardRun'].data
    BY <1>8, <1>9, <1>13 DEF HeldTransfer
  <2>3. 2 * r + 1 <= HostRank BY <1>5
  <2> QED BY <1>1, <1>8, <1>9, <1>11, <1>13, <2>1, <2>2, <2>3 DEF BoardOK
<1>15. /\ lost' \in 0 .. MaxLost /\ inbox' \subseteq StatusDatagrams
       /\ \A m \in inbox' : m \in inbox \/ m \in tx'
  BY <1>1, <1>2, <1>8, Delivered DEF IInv
<1>16. PreparedOK' BY <1>1, <1>8, <1>15, KeepPrepared
<1>17. \A m \in inbox' :
         \/ m \in inbox
         \/ m.status = "READY" /\ \E q \in 1 .. host.run : m.session = Plan[q].id /\ Seen(q)'
         \/ m.status = "PROCESS_DONE"
            /\ \E q \in 1 .. host.run : m.session = Plan[q].id /\ Handled(Plan[q])
  <2> SUFFICES ASSUME NEW m \in tx'
               PROVE  /\ m.status = "READY"
                      /\ \E q \in 1 .. host.run : m.session = Plan[q].id /\ Seen(q)'
    BY <1>15
  <2>1. PICK q \in 1 .. host.run : BoardRun = q BY <1>8, ReadySeen
  <2>2. raw_capture.session_id = Plan[q].id /\ Seen(q) BY <1>8, <2>1, ReadySeen
  <2> QED BY <1>8, <1>9, <2>2
<1>18. reboots' \in 0 .. MaxReboots BY <1>1 DEF TInv, LinkOK
<1> QED BY <1>1, <1>2, <1>3, <1>9, <1>14, <1>15, <1>16, <1>17, <1>18, BoardStep

LEMMA BoardReceiveStep == ASSUME TInv, BoardReceive PROVE TInv'
<1>1. ring # <<>> BY DEF BoardReceive
<1>2. Head(ring) = ring[1] /\ 1 \in 1 .. Len(ring) BY <1>1, BoardFacts
<1>3. Head(ring).kind \in {"start", "chunk"} BY <1>2, BoardFacts
<1> QED BY <1>3, ReceiveStartStep, ReceiveChunkStep

\* The scan main.c processes is that of the run the board is armed for, and the
\* run is over by then: it has not been processed before.
LEMMA ProcessedRun ==
  ASSUME TInv, phase \in {"received", "reply"}
  PROVE  /\ raw_capture.armed /\ raw_capture.active
         /\ BoardRun \in 1 .. host.run /\ BoardRun \in 1 .. Len(Plan)
         /\ raw_capture.session_id = Plan[BoardRun].id
         /\ scan.scan_id = Plan[BoardRun].id
         /\ 2 * BoardRun + 1 <= HostRank
         /\ \A i \in 1 .. Len(ring) : 2 * BoardRun + 1 <= Rank(ring[i])
         /\ phase = "received" =>
              /\ Plan[BoardRun] = [data |-> HeldTransfer, id |-> scan.scan_id]
              /\ ~Handled(Plan[BoardRun])
<1>1. raw_capture.armed /\ raw_capture.active /\ raw_capture.scan_id = scan.scan_id
  BY DEF TInv, IInv, ReplyConsistent
<1>2. /\ BoardRun \in 1 .. host.run /\ raw_capture.session_id = Plan[BoardRun].id
      /\ raw_capture.scan_id = Plan[BoardRun].id
      /\ 2 * BoardRun + 1 <= HostRank
      /\ \A i \in 1 .. Len(ring) : 2 * BoardRun + 1 <= Rank(ring[i])
      /\ phase = "received" => HeldTransfer = Plan[BoardRun].data
  BY <1>1 DEF TInv, BoardOK
<1>3. BoardRun \in 1 .. Len(Plan) BY <1>2, BoardFacts
<1>4. Plan[BoardRun] \in [data : Transfers, id : Nat] BY <1>3, PlanScan
<1>5. phase = "received" => Plan[BoardRun] = [data |-> HeldTransfer, id |-> scan.scan_id]
  BY <1>1, <1>2, <1>4
<1>6. ASSUME phase = "received", Handled(Plan[BoardRun]) PROVE FALSE
  <2>1. PICK i \in 1 .. Len(handled) : handled[i] = Plan[BoardRun] BY <1>6 DEF Handled
  <2>2. PICK r \in 1 .. host.run : handled[i] = Plan[r] /\ Gone(r) BY DEF TInv, HandledOK
  <2>3. r \in 1 .. Len(Plan) BY BoardFacts
  <2>4. r = BoardRun BY <1>3, <2>1, <2>2, <2>3, ScanIdsDiffer
  <2>5. r < BoardRun BY <1>1, <1>6, <2>2 DEF Gone
  <2> QED BY <1>3, <2>4, <2>5
<1> QED BY <1>1, <1>2, <1>3, <1>5, <1>6

LEMMA BoardProcessStep == ASSUME TInv, BoardProcess PROVE TInv'
<1>1. /\ ProcessScan /\ ring' = ring /\ inbox' = inbox /\ lost' = lost /\ reboots' = reboots
      /\ host' = host /\ confirmed' = confirmed
      /\ handled' = Append(handled, [data |-> HeldTransfer, id |-> scan.scan_id])
      /\ phase = "received" /\ phase' = "reply" /\ raw_capture' = raw_capture
  BY DEF BoardProcess, ProcessScan, clientVars
<1>2. IInv' BY <1>1, BoardSteps
<1>3. RingAfter(0) BY <1>1, SameRing
<1>4. PICK r \in 1 .. host.run : BoardRun = r BY <1>1, ProcessedRun
<1>5. /\ raw_capture.active /\ handled' = Append(handled, Plan[r]) /\ ~Handled(Plan[r])
      /\ 2 * r + 1 <= HostRank /\ \A i \in 1 .. Len(ring) : 2 * r + 1 <= Rank(ring[i])
  BY <1>1, <1>4, ProcessedRun
<1>6. /\ HostRank' = HostRank
      /\ \A q \in 1 .. host.run : Seen(q) => Seen(q)'
      /\ \A q \in 1 .. host.run : Gone(q) => Gone(q)'
  BY <1>1, <1>3, KeepSession
<1>7. Gone(r)' BY <1>1, <1>5, <1>6 DEF Gone
<1>8. handled \in Seq([data : Transfers, id : Nat]) BY DEF TInv, HandledOK
<1>9. Handled(Plan[r])'
  <2>1. Len(handled) \in Nat /\ Len(handled') = Len(handled) + 1
        /\ handled'[Len(handled) + 1] = Plan[r]
    BY <1>5, <1>8
  <2>2. Len(handled) + 1 \in 1 .. Len(handled') BY <2>1
  <2> QED BY <2>1, <2>2 DEF Handled
<1>10. BoardRun' = r BY <1>1, <1>4 DEF BoardRun
<1>11. Handled(Plan[BoardRun])' BY <1>9, <1>10 DEF Handled
<1>12. BoardOK' BY <1>1, <1>3, <1>5, <1>11, KeepCapture
<1>13. PreparedOK' BY <1>1, KeepPrepared
<1>14. /\ inbox' \subseteq StatusDatagrams /\ lost' \in 0 .. MaxLost
       /\ reboots' \in 0 .. MaxReboots
  BY <1>1 DEF TInv, InboxOK, LinkOK
<1> QED BY <1>1, <1>2, <1>3, <1>5, <1>6, <1>7, <1>12, <1>13, <1>14, BoardStep

LEMMA BoardRejectStep == ASSUME TInv, BoardReject PROVE TInv'
<1>1. /\ RejectScan /\ ring' = ring /\ inbox' = inbox /\ lost' = lost /\ reboots' = reboots
      /\ host' = host /\ confirmed' = confirmed /\ handled' = handled
      /\ phase = "received" /\ phase' = "halted" /\ raw_capture' = raw_capture
  BY DEF BoardReject, RejectScan, clientVars
<1>2. IInv' BY <1>1, BoardSteps
<1>3. RingAfter(0) BY <1>1, SameRing
<1>4. /\ \A q \in 1 .. host.run : Seen(q) => Seen(q)'
      /\ \A q \in 1 .. host.run : Gone(q) => Gone(q)'
  BY <1>1, <1>3, KeepSession
<1>5. BoardOK' BY <1>1, <1>3, ProcessedRun, KeepCapture
<1>6. PreparedOK' BY <1>1, KeepPrepared
<1>7. /\ inbox' \subseteq StatusDatagrams /\ lost' \in 0 .. MaxLost
      /\ reboots' \in 0 .. MaxReboots
  BY <1>1 DEF TInv, InboxOK, LinkOK
<1> QED BY <1>1, <1>2, <1>3, <1>4, <1>5, <1>6, <1>7, BoardStep

LEMMA BoardReplyStep == ASSUME TInv, BoardReply PROVE TInv'
<1>1. /\ SendProcessDone /\ Deliver /\ ring' = ring /\ reboots' = reboots
      /\ host' = host /\ confirmed' = confirmed /\ handled' = handled
      /\ phase = "reply" /\ phase' = "reply" /\ raw_capture' = raw_capture
  BY DEF BoardReply, SendProcessDone, clientVars
<1>2. IInv' BY <1>1, BoardSteps
<1>3. RingAfter(0) BY <1>1, SameRing
<1>4. /\ \A q \in 1 .. host.run : Seen(q) => Seen(q)'
      /\ \A q \in 1 .. host.run : Gone(q) => Gone(q)'
  BY <1>1, <1>3, KeepSession
<1>5. tx' = {} \/ tx' = {Done(raw_capture)} BY <1>1 DEF SendProcessDone
<1>6. IsFiniteSet(tx') BY <1>5, FS_EmptySet, FS_Singleton
<1>7. \A m \in tx' : m.status = "PROCESS_DONE" /\ m.session = raw_capture.session_id
  BY <1>5 DEF Done
<1>8. /\ lost' \in 0 .. MaxLost /\ inbox' \subseteq StatusDatagrams
      /\ \A m \in inbox' : m \in inbox \/ m \in tx'
  BY <1>1, <1>2, <1>6, Delivered DEF IInv
<1>9. Handled(Plan[BoardRun]) BY <1>1 DEF TInv, BoardOK
<1>10. Handled(Plan[BoardRun])' BY <1>1, <1>9 DEF Handled, BoardRun
<1>11. BoardOK' BY <1>1, <1>3, <1>10, ProcessedRun, KeepCapture
<1>12. PreparedOK' BY <1>1, <1>7, <1>8, KeepPrepared
<1>13. \A m \in inbox' :
         \/ m \in inbox
         \/ m.status = "READY" /\ \E q \in 1 .. host.run : m.session = Plan[q].id /\ Seen(q)'
         \/ m.status = "PROCESS_DONE"
            /\ \E q \in 1 .. host.run : m.session = Plan[q].id /\ Handled(Plan[q])
  BY <1>1, <1>7, <1>8, <1>9, ProcessedRun
<1>14. reboots' \in 0 .. MaxReboots BY <1>1 DEF TInv, LinkOK
<1> QED BY <1>1, <1>2, <1>3, <1>4, <1>8, <1>11, <1>12, <1>13, <1>14, BoardStep

\* A reset of the capture leaves the board unarmed.
LEMMA ResetBoard ==
  ASSUME TInv, host' = host, NEW k \in Nat, RingAfter(k),
         raw_capture' = EthCaptureReset, phase' = "wait"
  PROVE  /\ BoardOK'
         /\ \A q \in 1 .. host.run : Seen(q) => Seen(q)'
         /\ \A q \in 1 .. host.run : Gone(q) => Gone(q)'
<1>1. ~raw_capture'.armed /\ ~raw_capture'.active /\ ~raw_capture'.ready_pending
  BY DEF EthCaptureReset, ZeroCapture
<1>2. BoardOK' BY <1>1 DEF BoardOK
<1> QED BY <1>1, <1>2, KeepSession

LEMMA BoardWaitStep == ASSUME TInv, BoardWait PROVE TInv'
<1>1. /\ UdpWaitScan /\ ring' = ring /\ inbox' = inbox /\ lost' = lost /\ reboots' = reboots
      /\ host' = host /\ confirmed' = confirmed /\ handled' = handled
      /\ phase = "reply" /\ phase' = "wait" /\ raw_capture' = EthCaptureReset
  BY DEF BoardWait, UdpWaitScan, clientVars
<1>2. IInv' BY <1>1, BoardSteps
<1>3. RingAfter(0) BY <1>1, SameRing
<1>4. /\ BoardOK' /\ \A q \in 1 .. host.run : Seen(q) => Seen(q)'
      /\ \A q \in 1 .. host.run : Gone(q) => Gone(q)'
  BY <1>1, <1>3, ResetBoard
<1>5. PreparedOK'
  <2> SUFFICES ASSUME reboots = 0, Early,
                      host.pc = "send" \/ \E m \in inbox : m.status = "READY" /\ m.session = Current.id
               PROVE  FALSE
    BY <1>1 DEF PreparedOK, Early, Current
  <2>1. raw_capture.session_id = Plan[host.run].id BY DEF TInv, PreparedOK, Current
  <2>2. BoardRun = host.run BY <2>1, RunOfPlan, HostFacts DEF BoardRun
  <2>3. HostRank = 2 * host.run BY HostFacts DEF HostRank
  <2>4. 2 * BoardRun + 1 <= HostRank BY <1>1, ProcessedRun
  <2> QED BY <2>2, <2>3, <2>4, HostFacts
<1>6. /\ inbox' \subseteq StatusDatagrams /\ lost' \in 0 .. MaxLost
      /\ reboots' \in 0 .. MaxReboots
  BY <1>1 DEF TInv, InboxOK, LinkOK
<1> QED BY <1>1, <1>2, <1>3, <1>4, <1>5, <1>6, BoardStep

LEMMA BoardRebootStep == ASSUME TInv, BoardReboot PROVE TInv'
<1>1. /\ Reboot /\ ring' = <<>> /\ inbox' = inbox /\ lost' = lost /\ reboots' = reboots + 1
      /\ host' = host /\ confirmed' = confirmed /\ handled' = handled
      /\ phase' = "wait" /\ raw_capture' = EthCaptureReset /\ reboots < MaxReboots
  BY DEF BoardReboot, Reboot, clientVars
<1>2. IInv' BY <1>1, BoardSteps
<1>3. RingAfter(0) BY <1>1, BoardFacts DEF RingAfter
<1>4. /\ BoardOK' /\ \A q \in 1 .. host.run : Seen(q) => Seen(q)'
      /\ \A q \in 1 .. host.run : Gone(q) => Gone(q)'
  BY <1>1, <1>3, ResetBoard
<1>5. /\ inbox' \subseteq StatusDatagrams /\ lost' \in 0 .. MaxLost
      /\ reboots \in Nat /\ reboots' \in 0 .. MaxReboots
  BY <1>1, Constants DEF TInv, InboxOK, LinkOK
<1>6. PreparedOK' BY <1>1, <1>5 DEF PreparedOK
<1> QED BY <1>1, <1>2, <1>3, <1>4, <1>5, <1>6, BoardStep

-----------------------------------------------------------------------------
(***************************************************************************)
(* The invariant holds                                                     *)
(***************************************************************************)
LEMMA InitTInv == TransferInit => TInv
<1> SUFFICES ASSUME TransferInit PROVE TInv OBVIOUS
<1>1. PICK p \in Patience : host = NewRun(p, 1) BY DEF TransferInit
<1>2. p \in BOOLEAN /\ 1 \in 1 .. Len(Plan) BY ScanTransferAssumption, Constants
<1>3. /\ host \in Clients /\ host.run = 1 /\ host.pc = "start"
      /\ host.chunk < ChunkCount(Plan[1]) /\ host.copy < Repeats(host.chunk)
  BY <1>1, <1>2, NewRunProps
<1>4. /\ ring = <<>> /\ inbox = {} /\ lost = 0 /\ reboots = 0 /\ handled = <<>>
      /\ confirmed = {} /\ Init
  BY DEF TransferInit
<1>5. IInv BY <1>4, InitIInv
<1>6. ~raw_capture.armed /\ ~raw_capture.active /\ ~raw_capture.ready_pending /\ phase = "wait"
  BY <1>4 DEF Init, EthCaptureReset, ZeroCapture
<1>7. HostOK BY <1>3 DEF HostOK, Current
<1>8. RingOK BY <1>4 DEF RingOK
<1>9. BoardOK BY <1>6 DEF BoardOK
<1>10. HandledOK BY <1>4 DEF HandledOK
<1>11. InboxOK /\ ConfirmedOK BY <1>4 DEF InboxOK, ConfirmedOK
<1>12. PreparedOK BY <1>3, <1>4 DEF PreparedOK
<1>13. LinkOK BY <1>4, Constants DEF LinkOK
<1> QED BY <1>5, <1>7, <1>8, <1>9, <1>10, <1>11, <1>12, <1>13 DEF TInv

LEMMA StutterTInv == ASSUME TInv, UNCHANGED allVars PROVE TInv'
<1>1. /\ UNCHANGED boardVars /\ host' = host /\ ring' = ring /\ inbox' = inbox
      /\ lost' = lost /\ confirmed' = confirmed
  BY DEF allVars, boardVars, vars
<1>2. PreparedOK' BY <1>1 DEF TInv, PreparedOK, Early, Current, boardVars, vars
<1>3. HostRank' = HostRank BY <1>1 DEF HostRank, Early
<1>4. host.run <= host.run /\ HostRank <= HostRank BY HostFacts
<1> QED BY <1>1, <1>2, <1>3, <1>4, HostFacts, HostStep

LEMMA NextTInv == TInv /\ [TransferNext]_allVars => TInv'
<1> SUFFICES ASSUME TInv, [TransferNext]_allVars PROVE TInv' OBVIOUS
<1>1. CASE Client
  BY <1>1, SendStartStep, TakeReadyStep, ReadyTimeoutStep, SendChunkStep, TakeDoneStep,
     DoneTimeoutStep DEF Client
<1>2. CASE Rerun BY <1>2, RerunStep
<1>3. CASE Board
  BY <1>3, BoardPollStep, BoardReceiveStep, BoardProcessStep, BoardRejectStep,
     BoardReplyStep, BoardWaitStep DEF Board
<1>4. CASE BoardReboot BY <1>4, BoardRebootStep
<1>5. CASE UNCHANGED allVars BY <1>5, StutterTInv
<1> QED BY <1>1, <1>2, <1>3, <1>4, <1>5 DEF TransferNext

\* The inductive invariant holds throughout a session.
THEOREM TransferInvariant == TransferSpec => []TInv
BY InitTInv, NextTInv, PTL DEF TransferSpec

-----------------------------------------------------------------------------
(***************************************************************************)
(* Theorems                                                                *)
(***************************************************************************)
LEMMA TInvTypes == TInv => TransferTypeOK
<1> SUFFICES ASSUME TInv PROVE TransferTypeOK OBVIOUS
<1>1. TypeOK BY DEF TInv, IInv
<1>2. ring \in Seq(StartFrames \cup ChunkFrames)
  <2>1. ASSUME NEW i \in 1 .. Len(ring) PROVE ring[i] \in StartFrames \cup ChunkFrames
    BY BoardFacts, FrameKinds
  <2> QED BY <2>1, BoardFacts
<1>3. confirmed \subseteq Scans
  <2> SUFFICES ASSUME NEW s \in confirmed PROVE s \in Scans OBVIOUS
  <2>1. PICK r \in 1 .. host.run : s = Plan[r] BY DEF TInv, ConfirmedOK
  <2>2. r \in 1 .. Len(Plan) BY BoardFacts
  <2> QED BY <2>1, <2>2 DEF Scans
<1> QED BY <1>1, <1>2, <1>3, HostFacts
     DEF TInv, HostOK, InboxOK, HandledOK, LinkOK, TransferTypeOK

\* The client's counters stay within its retry, repeat and chunk counts, the
\* ring never holds more than RX_BD_COUNT frames, and all of them are STARTs
\* and chunks (send_scan, wait_for_ready).
THEOREM TransferTypeCorrect == TransferSpec => []TransferTypeOK
BY TransferInvariant, TInvTypes, PTL

\* Every step of a session is one of RawCapture, or none of the board's at all.
LEMMA StepOfBoard == TInv /\ [TransferNext]_allVars => [Next]_vars
<1> SUFFICES ASSUME TInv, [TransferNext]_allVars PROVE [Next]_vars OBVIOUS
<1>1. CASE Client
  BY <1>1 DEF Client, SendStart, TakeReady, ReadyTimeout, SendChunk, TakeDone, DoneTimeout,
     boardVars
<1>2. CASE Rerun BY <1>2 DEF Rerun, boardVars
<1>3. CASE Board
  BY <1>3, BoardSteps DEF Board, BoardPoll, BoardReceive, BoardProcess, BoardReject,
     BoardReply, BoardWait
<1>4. CASE BoardReboot BY <1>4, BoardSteps DEF BoardReboot
<1>5. CASE UNCHANGED allVars BY <1>5 DEF allVars, vars
<1> QED BY <1>1, <1>2, <1>3, <1>4, <1>5 DEF TransferNext

\* The board in a session is the board of RawCapture, whose theorems therefore
\* hold of it: a client and a link do nothing that Frames do not allow.
THEOREM BoardIsRawCapture == TransferSpec => Spec
<1>1. TransferInit => Init BY DEF TransferInit
<1> QED BY <1>1, StepOfBoard, TransferInvariant, PTL DEF TransferSpec, Spec

LEMMA TInvOffered == TInv => OnlyOfferedScans
BY DEF TInv, HandledOK, OnlyOfferedScans

\* The board only processes scans a client has offered: whatever of several
\* runs is in the ring, no two of them are mixed (raw_capture_process and
\* raw_capture_control_process with the client's send_scan).
THEOREM OnlyOffered == TransferSpec => []OnlyOfferedScans
BY TransferInvariant, TInvOffered, PTL

LEMMA TInvPrepared == TInv => ReadyMeansPrepared
<1> SUFFICES ASSUME TInv, host.pc = "send", host.chunk = 0, host.copy = 0, reboots = 0
             PROVE  /\ raw_capture.armed
                    /\ raw_capture.session_id = Current.id
                    /\ raw_capture.active => raw_capture.expected_crc32 = Current.data
  BY DEF ReadyMeansPrepared
<1>1. Early BY DEF Early
<1>2. raw_capture.armed /\ raw_capture.session_id = Plan[host.run].id
  BY <1>1 DEF TInv, PreparedOK, Current
<1>3. BoardRun = host.run BY <1>2, RunOfPlan, HostFacts DEF BoardRun
<1>4. HostRank = 2 * host.run BY <1>1, HostFacts DEF HostRank
<1>5. raw_capture.active => 2 * BoardRun + 1 <= HostRank BY DEF TInv, BoardOK
<1>6. ~raw_capture.active BY <1>3, <1>4, <1>5, HostFacts
<1> QED BY <1>2, <1>6 DEF Current

\* A client that starts to send finds the board armed for its session and
\* without a capture in the way (docs/SYSTEM_VALIDATION.md:8).
THEOREM PreparedWhenReady == TransferSpec => []ReadyMeansPrepared
BY TransferInvariant, TInvPrepared, PTL

-----------------------------------------------------------------------------
(***************************************************************************)
(* A session implements ScanDelivery                                       *)
(***************************************************************************)
\* How often s occurs in a sequence that repeats nothing.
LEMMA CountOnce ==
  ASSUME NEW h, Len(h) \in Nat, \A i, j \in 1 .. Len(h) : h[i] = h[j] => i = j, NEW s
  PROVE  Cardinality({i \in 1 .. Len(h) : h[i] = s}) =
           IF \E i \in 1 .. Len(h) : h[i] = s THEN 1 ELSE 0
<1>1. CASE \E i \in 1 .. Len(h) : h[i] = s
  <2>1. PICK i \in 1 .. Len(h) : h[i] = s BY <1>1
  <2>2. {j \in 1 .. Len(h) : h[j] = s} = {i} BY <2>1
  <2> QED BY <1>1, <2>2, FS_Singleton
<1>2. CASE ~ \E i \in 1 .. Len(h) : h[i] = s
  <2>1. {j \in 1 .. Len(h) : h[j] = s} = {} BY <1>2
  <2> QED BY <1>2, <2>1, FS_EmptySet
<1> QED BY <1>1, <1>2

\* The runs of the plan that count as offered.
OfferedRuns == IF host.pc = "start" /\ host.attempt = 0 THEN host.run - 1 ELSE host.run

LEMMA OfferedShape == Offered = {Plan[r] : r \in 1 .. OfferedRuns}
BY DEF Offered, OfferedRuns

Processed == [s \in Scans |-> TimesHandled(s)]

LEMMA DeliveryVars ==
  /\ Delivery!vars = <<Offered, Processed, confirmed>>
  /\ Delivery!Next <=>
       \E s \in Scans :
         \/ Offered' = Offered \cup {s} /\ Processed' = Processed /\ confirmed' = confirmed
         \/ /\ s \in Offered /\ Processed[s] = 0
            /\ Processed' = [Processed EXCEPT ![s] = 1]
            /\ Offered' = Offered /\ confirmed' = confirmed
         \/ /\ s \in Offered /\ Processed[s] = 1
            /\ confirmed' = confirmed \cup {s}
            /\ Offered' = Offered /\ Processed' = Processed
BY DEF Processed, Delivery!vars, Delivery!Next, Delivery!Offer, Delivery!Process,
   Delivery!Confirm

LEMMA SameProcessed == ASSUME handled' = handled PROVE Processed' = Processed
BY DEF Processed, TimesHandled

LEMMA ProcessedOnce ==
  ASSUME TInv, NEW s \in Scans
  PROVE  Processed[s] = IF Handled(s) THEN 1 ELSE 0
<1>1. Len(handled) \in Nat /\ \A i, j \in 1 .. Len(handled) : handled[i] = handled[j] => i = j
  BY DEF TInv, HandledOK
<1> QED BY <1>1, CountOnce DEF Processed, TimesHandled, Handled

LEMMA OfferStep ==
  ASSUME OfferedRuns \in Nat, OfferedRuns + 1 \in 1 .. Len(Plan),
         OfferedRuns' = OfferedRuns + 1, handled' = handled, confirmed' = confirmed
  PROVE  Delivery!Next
<1> DEFINE n == OfferedRuns
<1>1. Plan[n + 1] \in Scans BY DEF Scans
<1>2. Offered = {Plan[r] : r \in 1 .. n} BY OfferedShape
<1>3. Offered' = {Plan[r] : r \in 1 .. n + 1} BY DEF Offered, OfferedRuns
<1> HIDE DEF n
<1>4. n \in Nat BY DEF n
<1>5. 1 .. n + 1 = (1 .. n) \cup {n + 1} BY <1>4
<1>6. Offered' = Offered \cup {Plan[n + 1]} BY <1>2, <1>3, <1>5
<1> QED BY <1>1, <1>6, SameProcessed, DeliveryVars

LEMMA SameOffered == ASSUME OfferedRuns' = OfferedRuns PROVE Offered' = Offered
BY DEF Offered, OfferedRuns

LEMMA DeliveryStutter ==
  ASSUME OfferedRuns' = OfferedRuns, handled' = handled, confirmed' = confirmed
  PROVE  UNCHANGED Delivery!vars
<1>1. Offered' = Offered /\ Processed' = Processed BY SameOffered, SameProcessed
<1> QED BY <1>1 DEF Delivery!vars, Processed

LEMMA InitDelivery == TransferInit => Delivery!Init
<1> SUFFICES ASSUME TransferInit PROVE Delivery!Init OBVIOUS
<1>1. PICK p \in Patience : host = NewRun(p, 1) BY DEF TransferInit
<1>2. OfferedRuns = 0 BY <1>1 DEF OfferedRuns, NewRun
<1>3. Offered = {} BY <1>2, OfferedShape
<1>4. handled = <<>> /\ confirmed = {} BY DEF TransferInit
<1>5. ASSUME NEW s \in Scans PROVE TimesHandled(s) = 0
  <2>1. {i \in 1 .. Len(handled) : handled[i] = s} = {} BY <1>4
  <2> QED BY <2>1, FS_EmptySet DEF TimesHandled
<1> QED BY <1>3, <1>4, <1>5 DEF Delivery!Init

LEMMA ClientDelivers ==
  ASSUME TInv, Client \/ Rerun
  PROVE  Delivery!Next \/ UNCHANGED Delivery!vars
<1>1. /\ host.run \in 1 .. Len(Plan) /\ host.attempt \in Nat
      /\ host.pc # "start" => host.attempt # 0 /\ host \in Clients
  BY HostFacts
<1>2. handled' = handled
  BY DEF Client, Rerun, SendStart, TakeReady, ReadyTimeout, SendChunk, TakeDone, DoneTimeout,
     boardVars
<1>3. CASE SendStart
  <2>1. host'.run = host.run /\ host'.pc = "await_ready" /\ confirmed' = confirmed
        /\ host.pc = "start"
    BY <1>1, <1>3 DEF SendStart, Clients
  <2>2. OfferedRuns' = host.run BY <2>1 DEF OfferedRuns
  <2>3. CASE host.attempt = 0
    <3>1. OfferedRuns = host.run - 1 BY <2>1, <2>3 DEF OfferedRuns
    <3> QED BY <1>1, <1>2, <2>1, <2>2, <3>1, OfferStep
  <2>4. CASE host.attempt # 0
    <3>1. OfferedRuns = host.run BY <2>4 DEF OfferedRuns
    <3> QED BY <1>2, <2>1, <2>2, <3>1, DeliveryStutter
  <2> QED BY <2>3, <2>4
<1>4. CASE TakeReady \/ ReadyTimeout \/ SendChunk \/ DoneTimeout
  <2>1. host.pc # "start" /\ confirmed' = confirmed
    BY <1>4 DEF TakeReady, ReadyTimeout, SendChunk, DoneTimeout
  <2>2. host'.run = host.run /\ host'.attempt = host.attempt
    <3>1. CASE TakeReady \/ SendChunk
      BY <1>1, <3>1 DEF TakeReady, SendChunk, NextCopy, Clients
    <3>2. CASE ReadyTimeout \/ DoneTimeout
      <4>1. \E next \in {"start", "failed"}, answered \in BOOLEAN : host' = TimedOut(next, answered)
        BY <3>2 DEF ReadyTimeout, DoneTimeout
      <4> QED BY <4>1, TimedOutEffect
    <3> QED BY <1>4, <3>1, <3>2
  <2>3. OfferedRuns' = OfferedRuns BY <1>1, <2>1, <2>2 DEF OfferedRuns
  <2> QED BY <1>2, <2>1, <2>3, DeliveryStutter
<1>5. CASE TakeDone
  <2>1. host.pc = "await_done" /\ host' = AfterRun(host)
        /\ confirmed' = confirmed \cup {Plan[host.run]}
    BY <1>5 DEF TakeDone, Current
  <2>2. Handled(Plan[host.run]) BY <1>5, InboxSession DEF TakeDone, IsDone, Current
  <2>3. OfferedRuns = host.run BY <2>1 DEF OfferedRuns
  <2>4. OfferedRuns' = host.run
    <3>1. CASE host.run < Len(Plan)
      <4>1. host'.run = host.run + 1 /\ host'.pc = "start" /\ host'.attempt = 0
        BY <2>1, <3>1 DEF AfterRun, NewRun
      <4> QED BY <1>1, <4>1 DEF OfferedRuns
    <3>2. CASE ~(host.run < Len(Plan))
      <4>1. host'.run = host.run /\ host'.pc = "finished"
        BY <1>1, <2>1, <3>2 DEF AfterRun, Clients
      <4> QED BY <4>1 DEF OfferedRuns
    <3> QED BY <3>1, <3>2
  <2>5. Plan[host.run] \in Scans BY <1>1 DEF Scans
  <2>6. Plan[host.run] \in Offered BY <1>1, <2>3, OfferedShape
  <2>7. Processed[Plan[host.run]] = 1 BY <2>2, <2>5, ProcessedOnce
  <2>8. Offered' = Offered BY <2>3, <2>4, SameOffered
  <2> QED BY <1>2, <2>1, <2>5, <2>6, <2>7, <2>8, SameProcessed, DeliveryVars
<1>6. CASE Rerun
  <2>1. /\ host'.run = host.run + 1 /\ host'.pc = "start" /\ host'.attempt = 0
        /\ confirmed' = confirmed
    BY <1>6 DEF Rerun, NewRun
  <2>2. OfferedRuns' = host.run BY <1>1, <2>1 DEF OfferedRuns
  <2>3. CASE host.pc = "start" /\ host.attempt = 0
    <3>1. OfferedRuns = host.run - 1 BY <2>3 DEF OfferedRuns
    <3> QED BY <1>1, <1>2, <2>1, <2>2, <3>1, OfferStep
  <2>4. CASE ~(host.pc = "start" /\ host.attempt = 0)
    <3>1. OfferedRuns = host.run BY <2>4 DEF OfferedRuns
    <3> QED BY <1>2, <2>1, <2>2, <3>1, DeliveryStutter
  <2> QED BY <2>3, <2>4
<1> QED BY <1>3, <1>4, <1>5, <1>6 DEF Client

LEMMA BoardDelivers ==
  ASSUME TInv, TInv', Board \/ BoardReboot
  PROVE  Delivery!Next \/ UNCHANGED Delivery!vars
<1>1. host' = host /\ confirmed' = confirmed
  BY DEF Board, BoardReboot, BoardPoll, BoardReceive, BoardProcess, BoardReject, BoardReply,
     BoardWait, clientVars
<1>2. OfferedRuns' = OfferedRuns BY <1>1 DEF OfferedRuns
<1>3. CASE ~BoardProcess
  <2>1. handled' = handled
    BY <1>3 DEF Board, BoardReboot, BoardPoll, BoardReceive, BoardReject, BoardReply, BoardWait
  <2> QED BY <1>1, <1>2, <2>1, DeliveryStutter
<1>4. CASE BoardProcess
  <2>1. phase = "received"
        /\ handled' = Append(handled, [data |-> HeldTransfer, id |-> scan.scan_id])
    BY <1>4 DEF BoardProcess, ProcessScan
  <2>2. PICK r \in 1 .. host.run : BoardRun = r BY <2>1, ProcessedRun
  <2>3. /\ r \in 1 .. Len(Plan) /\ ~Handled(Plan[r]) /\ 2 * r + 1 <= HostRank
        /\ handled' = Append(handled, Plan[r])
    BY <2>1, <2>2, ProcessedRun
  <2>4. Plan[r] \in Offered
    <3>1. host.run \in 1 .. Len(Plan) BY HostFacts
    <3>2. host.pc = "start" => HostRank = 2 * host.run BY <3>1 DEF HostRank, Early
    <3>3. r \in 1 .. OfferedRuns BY <2>3, <3>1, <3>2 DEF OfferedRuns
    <3> QED BY <3>3, OfferedShape
  <2>5. Plan[r] \in Scans BY <2>3 DEF Scans
  <2>6. Processed[Plan[r]] = 0 BY <2>3, <2>5, ProcessedOnce
  <2>7. /\ Len(handled) \in Nat /\ Len(handled') = Len(handled) + 1
        /\ handled'[Len(handled) + 1] = Plan[r]
        /\ \A i \in 1 .. Len(handled) : handled'[i] = handled[i]
    <3>1. handled \in Seq([data : Transfers, id : Nat]) BY DEF TInv, HandledOK
    <3> QED BY <2>3, <3>1
  <2>8. ASSUME NEW s \in Scans
        PROVE  (\E i \in 1 .. Len(handled') : handled'[i] = s) <=> Handled(s) \/ s = Plan[r]
    <3>1. \A i \in 1 .. Len(handled') : i \in 1 .. Len(handled) \/ i = Len(handled) + 1
      BY <2>7
    <3>2. \A i \in 1 .. Len(handled) : i \in 1 .. Len(handled') BY <2>7
    <3>3. Len(handled) + 1 \in 1 .. Len(handled') BY <2>7
    <3> QED BY <2>7, <3>1, <3>2, <3>3 DEF Handled
  <2>9. Len(handled') \in Nat
        /\ \A i, j \in 1 .. Len(handled') : handled'[i] = handled'[j] => i = j
    BY <2>7 DEF TInv, HandledOK
  <2>10. ASSUME NEW s \in Scans
         PROVE  Cardinality({i \in 1 .. Len(handled') : handled'[i] = s}) =
                  IF Handled(s) \/ s = Plan[r] THEN 1 ELSE 0
    <3> DEFINE h == handled'
    <3>1. Len(h) \in Nat /\ \A i, j \in 1 .. Len(h) : h[i] = h[j] => i = j BY <2>9
    <3>2. (\E i \in 1 .. Len(h) : h[i] = s) <=> Handled(s) \/ s = Plan[r] BY <2>8
    <3> HIDE DEF h
    <3>3. Cardinality({i \in 1 .. Len(h) : h[i] = s}) =
            IF \E i \in 1 .. Len(h) : h[i] = s THEN 1 ELSE 0
      BY <3>1, CountOnce
    <3>4. Cardinality({i \in 1 .. Len(h) : h[i] = s}) =
            IF Handled(s) \/ s = Plan[r] THEN 1 ELSE 0
      BY <3>2, <3>3
    <3> QED BY <3>4 DEF h
  <2>11. Processed' = [Processed EXCEPT ![Plan[r]] = 1]
    <3>1. Processed' = [s \in Scans |-> IF Handled(s) \/ s = Plan[r] THEN 1 ELSE 0]
      BY <2>10 DEF Processed, TimesHandled
    <3>2. Processed = [s \in Scans |-> IF Handled(s) THEN 1 ELSE 0]
      BY ProcessedOnce DEF Processed
    <3> QED BY <2>5, <3>1, <3>2
  <2>12. Offered' = Offered BY <1>2, SameOffered
  <2> QED BY <1>1, <2>4, <2>5, <2>6, <2>11, <2>12, DeliveryVars
<1> QED BY <1>3, <1>4

\* A session implements ScanDelivery: whatever the link loses or delays, however
\* often either side starts over, a scan is processed at most once, only after a
\* client has offered it, and confirmed only after it has been processed.
THEOREM DeliveryImplemented == TransferSpec => ImplementsDelivery
<1>1. TInv /\ TInv' /\ [TransferNext]_allVars => [Delivery!Next]_(Delivery!vars)
  <2> SUFFICES ASSUME TInv, TInv', [TransferNext]_allVars
               PROVE  Delivery!Next \/ UNCHANGED Delivery!vars
    OBVIOUS
  <2>1. CASE UNCHANGED allVars
    <3>1. OfferedRuns' = OfferedRuns /\ handled' = handled /\ confirmed' = confirmed
      BY <2>1 DEF allVars, OfferedRuns
    <3> QED BY <3>1, DeliveryStutter
  <2> QED BY <2>1, ClientDelivers, BoardDelivers DEF TransferNext
<1> QED BY <1>1, InitDelivery, TransferInvariant, PTL
     DEF TransferSpec, ImplementsDelivery, Delivery!Spec
===============================================================================
