------------------------------ MODULE GemTxProofs ------------------------------
(***************************************************************************)
(* Proofs about GemTx, for every number of polls, attempts, recoveries,    *)
(* copies and sends.  The invariant says who owns the buffer, whose        *)
(* datagram it holds, and that it holds the latest one ever queued: the    *)
(* order on the wire and the truth of every result follow from that.       *)
(***************************************************************************)
EXTENDS GemTx, SequenceTheorems, FiniteSetTheorems, TLAPS

LEMMA Sizes ==
  /\ WaitPolls \in Nat \ {0} /\ Attempts \in Nat \ {0} /\ DoneCopies \in Nat \ {0}
  /\ RecoveryMax \in Nat /\ MaxCalls \in Nat /\ MaxStalls \in Nat
BY GemTxAssumption

\* Every frame on the wire names its send.
LEMMA FrameOut ==
  ASSUME TypeOK, NEW i \in 1 .. Len(wire)
  PROVE  wire[i].call \in Nat
<1>1. wire[i] \in Frame BY DEF TypeOK
<1> QED BY <1>1 DEF Frame

LEMMA IdleType ==
  /\ Idle \in CallType /\ Idle.pc = "idle"
  /\ Idle.polls = 0 /\ Idle.attempt = 0 /\ Idle.round = 0 /\ Idle.copy = 0
  /\ 0 < WaitPolls /\ 0 < Attempts /\ 0 <= RecoveryMax /\ 0 < DoneCopies
<1>1. /\ Idle \in CallType /\ Idle.pc = "idle"
      /\ Idle.polls = 0 /\ Idle.attempt = 0 /\ Idle.round = 0 /\ Idle.copy = 0
  BY DEF Idle, CallType, Kinds
<1> QED BY <1>1, Sizes

\* Only the sends so far are numbered.
LEMMA Numbers == TypeOK => Number \in Nat /\ tx_buf \in Nat /\ tx_buf <= Number
<1> SUFFICES ASSUME TypeOK PROVE Number \in Nat /\ tx_buf \in Nat /\ tx_buf <= Number
  OBVIOUS
<1>1. Number \in Nat BY DEF TypeOK, Number
<1> QED BY <1>1 DEF TypeOK

\* Finishing a send leaves the results of the others alone.
LEMMA FinishEffect ==
  ASSUME NEW status \in {"sent", "refused", "queued", "failed"},
         TypeOK, OneOpen, call.pc # "idle", Finish(status)
  PROVE  /\ outcome' \in Seq(Results)
         /\ Len(outcome') = Number /\ Number > 0
         /\ outcome'[Number] = status
         /\ \A n \in 1 .. Number : n # Number => outcome'[n] = outcome[n]
         /\ call' = Idle /\ OneOpen'
BY DEF Finish, TypeOK, OneOpen, Number, Idle, Results

\* Going on with the send under way keeps every result.
LEMMA GotoEffect ==
  ASSUME NEW c \in CallType, OneOpen, c.pc # "idle", call.pc # "idle", Goto(c)
  PROVE  outcome' = outcome /\ call' = c /\ OneOpen'
BY DEF Goto, OneOpen, Number

\* A failed attempt ends the send without success, or only a retrying one goes on.
LEMMA FailedEffect ==
  ASSUME NEW status \in {"refused", "failed"},
         TypeOK, OneOpen, call.pc # "idle", Failed(status)
  PROVE  \/ /\ ~Retries /\ Finish(status)
         \/ Finish("failed")
         \/ \E c \in CallType :
              /\ Goto(c) /\ c.pc \in {"send", "recover"}
              /\ c.kind = call.kind /\ c.kind \in {"report", "done"}
              /\ c.polls < WaitPolls /\ c.attempt < Attempts
              /\ c.round <= RecoveryMax /\ c.copy < DoneCopies /\ c.copy = call.copy
              /\ c.pc = "recover" => (c.kind = "report" => c.round < RecoveryMax)
<1>0. call \in CallType BY DEF TypeOK
<1> USE Sizes
<1>1. CASE ~Retries /\ Finish(status) BY <1>1
<1>2. CASE Retries /\ ~LastAttempt /\ Goto([call EXCEPT !.pc = "send", !.attempt = @ + 1])
  <2> DEFINE k == call.attempt + 1
             c == [call EXCEPT !.pc = "send", !.attempt = k]
  <2>1. k \in Nat /\ k < Attempts
    BY <1>0, <1>2 DEF TypeOK, CallType, LastAttempt
  <2>2. Goto(c) BY <1>2
  <2> HIDE DEF k
  <2>3. /\ c \in CallType /\ c.attempt = k /\ c.pc = "send"
        /\ c.kind = call.kind /\ c.polls = call.polls
        /\ c.round = call.round /\ c.copy = call.copy
    BY <1>0, <2>1 DEF CallType
  <2> HIDE DEF c
  <2> QED BY <1>2, <2>1, <2>2, <2>3 DEF TypeOK, Retries
<1>3. CASE Retries /\ ~(call.kind = "report" /\ call.round = RecoveryMax)
           /\ Goto([call EXCEPT !.pc = "recover"])
  <2> DEFINE c == [call EXCEPT !.pc = "recover"]
  <2>1. /\ c \in CallType /\ c.pc = "recover" /\ c.kind = call.kind
        /\ c.attempt = call.attempt /\ c.polls = call.polls
        /\ c.round = call.round /\ c.copy = call.copy
    BY <1>0 DEF CallType
  <2>2. Goto(c) BY <1>3
  <2>3. call.kind = "report" => call.round < RecoveryMax
    BY <1>0, <1>3 DEF TypeOK, CallType
  <2> HIDE DEF c
  <2> QED BY <1>3, <2>1, <2>2, <2>3 DEF TypeOK, Retries
<1>4. CASE Finish("failed") BY <1>4
<1> QED BY <1>1, <1>2, <1>3, <1>4 DEF Failed

-----------------------------------------------------------------------------
(***************************************************************************)
(* The invariant                                                           *)
(***************************************************************************)
LEMMA InitIInv == Init => IInv
<1> SUFFICES ASSUME Init PROVE IInv OBVIOUS
<1>1. TypeOK
  <2>1. /\ call \in CallType
        /\ call.polls = 0 /\ call.attempt = 0 /\ call.round = 0 /\ call.copy = 0
    BY IdleType DEF Init
  <2>2. gem \in GemType /\ wire \in Seq(Frame) /\ outcome \in Seq(Results)
    BY DEF Init, GemType
  <2>3. tx_buf \in 0 .. Number BY DEF Init, Number
  <2>4. /\ {bd_used, tx_pending, pc_mac_resolved, stalled} \subseteq BOOLEAN
        /\ stalls \in Nat
    BY DEF Init
  <2> QED BY <2>1, <2>2, <2>3, <2>4, Sizes DEF TypeOK
<1>2. WireIntact /\ Ownership /\ OneOpen /\ Latest /\ Progress
  BY DEF Init, WireIntact, Ownership, OneOpen, Latest, Progress, Idle, Number
<1> QED BY <1>1, <1>2 DEF IInv

\* Ending a send without success keeps the invariant, when a refused one never
\* reached the buffer.
LEMMA FinishKeeps ==
  ASSUME NEW status \in {"refused", "failed"},
         IInv, call.pc # "idle", Finish(status),
         status = "refused" => tx_buf < Number,
         UNCHANGED <<bd_used, tx_buf, tx_pending, pc_mac_resolved, macVars>>
  PROVE  IInv'
<1>1. /\ outcome' \in Seq(Results)
      /\ Len(outcome') = Number /\ Number > 0
      /\ outcome'[Number] = status
      /\ \A n \in 1 .. Number : n # Number => outcome'[n] = outcome[n]
      /\ call' = Idle /\ OneOpen'
  BY FinishEffect DEF IInv
<1>2. TypeOK' BY <1>1, IdleType DEF IInv, TypeOK, macVars, Number
<1>3. Latest' BY <1>1 DEF IInv, TypeOK, Latest, macVars, Number
<1>4. Progress' BY <1>1 DEF Progress, Idle
<1>5. WireIntact' /\ Ownership' BY DEF IInv, WireIntact, Ownership, macVars
<1> QED BY <1>1, <1>2, <1>3, <1>4, <1>5 DEF IInv

\* So does a failed attempt.
LEMMA FailedKeeps ==
  ASSUME NEW status \in {"refused", "failed"},
         IInv, call.pc # "idle", Failed(status),
         (status = "refused" /\ ~Retries) => tx_buf < Number,
         UNCHANGED <<bd_used, tx_buf, tx_pending, pc_mac_resolved, macVars>>
  PROVE  IInv'
<1>1. CASE ~Retries /\ Finish(status) BY <1>1, FinishKeeps
<1>2. CASE Finish("failed") BY <1>2, FinishKeeps
<1>3. ASSUME NEW c \in CallType,
             Goto(c), c.pc \in {"send", "recover"},
             c.kind = call.kind, c.kind \in {"report", "done"},
             c.polls < WaitPolls, c.attempt < Attempts,
             c.round <= RecoveryMax, c.copy < DoneCopies,
             c.pc = "recover" => (c.kind = "report" => c.round < RecoveryMax)
      PROVE  IInv'
  <2>1. outcome' = outcome /\ call' = c /\ OneOpen' BY <1>3, GotoEffect DEF IInv
  <2>2. TypeOK' BY <1>3, <2>1 DEF IInv, TypeOK, macVars, Number
  <2>3. Latest' BY <2>1 DEF IInv, Latest, macVars, Number
  <2>4. Progress' BY <1>3, <2>1 DEF Progress, Retries
  <2>5. WireIntact' /\ Ownership' BY DEF IInv, WireIntact, Ownership, macVars
  <2> QED BY <2>1, <2>2, <2>3, <2>4, <2>5 DEF IInv
<1> QED BY <1>1, <1>2, <1>3, FailedEffect DEF IInv

LEMMA NextIInv == IInv /\ [Next]_vars => IInv'
<1> SUFFICES ASSUME IInv, [Next]_vars PROVE IInv' OBVIOUS
<1> USE Sizes
<1>0. TypeOK /\ WireIntact /\ Ownership /\ OneOpen /\ Latest /\ Progress BY DEF IInv
<1>C. call \in CallType BY <1>0 DEF TypeOK
<1>L. tx_buf \in Nat /\ tx_buf <= Number /\ wire \in Seq(Frame)
      /\ \A i \in 1 .. Len(wire) : wire[i].call \in Nat
  <2>1. /\ tx_buf \in Nat /\ tx_buf <= Number /\ wire \in Seq(Frame)
    BY <1>0, Numbers DEF TypeOK
  <2> QED BY <1>0, <2>1, FrameOut
<1>1. CASE UNCHANGED vars
  BY <1>0, <1>1 DEF vars, IInv, TypeOK, WireIntact, Ownership, OneOpen, Latest, Progress,
     Number, Retries
<1>2. ASSUME NEW kind \in Kinds, Begin(kind) PROVE IInv'
  <2>1. /\ outcome' \in Seq(Results)
        /\ Len(outcome') = Number + 1 /\ outcome'[Number + 1] = "open"
        /\ \A n \in 1 .. Number : outcome'[n] = outcome[n] /\ outcome[n] # "open"
        /\ Number \in Nat
    BY <1>0, <1>2 DEF Begin, TypeOK, OneOpen, Number, Results
  <2>2. /\ call' = [Idle EXCEPT !.kind = kind, !.pc = "send"] /\ call' \in CallType
        /\ call'.pc = "send"
        /\ call'.polls = 0 /\ call'.attempt = 0 /\ call'.round = 0 /\ call'.copy = 0
    BY <1>2 DEF Begin, CallType, Idle, Kinds
  <2>3. TypeOK' BY <1>0, <1>2, <2>1, <2>2 DEF Begin, TypeOK, macVars, Number
  <2>4. OneOpen'
    <3>1. Len(outcome') \in Nat /\ Len(outcome') = Number + 1 BY <2>1
    <3>2. \A n \in 1 .. Len(outcome') : n # Len(outcome') => outcome'[n] # "open"
      <4>1. \A n \in 1 .. Number + 1 : n # Number + 1 => n \in 1 .. Number BY <2>1
      <4> QED BY <2>1, <3>1, <4>1
    <3> QED BY <2>1, <2>2, <3>1, <3>2 DEF OneOpen, Number
  <2>5. Latest' BY <1>0, <1>2, <2>1 DEF Begin, TypeOK, Latest, macVars, Number
  <2>6. Progress' BY <1>0, <1>2, <2>1, <2>2 DEF Begin, TypeOK, Progress, Number
  <2>7. WireIntact' /\ Ownership' BY <1>0, <1>2 DEF Begin, WireIntact, Ownership, macVars
  <2> QED BY <2>3, <2>4, <2>5, <2>6, <2>7 DEF IInv
<1>3. CASE LearnMac
  BY <1>0, <1>3 DEF LearnMac, IInv, TypeOK, WireIntact, Ownership, OneOpen, Latest,
     Progress, Number, Retries, macVars
<1>4. CASE NoAddress
  <2>1. tx_buf = 0 /\ Number > 0 /\ tx_buf < Number
    BY <1>0, <1>4 DEF NoAddress, Latest, OneOpen
  <2>2. CASE Finish("refused") BY <1>4, <2>1, <2>2, FinishKeeps DEF NoAddress
  <2>3. CASE Failed("refused") BY <1>4, <2>1, <2>3, FailedKeeps DEF NoAddress
  <2> QED BY <1>4, <2>2, <2>3 DEF NoAddress
<1>5. CASE FrameBusy
  BY <1>0, <1>5, FailedKeeps DEF FrameBusy, Progress
<1>6. CASE FrameSend
  <2>1. /\ call.pc = "send" /\ bd_used /\ tx_buf' = Number /\ bd_used' = FALSE
        /\ pc_mac_resolved /\ pc_mac_resolved' = pc_mac_resolved
        /\ wire' = wire /\ stalled' = stalled /\ stalls' = stalls /\ tx_pending' = TRUE
        /\ Number > 0 /\ Number \in Nat /\ outcome[Number] = "open"
    BY <1>0, <1>6 DEF FrameSend, CanFill, OneOpen, TypeOK, Number
  <2>2. ~gem.reading /\ gem' = gem
    BY <1>0, <1>6, <2>1 DEF FrameSend, Ownership, TypeOK, GemType
  <2>b. /\ {bd_used', tx_pending', pc_mac_resolved', stalled'} \subseteq BOOLEAN
        /\ gem' \in GemType /\ wire' \in Seq(Frame) /\ stalls' \in Nat
    BY <1>0, <2>1, <2>2 DEF TypeOK
  <2>n. tx_buf' = Number /\ Number \in Nat BY <2>1
  <2>3. WireIntact' /\ Ownership' BY <1>0, <2>1, <2>2 DEF WireIntact, Ownership
  <2>4. CASE call.kind = "arp" /\ Finish("queued")
    <3>1. /\ outcome' \in Seq(Results)
          /\ Len(outcome') = Number /\ outcome'[Number] = "queued"
          /\ call' = Idle /\ OneOpen'
      BY <1>0, <2>1, <2>4, FinishEffect
    <3>2. TypeOK' BY <2>b, <2>n, <3>1, IdleType DEF TypeOK, Number
    <3>3. Latest' BY <1>0, <1>L, <2>1, <3>1 DEF Latest, Number
    <3>4. Progress' BY <3>1 DEF Progress, Idle
    <3> QED BY <2>3, <3>1, <3>2, <3>3, <3>4 DEF IInv
  <2>5. CASE Goto([call EXCEPT !.pc = "wait", !.polls = 0])
    <3> DEFINE c == [call EXCEPT !.pc = "wait", !.polls = 0]
    <3>0. /\ c \in CallType /\ c.pc = "wait" /\ c.polls = 0 /\ c.attempt = call.attempt
          /\ c.round = call.round /\ c.copy = call.copy
      BY <1>0 DEF TypeOK, CallType
    <3> HIDE DEF c
    <3>1. outcome' = outcome /\ call' = c /\ OneOpen'
      BY <1>0, <2>1, <2>5, <3>0, GotoEffect DEF c
    <3>2. TypeOK' BY <1>0, <2>b, <2>n, <3>0, <3>1 DEF TypeOK, Number
    <3>3. Latest' BY <1>0, <1>L, <2>1, <3>1 DEF Latest, Number
    <3>4. Progress' BY <2>1, <3>0, <3>1 DEF Progress, Number
    <3> QED BY <2>3, <3>1, <3>2, <3>3, <3>4 DEF IInv
  <2> QED BY <1>6, <2>4, <2>5 DEF FrameSend
<1>7. CASE TxWaitDone
  <2>1. /\ call.pc = "wait" /\ bd_used /\ tx_pending' = FALSE /\ tx_buf = Number
        /\ UNCHANGED <<bd_used, tx_buf, pc_mac_resolved, macVars>>
    BY <1>0, <1>7 DEF TxWaitDone, Released, Progress
  <2>b. /\ {bd_used', tx_pending', pc_mac_resolved', stalled'} \subseteq BOOLEAN
        /\ gem' \in GemType /\ wire' \in Seq(Frame) /\ stalls' \in Nat
        /\ tx_buf' = Number /\ Number \in Nat
    BY <1>0, <2>1, Numbers DEF TypeOK, macVars
  <2>2. WireIntact' /\ Ownership' BY <1>0, <2>1 DEF WireIntact, Ownership, macVars
  <2>3. CASE Finish("sent")
    <3>1. /\ outcome' \in Seq(Results)
          /\ Len(outcome') = Number /\ call' = Idle /\ OneOpen'
      BY <1>0, <2>1, <2>3, FinishEffect
    <3>2. TypeOK' BY <2>b, <3>1, IdleType DEF TypeOK, Number
    <3>3. Latest' BY <1>0, <2>1 DEF Latest, macVars
    <3>4. Progress' BY <3>1 DEF Progress, Idle
    <3> QED BY <2>2, <3>1, <3>2, <3>3, <3>4 DEF IInv
  <2>4. CASE /\ call.kind = "done" /\ call.copy + 1 < DoneCopies
             /\ Goto([call EXCEPT !.pc = "send", !.copy = @ + 1, !.attempt = 0])
    <3> DEFINE k == call.copy + 1
               c == [call EXCEPT !.pc = "send", !.copy = k, !.attempt = 0]
    <3>k. k \in Nat /\ k < DoneCopies /\ Goto(c) BY <1>C, <2>4 DEF CallType
    <3> HIDE DEF k
    <3>0. /\ c \in CallType /\ c.pc = "send" /\ c.kind = "done" /\ c.attempt = 0
          /\ c.polls = call.polls /\ c.round = call.round /\ c.copy = k
      BY <1>C, <2>4, <3>k DEF CallType
    <3> HIDE DEF c
    <3>1. outcome' = outcome /\ call' = c /\ OneOpen'
      BY <1>0, <2>1, <3>k, <3>0, GotoEffect
    <3>2. TypeOK' BY <1>0, <2>b, <3>k, <3>0, <3>1 DEF TypeOK, Number
    <3>3. Latest' BY <1>0, <2>1 DEF Latest, macVars
    <3>4. Progress' BY <3>0, <3>1 DEF Progress, Retries
    <3> QED BY <2>2, <3>1, <3>2, <3>3, <3>4 DEF IInv
  <2> QED BY <1>7, <2>3, <2>4 DEF TxWaitDone, Succeeded
<1>8. CASE TxWaitPoll
  <2>1. CASE call.polls + 1 < WaitPolls /\ Goto([call EXCEPT !.polls = @ + 1])
    <3> DEFINE c == [call EXCEPT !.polls = @ + 1]
    <3>0. /\ c \in CallType /\ c.pc = "wait" /\ c.polls = call.polls + 1
          /\ c.attempt = call.attempt /\ c.round = call.round /\ c.copy = call.copy
          /\ call.pc = "wait"
      BY <1>C, <1>8 DEF TxWaitPoll, CallType
    <3> HIDE DEF c
    <3>1. outcome' = outcome /\ call' = c /\ OneOpen'
      BY <1>0, <2>1, <3>0, GotoEffect DEF c
    <3>2. UNCHANGED <<bd_used, tx_buf, tx_pending, pc_mac_resolved, macVars>>
      BY <1>8 DEF TxWaitPoll
    <3>3. TypeOK' BY <1>0, <2>1, <3>0, <3>1, <3>2 DEF TypeOK, CallType, macVars, Number
    <3>4. Progress' BY <1>0, <3>0, <3>1, <3>2 DEF Progress, macVars, Number
    <3>5. WireIntact' /\ Ownership' /\ Latest'
      BY <1>0, <3>1, <3>2 DEF WireIntact, Ownership, Latest, macVars
    <3> QED BY <3>1, <3>3, <3>4, <3>5 DEF IInv
  <2>2. CASE Failed("failed") BY <1>8, <2>2, FailedKeeps DEF TxWaitPoll
  <2> QED BY <1>8, <2>1, <2>2 DEF TxWaitPoll
<1>9. CASE Recover
  <2> DEFINE c == AfterRecover(call)
             k == IF call.kind = "report" THEN call.round + 1 ELSE call.round
  <2>k. k \in Nat BY <1>C DEF CallType
  <2>c. c = [call EXCEPT !.pc = "send", !.attempt = 0, !.round = k] BY DEF AfterRecover
  <2> HIDE DEF k, c
  <2>0. /\ c \in CallType /\ c.pc = "send" /\ c.kind = call.kind /\ c.attempt = 0
        /\ c.polls = call.polls /\ c.copy = call.copy /\ c.round = k
    BY <1>C, <2>k, <2>c DEF CallType
  <2>1. /\ call.pc = "recover" /\ Retries
        /\ call.kind = "report" => call.round < RecoveryMax
        /\ bd_used' = TRUE /\ tx_pending' = FALSE
        /\ gem' = [enabled |-> TRUE, reading |-> FALSE, torn |-> FALSE]
        /\ UNCHANGED <<tx_buf, pc_mac_resolved, stalled, stalls, wire>>
    BY <1>0, <1>9 DEF Recover, RestartMac, Progress
  <2>2. outcome' = outcome /\ call' = c /\ OneOpen'
    BY <1>0, <1>9, <2>0, <2>1, GotoEffect DEF Recover, c
  <2>r. k <= RecoveryMax BY <1>0, <1>C, <2>1 DEF k, TypeOK, CallType
  <2>b. /\ {bd_used', tx_pending', pc_mac_resolved', stalled'} \subseteq BOOLEAN
        /\ gem' \in GemType /\ wire' \in Seq(Frame) /\ stalls' \in Nat
        /\ tx_buf' = tx_buf
    BY <1>0, <2>1 DEF TypeOK, GemType
  <2>3. TypeOK' BY <1>0, <2>0, <2>b, <2>2, <2>r DEF TypeOK, Number
  <2>4. Progress' BY <2>0, <2>1, <2>2 DEF Progress, Retries
  <2>5. WireIntact' /\ Ownership' /\ Latest'
    BY <1>0, <2>1, <2>2 DEF WireIntact, Ownership, Latest
  <2> QED BY <2>2, <2>3, <2>4, <2>5 DEF IInv
<1>10. CASE GemFetch
  <2>1. /\ gem' \in GemType
        /\ gem'.reading /\ ~gem'.torn /\ ~bd_used
        /\ UNCHANGED <<bd_used, tx_buf, tx_pending, pc_mac_resolved, stalled, stalls,
                       call, outcome, wire>>
    BY <1>0, <1>10 DEF GemFetch, MacWorks, TypeOK, GemType
  <2>2. TypeOK' BY <1>0, <2>1 DEF TypeOK, Number
  <2>3. Ownership' BY <2>1 DEF Ownership
  <2>4. WireIntact' /\ OneOpen' /\ Latest' /\ Progress'
    BY <1>0, <2>1 DEF WireIntact, OneOpen, Latest, Progress, Number, Retries
  <2> QED BY <2>2, <2>3, <2>4 DEF IInv
<1>11. CASE GemRelease
  <2> DEFINE f == [call |-> tx_buf, torn |-> gem.torn]
  <2>1. /\ gem.reading /\ ~gem.torn /\ ~bd_used /\ bd_used' = TRUE
        /\ gem' \in GemType
        /\ ~gem'.reading /\ ~gem'.torn
        /\ wire' = Append(wire, f)
        /\ UNCHANGED <<tx_buf, tx_pending, pc_mac_resolved, stalled, stalls, call, outcome>>
    BY <1>0, <1>11 DEF GemRelease, TypeOK, GemType, Ownership
  <2>2. /\ f \in Frame /\ f.call = tx_buf /\ ~f.torn
        /\ tx_buf \in Nat /\ wire \in Seq(Frame)
    <3>1. gem.torn \in BOOLEAN BY <1>0 DEF TypeOK, GemType
    <3> QED BY <1>0, <1>L, <2>1, <3>1 DEF Frame
  <2> HIDE DEF f
  <2>3. /\ wire' \in Seq(Frame)
        /\ Len(wire) \in Nat /\ Len(wire') = Len(wire) + 1 /\ wire'[Len(wire) + 1] = f
        /\ \A i \in 1 .. Len(wire) : wire'[i] = wire[i]
    BY <2>1, <2>2
  <2>b. {bd_used', tx_pending', pc_mac_resolved', stalled'} \subseteq BOOLEAN
    BY <1>0, <2>1 DEF TypeOK
  <2>u. /\ gem' \in GemType
        /\ UNCHANGED <<tx_buf, stalls, call, outcome>>
    BY <2>1
  <2>4. TypeOK' BY <1>0, <2>b, <2>u, <2>3 DEF TypeOK, Number
  <2>5. WireIntact' BY <1>0, <2>2, <2>3 DEF WireIntact
  <2>6. Ownership' BY <2>1 DEF Ownership
  <2>7. OneOpen' BY <1>0, <2>1 DEF OneOpen, Number
  <2>8. Latest' BY <1>0, <2>1, <2>2, <2>3 DEF Latest
  <2>9. Progress'
    <3>1. call'.pc = "wait" =>
            tx_buf' = Number' /\ \E i \in 1 .. Len(wire') : wire'[i].call = Number'
      BY <1>0, <2>1, <2>2, <2>3 DEF Progress, Number
    <3> QED BY <1>0, <2>1, <3>1 DEF Progress, Number, Retries
  <2> QED BY <2>4, <2>5, <2>6, <2>7, <2>8, <2>9 DEF IInv
<1>12. CASE MacStalls \/ MacResumes
  <2>1. /\ stalled' \in BOOLEAN /\ stalls' \in Nat
        /\ UNCHANGED <<bd_used, tx_buf, tx_pending, pc_mac_resolved, gem, call, outcome, wire>>
    <3>1. CASE MacStalls BY <1>0, <3>1 DEF MacStalls, TypeOK
    <3>2. CASE MacResumes BY <1>0, <3>2 DEF MacResumes, TypeOK
    <3> QED BY <1>12, <3>1, <3>2
  <2> QED BY <1>0, <2>1 DEF IInv, TypeOK, WireIntact, Ownership, OneOpen, Latest,
          Progress, Number, Retries
<1> QED BY <1>1, <1>2, <1>3, <1>4, <1>5, <1>6, <1>7, <1>8, <1>9, <1>10, <1>11, <1>12
        DEF Next, SendStep, Gem

\* Who owns the buffer, and whose datagram it holds, at any time.
THEOREM InvariantHolds == Spec => []IInv
<1> QED BY InitIInv, NextIInv, PTL DEF Spec

\* No frame on the wire mixes two fillings of the buffer.
THEOREM NoTornFrame == Spec => []WireIntact
<1>1. IInv => WireIntact BY DEF IInv
<1> QED BY <1>1, InvariantHolds, PTL

-----------------------------------------------------------------------------
(***************************************************************************)
(* The copies of PROCESS_DONE.  The copy in hand is only counted when its  *)
(* frame has left: while eth_tx_wait sees the descriptor released, one     *)
(* copy more than the counter says is on the wire.                         *)
(***************************************************************************)
Positions(n) == {i \in 1 .. Len(wire) : wire[i].call = n}

Counted ==
  call.pc # "idle" =>
    /\ TimesOut(Number) >= call.copy
    /\ call.pc = "wait" /\ bd_used => TimesOut(Number) >= call.copy + 1

LEMMA Countable ==
  ASSUME TypeOK, NEW n
  PROVE  IsFiniteSet(Positions(n)) /\ TimesOut(n) = Cardinality(Positions(n))
         /\ TimesOut(n) \in Nat
<1>1. Len(wire) \in Nat BY DEF TypeOK
<1>2. IsFiniteSet(1 .. Len(wire)) BY <1>1, FS_Interval
<1>3. IsFiniteSet(Positions(n)) BY <1>2, FS_Subset DEF Positions
<1> QED BY <1>3, FS_CardinalityType DEF TimesOut, Positions

\* A frame that leaves adds one to the count of its send.
LEMMA OneMoreOut ==
  ASSUME TypeOK, TypeOK', NEW f \in Frame, wire' = Append(wire, f), NEW n
  PROVE  TimesOut(n)' = IF f.call = n THEN TimesOut(n) + 1 ELSE TimesOut(n)
<1>1. /\ Len(wire) \in Nat /\ Len(wire') = Len(wire) + 1 /\ wire'[Len(wire) + 1] = f
      /\ \A i \in 1 .. Len(wire) : wire'[i] = wire[i]
  BY DEF TypeOK
<1>2. /\ IsFiniteSet(Positions(n)) /\ TimesOut(n) = Cardinality(Positions(n))
      /\ TimesOut(n)' = Cardinality(Positions(n)')
  BY Countable DEF TimesOut, Positions
<1>3. CASE f.call = n
  <2>1. Positions(n)' = Positions(n) \cup {Len(wire) + 1} BY <1>1, <1>3 DEF Positions
  <2>2. Len(wire) + 1 \notin Positions(n) BY <1>1 DEF Positions
  <2>3. Cardinality(Positions(n)') = Cardinality(Positions(n)) + 1
    BY <1>2, <2>1, <2>2, FS_AddElement
  <2> QED BY <1>2, <1>3, <2>3
<1>4. CASE f.call # n
  <2>1. Positions(n)' = Positions(n) BY <1>1, <1>4 DEF Positions
  <2> QED BY <1>2, <1>4, <2>1
<1> QED BY <1>3, <1>4

\* Nothing is lost by going on with the send under way, to any point but the wait.
LEMMA GoOnKeeps ==
  ASSUME IInv, Counted, call.pc # "idle", wire' = wire, outcome' = outcome,
         call'.copy = call.copy, call'.pc # "wait"
  PROVE  Counted'
BY DEF Counted, TimesOut, Number

LEMMA FailedCounts ==
  ASSUME NEW status \in {"refused", "failed"},
         IInv, Counted, call.pc # "idle", Failed(status), wire' = wire
  PROVE  Counted'
<1>1. CASE \E s \in {"refused", "failed"} : Finish(s)
  BY <1>1, IdleType DEF Finish, Counted
<1>2. ASSUME NEW c \in CallType, Goto(c), c.pc \in {"send", "recover"}, c.copy = call.copy
      PROVE  Counted'
  BY <1>2, GoOnKeeps DEF Goto
<1> QED BY <1>1, <1>2, FailedEffect DEF IInv

LEMMA NextCounted == IInv /\ Counted /\ [Next]_vars => Counted'
<1> SUFFICES ASSUME IInv, Counted, [Next]_vars PROVE Counted' OBVIOUS
<1>0. TypeOK /\ Progress /\ Ownership /\ call \in CallType BY DEF IInv, TypeOK
<1>t. TypeOK' BY NextIInv DEF IInv
<1>n. TimesOut(Number) \in Nat BY <1>0, Countable
<1>1. CASE UNCHANGED <<call, outcome, bd_used, wire>>
  BY <1>1 DEF Counted, TimesOut, Number
<1>2. ASSUME NEW kind \in Kinds, Begin(kind) PROVE Counted'
  <2>1. call'.copy = 0 /\ call'.pc = "send" BY <1>2 DEF Begin, Idle
  <2>2. TimesOut(Number)' \in Nat
    <3>1. TimesOut(Number)' = Cardinality(Positions(Number)') BY DEF TimesOut, Positions
    <3>2. Positions(Number)' \subseteq 1 .. Len(wire') BY DEF Positions
    <3>3. Len(wire') \in Nat BY <1>t DEF TypeOK
    <3>4. IsFiniteSet(1 .. Len(wire')) BY <3>3, FS_Interval
    <3>5. IsFiniteSet(Positions(Number)') BY <3>2, <3>4, FS_Subset
    <3> QED BY <3>1, <3>5, FS_CardinalityType
  <2> QED BY <2>1, <2>2 DEF Counted
<1>3. CASE NoAddress \/ FrameBusy
  <2>1. wire' = wire /\ call.pc # "idle" BY <1>3 DEF NoAddress, FrameBusy, macVars
  <2>2. CASE Finish("refused") BY <2>2, IdleType DEF Finish, Counted
  <2>3. CASE Failed("refused") BY <2>1, <2>3, FailedCounts
  <2> QED BY <1>3, <2>2, <2>3 DEF NoAddress, FrameBusy
<1>4. CASE FrameSend
  <2>1. wire' = wire /\ ~bd_used' /\ call.pc = "send" BY <1>4 DEF FrameSend
  <2>2. CASE Finish("queued") BY <2>2, IdleType DEF Finish, Counted
  <2>3. CASE Goto([call EXCEPT !.pc = "wait", !.polls = 0])
    <3>1. call'.copy = call.copy /\ outcome' = outcome BY <1>0, <2>3 DEF Goto, CallType
    <3> QED BY <2>1, <3>1 DEF Counted, TimesOut, Number
  <2> QED BY <1>4, <2>2, <2>3 DEF FrameSend
<1>5. CASE TxWaitDone
  <2>1. wire' = wire /\ call.pc = "wait" /\ bd_used
    BY <1>5 DEF TxWaitDone, Released, macVars
  <2>2. CASE Finish("sent") BY <2>2, IdleType DEF Finish, Counted
  <2>3. CASE Goto([call EXCEPT !.pc = "send", !.copy = @ + 1, !.attempt = 0])
    <3>1. call'.copy = call.copy + 1 /\ call'.pc = "send" /\ outcome' = outcome
      BY <1>0, <2>3 DEF Goto, CallType
    <3> QED BY <2>1, <3>1 DEF Counted, TimesOut, Number
  <2> QED BY <1>5, <2>2, <2>3 DEF TxWaitDone, Succeeded
<1>6. CASE TxWaitPoll
  <2>1. wire' = wire /\ call.pc = "wait" /\ bd_used' = bd_used /\ ~bd_used
    BY <1>6 DEF TxWaitPoll, Released, macVars
  <2>2. CASE Failed("failed") BY <2>1, <2>2, FailedCounts
  <2>3. CASE Goto([call EXCEPT !.polls = @ + 1])
    <3>1. call'.copy = call.copy /\ outcome' = outcome BY <1>0, <2>3 DEF Goto, CallType
    <3> QED BY <2>1, <3>1 DEF Counted, TimesOut, Number
  <2> QED BY <1>6, <2>2, <2>3 DEF TxWaitPoll
<1>7. CASE Recover
  <2>1. /\ wire' = wire /\ outcome' = outcome /\ call' = AfterRecover(call)
        /\ call.pc = "recover"
    BY <1>7 DEF Recover, Goto
  <2>2. AfterRecover(call).copy = call.copy /\ AfterRecover(call).pc = "send"
    BY <1>0 DEF AfterRecover, CallType
  <2> QED BY <2>1, <2>2, GoOnKeeps
<1>8. CASE GemRelease
  <2> DEFINE f == [call |-> tx_buf, torn |-> gem.torn]
  <2>1. /\ wire' = Append(wire, f) /\ ~bd_used /\ Number' = Number
        /\ call' = call /\ tx_buf' = tx_buf
    BY <1>0, <1>8 DEF GemRelease, Ownership, Number
  <2>2. f \in Frame /\ f.call = tx_buf
    <3>1. gem.torn \in BOOLEAN /\ tx_buf \in Nat BY <1>0, Numbers DEF TypeOK, GemType
    <3> QED BY <3>1 DEF Frame
  <2> HIDE DEF f
  <2>3. TimesOut(Number)' = IF tx_buf = Number THEN TimesOut(Number) + 1 ELSE TimesOut(Number)
    <3>1. \A n : TimesOut(n)' = IF f.call = n THEN TimesOut(n) + 1 ELSE TimesOut(n)
      BY <1>0, <1>t, <2>1, <2>2, OneMoreOut
    <3>2. TimesOut(Number)' = Cardinality({i \in 1 .. Len(wire') : wire'[i].call = Number})
      BY <2>1 DEF TimesOut
    <3> QED BY <2>2, <3>1, <3>2 DEF TimesOut
  <2>4. call.pc = "wait" => tx_buf = Number BY <1>0 DEF Progress
  <2>5. call.copy \in Nat BY <1>0 DEF CallType
  <2> QED BY <1>n, <2>1, <2>3, <2>4, <2>5 DEF Counted
<1>9. CASE LearnMac \/ GemFetch \/ MacStalls \/ MacResumes \/ UNCHANGED vars
  BY <1>1, <1>9 DEF LearnMac, GemFetch, MacStalls, MacResumes, vars, macVars
<1> QED BY <1>2, <1>3, <1>4, <1>5, <1>6, <1>7, <1>8, <1>9 DEF Next, SendStep, Gem

\* The send of PROCESS_DONE only ends when the last copy is seen released.
LEMMA StepEndsDone ==
  ASSUME IInv, Counted, [Next]_vars,
         call.kind = "done", call.pc # "idle", call'.pc = "idle"
  PROVE  TimesOut(Number) >= DoneCopies
<1>0. /\ TypeOK /\ call \in CallType /\ Retries
      /\ TimesOut(Number) \in Nat /\ DoneCopies \in Nat
  BY Countable, Sizes DEF IInv, TypeOK, Retries
<1>1. CASE UNCHANGED call BY <1>1
<1>2. CASE \E k \in Kinds : Begin(k) BY <1>2 DEF Begin
<1>3. ASSUME NEW status, Failed(status) PROVE FALSE
  <2>1. CASE Goto([call EXCEPT !.pc = "send", !.attempt = @ + 1])
    BY <1>0, <2>1 DEF Goto, CallType
  <2>2. CASE Goto([call EXCEPT !.pc = "recover"]) BY <1>0, <2>2 DEF Goto, CallType
  <2> QED BY <1>0, <1>3, <2>1, <2>2 DEF Failed
<1>4. CASE NoAddress \/ FrameBusy BY <1>3, <1>4 DEF NoAddress, FrameBusy
<1>5. CASE FrameSend
  BY <1>0, <1>5 DEF FrameSend, Goto, CallType
<1>6. CASE TxWaitPoll
  <2>1. CASE Goto([call EXCEPT !.polls = @ + 1]) BY <1>6, <2>1 DEF Goto, TxWaitPoll, CallType
  <2> QED BY <1>3, <1>6, <2>1 DEF TxWaitPoll
<1>7. CASE Recover BY <1>0, <1>7 DEF Recover, Goto, AfterRecover, CallType
<1>8. CASE TxWaitDone
  <2>1. TimesOut(Number) >= call.copy + 1
    BY <1>8 DEF TxWaitDone, Released, Counted
  <2>2. ~(call.copy + 1 < DoneCopies)
    <3>1. CASE Goto([call EXCEPT !.pc = "send", !.copy = @ + 1, !.attempt = 0])
      BY <1>0, <3>1 DEF Goto, CallType
    <3> QED BY <1>8, <3>1 DEF TxWaitDone, Succeeded
  <2> QED BY <1>0, <2>1, <2>2 DEF CallType
<1> QED BY <1>1, <1>2, <1>4, <1>5, <1>6, <1>7, <1>8
     DEF Next, SendStep, Gem, LearnMac, GemFetch, GemRelease, MacStalls, MacResumes, vars

\* eth_capture_send_process_done only returns when all its copies, the last one
\* too, have gone out on the wire.
THEOREM EveryCopyLeaves == Spec => AllCopiesOut
<1>1. Init => Counted BY DEF Init, Idle, Counted
<1>2. Spec => []Counted BY <1>1, NextCounted, InvariantHolds, PTL DEF Spec
<1>3. IInv /\ Counted /\ [Next]_vars =>
        [(call.kind = "done" /\ call.pc # "idle" /\ call'.pc = "idle")
         => TimesOut(Number) >= DoneCopies]_vars
  BY StepEndsDone
<1> QED BY <1>2, <1>3, InvariantHolds, PTL DEF Spec, AllCopiesOut

-----------------------------------------------------------------------------
(***************************************************************************)
(* GemTx implements DatagramOut: the wire is its output, a step of the MAC *)
(* that releases a frame is a Put, one that ends a send is a Return.       *)
(***************************************************************************)
LEMMA OutgoingShape ==
  ASSUME TypeOK
  PROVE  /\ Outgoing \in Seq(Nat) /\ Len(Outgoing) = Len(wire) /\ Len(wire) \in Nat
         /\ \A i \in 1 .. Len(wire) : Outgoing[i] = wire[i].call
<1>1. Len(wire) \in Nat BY DEF TypeOK
<1>2. \A i \in 1 .. Len(wire) : wire[i].call \in Nat BY FrameOut
<1> QED BY <1>1, <1>2 DEF Outgoing

\* Ending the send under way is a Return, if its result is true.
LEMMA FinishReturns ==
  ASSUME NEW status \in {"sent", "refused", "queued", "failed"},
         IInv, call.pc # "idle", Finish(status), wire' = wire,
         status = "sent" => \E i \in 1 .. Len(wire) : wire[i].call = Number,
         status = "refused" => tx_buf < Number
  PROVE  Transport!Next
<1>1. TypeOK /\ OneOpen /\ Latest BY DEF IInv
<1>2. Number \in Nat /\ tx_buf \in Nat BY <1>1, Numbers
<1>3. Number \in 1 .. Len(outcome) /\ outcome[Number] = "open"
  BY <1>1, <1>2 DEF OneOpen, Number
<1>4. outcome' = [outcome EXCEPT ![Number] = status] /\ Outgoing' = Outgoing
  BY DEF Finish, Outgoing
<1>5. status = "sent" => Transport!IsOut(Number)
  BY <1>1, OutgoingShape DEF Transport!IsOut
<1>6. status = "refused" => ~Transport!IsOut(Number)
  <2> SUFFICES ASSUME status = "refused",
                      NEW i \in 1 .. Len(Outgoing), Outgoing[i] = Number
               PROVE  FALSE
    BY DEF Transport!IsOut
  <2>1. i \in 1 .. Len(wire) /\ wire[i].call = Number BY <1>1, OutgoingShape
  <2>2. wire[i].call <= tx_buf BY <1>1, <2>1 DEF Latest
  <2> QED BY <1>2, <2>1, <2>2
<1>7. Transport!Return(Number, status)
  BY <1>3, <1>4, <1>5, <1>6 DEF Transport!Return
<1> QED BY <1>3, <1>7 DEF Transport!Next

\* A failed attempt is one, or changes nothing a caller sees.
LEMMA FailedReturns ==
  ASSUME NEW status \in {"refused", "failed"},
         IInv, call.pc # "idle", Failed(status), wire' = wire,
         (status = "refused" /\ ~Retries) => tx_buf < Number
  PROVE  [Transport!Next]_(Transport!vars)
<1>1. CASE ~Retries /\ Finish(status) BY <1>1, FinishReturns
<1>2. CASE Finish("failed") BY <1>2, FinishReturns
<1>3. CASE outcome' = outcome BY <1>3 DEF Outgoing, Transport!vars
<1> QED BY <1>1, <1>2, <1>3 DEF Failed, Goto

LEMMA StepImplements == IInv /\ [Next]_vars => [Transport!Next]_(Transport!vars)
<1> SUFFICES ASSUME IInv, [Next]_vars PROVE [Transport!Next]_(Transport!vars) OBVIOUS
<1>0. TypeOK /\ OneOpen /\ Latest /\ Progress BY DEF IInv
<1>n. Number \in Nat /\ tx_buf \in Nat /\ tx_buf <= Number BY <1>0, Numbers
<1>s. CASE wire' = wire /\ outcome' = outcome BY <1>s DEF Outgoing, Transport!vars
<1>1. ASSUME NEW kind \in Kinds, Begin(kind) PROVE Transport!Next
  <2>1. \A n \in 1 .. Len(outcome) : outcome[n] # "open"
    BY <1>0, <1>1 DEF Begin, OneOpen, Number
  <2>2. Outgoing' = Outgoing BY <1>1 DEF Begin, macVars, Outgoing
  <2>3. Len(outcome) < MaxCalls /\ outcome' = Append(outcome, "open")
    BY <1>1 DEF Begin, Number
  <2>4. Transport!Begin BY <2>1, <2>2, <2>3 DEF Transport!Begin
  <2> QED BY <2>4 DEF Transport!Next
<1>2. CASE LearnMac \/ Recover \/ GemFetch \/ MacStalls \/ MacResumes \/ UNCHANGED vars
  BY <1>2, <1>s DEF LearnMac, Recover, Goto, GemFetch, MacStalls, MacResumes, vars, macVars
<1>3. CASE NoAddress
  <2>1. call.pc # "idle" /\ tx_buf < Number /\ wire' = wire
    BY <1>0, <1>3 DEF NoAddress, Latest, OneOpen, macVars
  <2>2. CASE Finish("refused") BY <2>1, <2>2, FinishReturns
  <2>3. CASE Failed("refused") BY <2>1, <2>3, FailedReturns
  <2> QED BY <1>3, <2>2, <2>3 DEF NoAddress
<1>4. CASE FrameBusy
  BY <1>0, <1>4, FailedReturns DEF FrameBusy, Progress, macVars
<1>5. CASE FrameSend
  <2>1. call.pc # "idle" /\ wire' = wire BY <1>5 DEF FrameSend
  <2>2. CASE Finish("queued") BY <2>1, <2>2, FinishReturns
  <2>3. CASE outcome' = outcome BY <1>s, <2>1, <2>3
  <2> QED BY <1>5, <2>2, <2>3 DEF FrameSend, Goto
<1>6. CASE TxWaitDone
  <2>1. /\ call.pc # "idle" /\ wire' = wire
        /\ \E i \in 1 .. Len(wire) : wire[i].call = Number
    BY <1>0, <1>6 DEF TxWaitDone, Released, Progress, macVars
  <2>2. CASE Finish("sent") BY <2>1, <2>2, FinishReturns
  <2>3. CASE outcome' = outcome BY <1>s, <2>1, <2>3
  <2> QED BY <1>6, <2>2, <2>3 DEF TxWaitDone, Succeeded, Goto
<1>7. CASE TxWaitPoll
  <2>1. call.pc # "idle" /\ wire' = wire BY <1>7 DEF TxWaitPoll, macVars
  <2>2. CASE Failed("failed") BY <2>1, <2>2, FailedReturns
  <2>3. CASE outcome' = outcome BY <1>s, <2>1, <2>3
  <2> QED BY <1>7, <2>2, <2>3 DEF TxWaitPoll, Goto
<1>8. CASE GemRelease
  <2>1. ~bd_used /\ wire' = Append(wire, [call |-> tx_buf, torn |-> gem.torn])
        /\ outcome' = outcome
    BY <1>8 DEF GemRelease, Ownership, IInv
  <2>2. tx_buf \in 1 .. Len(outcome) /\ outcome[tx_buf] \in {"open", "queued", "failed"}
    BY <1>0, <1>n, <2>1 DEF Latest, Number
  <2>3. Outgoing # <<>> => Outgoing[Len(Outgoing)] <= tx_buf
    <3> SUFFICES ASSUME Outgoing # <<>> PROVE Outgoing[Len(Outgoing)] <= tx_buf OBVIOUS
    <3>1. Len(wire) \in 1 .. Len(wire) BY <1>0, OutgoingShape
    <3> QED BY <1>0, <3>1, OutgoingShape DEF Latest
  <2>4. Outgoing' = Append(Outgoing, tx_buf)
    <3>1. /\ wire \in Seq(Frame) /\ Len(wire) \in Nat
          /\ [call |-> tx_buf, torn |-> gem.torn] \in Frame
      <4>1. gem.torn \in BOOLEAN BY <1>0 DEF TypeOK, GemType
      <4> QED BY <1>0, <1>n, <4>1 DEF TypeOK, Frame
    <3> DEFINE f == [call |-> tx_buf, torn |-> gem.torn]
    <3>2. f.call = tx_buf /\ f \in Frame /\ wire' = Append(wire, f) BY <2>1, <3>1
    <3> HIDE DEF f
    <3>3. /\ Len(wire') = Len(wire) + 1 /\ wire'[Len(wire) + 1] = f
          /\ \A i \in 1 .. Len(wire) : wire'[i] = wire[i]
      BY <3>1, <3>2
    <3>4. Outgoing' = [i \in 1 .. Len(wire) + 1 |->
                         IF i <= Len(wire) THEN wire[i].call ELSE tx_buf]
      BY <3>1, <3>2, <3>3 DEF Outgoing
    <3> QED BY <1>0, <1>n, <3>1, <3>4, OutgoingShape DEF Outgoing
  <2>5. Transport!Put(tx_buf) BY <2>1, <2>2, <2>3, <2>4 DEF Transport!Put
  <2> QED BY <2>2, <2>5 DEF Transport!Next
<1> QED BY <1>1, <1>2, <1>3, <1>4, <1>5, <1>6, <1>7, <1>8 DEF Next, SendStep, Gem

\* Datagrams leave in the order of the calls; what reports success is out, and
\* what was refused never will be (frame_send, eth_tx_wait, udp_send_retry).
THEOREM Implements == Spec => ImplementsTransport
<1>1. Init => Transport!Init
  <2> SUFFICES ASSUME Init PROVE Outgoing = <<>> /\ outcome = <<>>
    BY DEF Transport!Init
  <2> QED BY DEF Init, Outgoing
<1> QED BY <1>1, StepImplements, InvariantHolds, PTL DEF Spec, ImplementsTransport, Transport!Spec
=============================================================================
