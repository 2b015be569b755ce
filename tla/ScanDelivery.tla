----------------------------- MODULE ScanDelivery -----------------------------
(***************************************************************************)
(* What a scan session promises its two ends, without messages: a host     *)
(* offers a scan, the board processes it whole and at most once, and the   *)
(* host takes a scan for done only after the board has processed it.       *)
(***************************************************************************)
EXTENDS Naturals

CONSTANT Scans

VARIABLES
  offered,    \* the scans a host has asked the board to take
  processed,  \* how often the board has processed each scan
  confirmed   \* the scans a host has seen PROCESS_DONE for

vars == <<offered, processed, confirmed>>

TypeOK ==
  /\ offered \subseteq Scans
  /\ processed \in [Scans -> 0 .. 1]
  /\ confirmed \subseteq offered

Init ==
  /\ offered = {}
  /\ processed = [s \in Scans |-> 0]
  /\ confirmed = {}

Offer(s) ==
  /\ offered' = offered \cup {s}
  /\ UNCHANGED <<processed, confirmed>>

Process(s) ==
  /\ s \in offered
  /\ processed[s] = 0
  /\ processed' = [processed EXCEPT ![s] = 1]
  /\ UNCHANGED <<offered, confirmed>>

Confirm(s) ==
  /\ s \in offered
  /\ processed[s] = 1
  /\ confirmed' = confirmed \cup {s}
  /\ UNCHANGED <<offered, processed>>

Next == \E s \in Scans : Offer(s) \/ Process(s) \/ Confirm(s)

Spec == Init /\ [][Next]_vars
===============================================================================
