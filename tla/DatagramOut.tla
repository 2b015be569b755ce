------------------------------ MODULE DatagramOut ------------------------------
(***************************************************************************)
(* What a caller of the firmware's send functions may rely on, without the *)
(* transmitter: datagrams leave in the order of the calls, a call that     *)
(* reports success has put its datagram on the wire, and one that was      *)
(* refused never will.  One that failed after queueing may go out later,   *)
(* more than once or not at all.                                           *)
(***************************************************************************)
EXTENDS Naturals, Sequences

CONSTANT MaxCalls

VARIABLES
  out,      \* the datagrams on the wire, each by the number of its call
  outcome   \* what each call so far has returned, or "open"

vars == <<out, outcome>>

Init == out = <<>> /\ outcome = <<>>

IsOut(n) == \E i \in 1 .. Len(out) : out[i] = n

Begin ==
  /\ Len(outcome) < MaxCalls
  /\ \A n \in 1 .. Len(outcome) : outcome[n] # "open"
  /\ outcome' = Append(outcome, "open")
  /\ UNCHANGED out

Put(n) ==
  /\ outcome[n] \in {"open", "queued", "failed"}
  /\ out # <<>> => out[Len(out)] <= n
  /\ out' = Append(out, n)
  /\ UNCHANGED outcome

Return(n, status) ==
  /\ outcome[n] = "open"
  /\ status = "sent" => IsOut(n)
  /\ status = "refused" => ~IsOut(n)
  /\ outcome' = [outcome EXCEPT ![n] = status]
  /\ UNCHANGED out

Next ==
  \/ Begin
  \/ \E n \in 1 .. Len(outcome) :
       Put(n) \/ \E s \in {"sent", "refused", "queued", "failed"} : Return(n, s)

Spec == Init /\ [][Next]_vars
===============================================================================
