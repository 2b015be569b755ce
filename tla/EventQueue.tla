------------------------------- MODULE EventQueue -------------------------------
(***************************************************************************)
(* The operator's console: RadarReceiverService (radar_host/service.py)    *)
(* and the part of radar_monitor.py that starts, stops and polls it.       *)
(*                                                                         *)
(* Two threads share a bounded queue of events and a stop flag: "rx", the  *)
(* receive loop, and "gui", Tk's only thread.  Both call _emit, whose three*)
(* queue operations and counter update are atomic one by one only.         *)
(* ReportDelivery models what PacketRouter.route makes of a datagram; here *)
(* a datagram gives one event or none.                                     *)
(*                                                                         *)
(* Every start makes a new service with a queue of its own: the events of  *)
(* the one before, and a thread of it that stop() could not wait for, are  *)
(* out of reach, and the state below is the current service's.             *)
(***************************************************************************)
EXTENDS Naturals, Sequences, FiniteSets

CONSTANTS
  QueueSize,   \* queue_size
  DrainLimit,  \* drain_events' limit
  MaxPackets,  \* bound: datagrams received by all services
  MaxStarts,   \* bound: services made
  MaxFaults    \* bound: socket errors and failures to record an event

ASSUME EventQueueAssumption ==
  /\ {QueueSize, DrainLimit, MaxPackets, MaxStarts} \subseteq Nat \ {0}
  /\ DrainLimit <= QueueSize
  /\ MaxFaults \in Nat

Threads == {"rx", "gui"}

VARIABLES
  events,    \* self._events
  dropped,   \* self._events_dropped
  stop,      \* self._stop_event
  handle,    \* self._thread: "held", "none", or "given_up", None while it is running
  loop,      \* where _receive_loop is
  gui,       \* the Tk callback that is running, or "idle"
  emitting,  \* each thread's place in _emit and the event it has in hand
  batch,     \* drained events that are still to be handled
  polling,   \* root.after has a _poll_events scheduled
  armed,     \* start_button is enabled
  shown,     \* the events of this service the operator has seen, in order
  made,      \* events made so far
  gone,      \* events of this service that _emit took out or failed to put in
  count      \* what the bounds count: packets, starts, socket errors, failed recordings

guiVars == <<gui, batch, polling, armed, shown>>
vars == <<events, dropped, stop, handle, loop, guiVars, emitting, made, gone, count>>

Event(kind) == [kind |-> kind, n |-> made + 1]
NoEvent == [kind |-> "none", n |-> 0]
Free == [step |-> "free", event |-> NoEvent]

\* self._thread.is_alive(): a loop that has been left may still be emitting.
Alive == loop \notin {"off", "ended", "crashed"} \/ emitting["rx"] # Free

Init ==
  /\ events = <<>> /\ dropped = 0 /\ stop = FALSE
  /\ handle = "none" /\ loop = "off"
  /\ gui = "idle" /\ batch = <<>> /\ polling = TRUE /\ armed = TRUE
  /\ emitting = [t \in Threads |-> Free]
  /\ shown = <<>> /\ made = 0 /\ gone = {}
  /\ count = [packets |-> 0, starts |-> 0, faults |-> 0, unsaved |-> 0]

-----------------------------------------------------------------------------
(***************************************************************************)
(* _emit, called by either thread.                                         *)
(***************************************************************************)
Emit(t, kind) ==
  /\ emitting' = [emitting EXCEPT ![t] = [step |-> "put", event |-> Event(kind)]]
  /\ made' = made + 1

At(t, step) == emitting[t].step = step
Goes(t, step) == emitting' = [emitting EXCEPT ![t].step = step]

Put(t) ==
  /\ events' = Append(events, emitting[t].event)
  /\ emitting' = [emitting EXCEPT ![t] = Free]

\* put_nowait(event)
PutNowait(t) ==
  /\ At(t, "put")
  /\ \/ Len(events) < QueueSize /\ Put(t)
     \/ Len(events) = QueueSize /\ Goes(t, "take") /\ UNCHANGED events
  /\ UNCHANGED <<dropped, stop, handle, loop, guiVars, made, gone, count>>

\* Mutant of TakeOldest: queue.Full leads straight to the counter.
TakeNothing(t) ==
  /\ At(t, "take")
  /\ Goes(t, "count")
  /\ UNCHANGED <<events, dropped, stop, handle, loop, guiVars, made, gone, count>>

\* get_nowait(): the GUI may have emptied the queue by now.
TakeOldest(t) ==
  /\ At(t, "take")
  /\ \/ /\ events # <<>>
        /\ events' = Tail(events) /\ gone' = gone \union {Head(events)}
     \/ events = <<>> /\ UNCHANGED <<events, gone>>
  /\ Goes(t, "count")
  /\ UNCHANGED <<dropped, stop, handle, loop, guiVars, made, count>>

\* Mutant of CountDrop: the counter is not updated.
CountNothing(t) ==
  /\ At(t, "count")
  /\ Goes(t, "again")
  /\ UNCHANGED <<events, dropped, stop, handle, loop, guiVars, made, gone, count>>

CountDrop(t) ==
  /\ At(t, "count")
  /\ dropped' = dropped + 1
  /\ Goes(t, "again")
  /\ UNCHANGED <<events, stop, handle, loop, guiVars, made, gone, count>>

\* The second put_nowait.  When the other thread has filled the queue again it
\* raises queue.Full: the receive thread dies of it, a Tk callback is given up.
PutAgain(t) ==
  /\ At(t, "again")
  /\ \/ /\ Len(events) < QueueSize
        /\ Put(t)
        /\ UNCHANGED <<loop, gui, gone>>
     \/ /\ Len(events) = QueueSize
        /\ gone' = gone \union {emitting[t].event}
        /\ emitting' = [emitting EXCEPT ![t] = Free]
        /\ loop' = IF t = "rx" THEN "crashed" ELSE loop
        /\ gui' = IF t = "gui" THEN "idle" ELSE gui
        /\ UNCHANGED events
  /\ UNCHANGED <<dropped, stop, handle, batch, polling, armed, shown, made, count>>

EmitStep(t) == PutNowait(t) \/ TakeOldest(t) \/ CountDrop(t) \/ PutAgain(t)

-----------------------------------------------------------------------------
(***************************************************************************)
(* The receive loop                                                        *)
(***************************************************************************)
\* Mutant of LoopTest: the flag is only looked at before the first datagram.
LoopTestDeaf ==
  /\ loop = "test" /\ At("rx", "free")
  /\ loop' = "recv"
  /\ UNCHANGED <<events, dropped, stop, handle, guiVars, emitting, made, gone, count>>

\* while not self._stop_event.is_set(), once the last event is emitted.
LoopTest ==
  /\ loop = "test" /\ At("rx", "free")
  /\ loop' = IF stop THEN "ended" ELSE "recv"
  /\ UNCHANGED <<events, dropped, stop, handle, guiVars, emitting, made, gone, count>>

\* A datagram.  start() has emitted LISTENING before the queue can have filled.
Receive ==
  /\ loop = "recv"
  /\ gui = "starting" => Len(events) + 1 < QueueSize
  /\ count.packets < MaxPackets
  /\ count' = [count EXCEPT !.packets = @ + 1]
  /\ loop' = "test"
  /\ Emit("rx", "packet") \/ UNCHANGED <<emitting, made>>
  /\ UNCHANGED <<events, dropped, stop, handle, guiVars, gone>>

\* settimeout(0.25)
ReceiveTimeout ==
  /\ loop = "recv"
  /\ loop' = "test"
  /\ UNCHANGED <<events, dropped, stop, handle, guiVars, emitting, made, gone, count>>

\* recvfrom reports an error of the system's; it is told unless stop() has begun.
ReceiveFails ==
  /\ loop = "recv" /\ count.faults + count.unsaved < MaxFaults
  /\ count' = [count EXCEPT !.faults = @ + 1]
  /\ loop' = "ended"
  /\ IF stop THEN UNCHANGED <<emitting, made>> ELSE Emit("rx", "warning")
  /\ UNCHANGED <<events, dropped, stop, handle, guiVars, gone>>

RxThread == EmitStep("rx") \/ LoopTest \/ Receive \/ ReceiveTimeout \/ ReceiveFails

-----------------------------------------------------------------------------
(***************************************************************************)
(* The GUI thread                                                          *)
(***************************************************************************)
\* start_receiver: a new service; its start() may find the port taken.
StartReceiver ==
  /\ gui = "idle" /\ armed /\ ~(handle = "held" /\ Alive)
  /\ count.starts < MaxStarts
  /\ count' = [count EXCEPT !.starts = @ + 1]
  /\ events' = <<>> /\ dropped' = 0 /\ stop' = FALSE
  /\ shown' = <<>> /\ gone' = {}
  /\ \/ /\ handle' = "held" /\ loop' = "test" /\ gui' = "starting"
        /\ made' = made + 1
        /\ emitting' = [[t \in Threads |-> Free] EXCEPT
                           !["gui"] = [step |-> "put", event |-> Event("listening")]]
     \/ /\ handle' = "none" /\ loop' = "off"
        /\ emitting' = [t \in Threads |-> Free]
        /\ UNCHANGED <<gui, made>>
  /\ UNCHANGED <<batch, polling, armed>>

\* The end of start_receiver and stop_receiver, once the event is emitted.
CallReturns ==
  /\ gui \in {"starting", "stopping"} /\ At("gui", "free")
  /\ gui' = "idle"
  /\ armed' = (gui = "stopping")
  /\ UNCHANGED <<events, dropped, stop, handle, loop, emitting, batch, polling, shown, made, gone, count>>

\* stop_receiver: stop() up to join, or nothing but the button.
StopReceiver ==
  /\ gui = "idle" /\ count.starts > 0
  /\ \/ /\ handle = "held"
        /\ stop' = TRUE /\ gui' = "joining"
        /\ UNCHANGED armed
     \/ /\ handle # "held"
        /\ armed' = TRUE
        /\ UNCHANGED <<stop, gui>>
  /\ UNCHANGED <<events, dropped, handle, loop, emitting, batch, polling, shown, made, gone, count>>

\* Mutant of JoinReturns: nobody waits for the thread.
JoinReturnsAtOnce == TRUE

\* join returns because the thread has ended.
JoinReturns == ~Alive

\* It is still busy with an event after a second; a thread that is waiting in
\* recvfrom for at most 0.25 s would have seen the flag.
JoinTimesOut == ~At("rx", "free")

\* stop() after join: the thread is forgotten, the socket closed.
Stopped ==
  /\ gui = "joining"
  /\ \/ JoinReturns /\ handle' = "none"
     \/ JoinTimesOut /\ handle' = "given_up"
  /\ gui' = "stopping"
  /\ Emit("gui", "stopped")
  /\ UNCHANGED <<events, dropped, stop, loop, batch, polling, armed, shown, gone, count>>

\* _poll_events: drain_events, up to its limit.
Poll ==
  /\ gui = "idle" /\ polling /\ count.starts > 0
  /\ gui' = "draining"
  /\ UNCHANGED <<events, dropped, stop, handle, loop, emitting, batch, polling, armed, shown, made, gone, count>>

DrainOne ==
  /\ gui = "draining" /\ events # <<>> /\ Len(batch) < DrainLimit
  /\ batch' = Append(batch, Head(events))
  /\ events' = Tail(events)
  /\ UNCHANGED <<dropped, stop, handle, loop, emitting, gui, polling, armed, shown, made, gone, count>>

DrainEnds ==
  /\ gui = "draining" /\ (events = <<>> \/ Len(batch) = DrainLimit)
  /\ gui' = "handling"
  /\ UNCHANGED <<events, dropped, stop, handle, loop, emitting, batch, polling, armed, shown, made, gone, count>>

\* _handle_event shows and records an event.
HandleOne ==
  /\ gui = "handling" /\ batch # <<>>
  /\ shown' = Append(shown, Head(batch))
  /\ batch' = Tail(batch)
  /\ UNCHANGED <<events, dropped, stop, handle, loop, emitting, gui, polling, armed, made, gone, count>>

\* Recording it fails (SessionRecorder: the disk is full): the exception ends
\* _poll_events before it has scheduled the next one.
HandleFails ==
  /\ gui = "handling" /\ batch # <<>> /\ count.faults + count.unsaved < MaxFaults
  /\ count' = [count EXCEPT !.unsaved = @ + 1]
  /\ batch' = <<>> /\ polling' = FALSE /\ gui' = "idle"
  /\ UNCHANGED <<events, dropped, stop, handle, loop, emitting, armed, shown, made, gone>>

\* Mutant of PollEnds: only a poll that found something schedules the next.
PollEndsIdle ==
  /\ gui = "handling" /\ batch = <<>>
  /\ gui' = "idle"
  /\ polling' = (events # <<>>)
  /\ UNCHANGED <<events, dropped, stop, handle, loop, emitting, batch, armed, shown, made, gone, count>>

PollEnds ==
  /\ gui = "handling" /\ batch = <<>>
  /\ gui' = "idle"
  /\ UNCHANGED <<events, dropped, stop, handle, loop, emitting, batch, polling, armed, shown, made, gone, count>>

GuiCallback ==
  \/ EmitStep("gui") \/ CallReturns \/ Stopped
  \/ Poll \/ DrainOne \/ DrainEnds \/ HandleOne \/ PollEnds
Operator == StartReceiver \/ StopReceiver

Next == RxThread \/ GuiCallback \/ Operator \/ HandleFails

\* Both threads run.  A callback of the operator's is served like any other;
\* nothing is assumed of the operator, of datagrams and of faults.
Fairness ==
  /\ WF_vars(EmitStep("rx")) /\ WF_vars(LoopTest) /\ WF_vars(ReceiveTimeout)
  /\ WF_vars(EmitStep("gui") \/ CallReturns \/ Stopped \/ DrainOne \/ DrainEnds \/ HandleOne \/ PollEnds)
  /\ WF_vars(Poll)

Spec == Init /\ [][Next]_vars /\ Fairness

-----------------------------------------------------------------------------
(***************************************************************************)
(* Properties                                                              *)
(***************************************************************************)
Events == [kind : {"listening", "stopped", "packet", "warning"}, n : Nat]
Steps == {"put", "take", "count", "again"}

\* Types; the queue holds at most queue_size events, a drain at most its limit.
TypeOK ==
  /\ events \in Seq(Events) /\ Len(events) <= QueueSize
  /\ batch \in Seq(Events) /\ Len(batch) <= DrainLimit
  /\ shown \in Seq(Events) /\ gone \subseteq Events
  /\ loop \in {"off", "test", "recv", "ended", "crashed"}
  /\ gui \in {"idle", "starting", "joining", "stopping", "draining", "handling"}
  /\ emitting \in [Threads -> [step : Steps, event : Events] \union {Free}]
  /\ handle \in {"none", "held", "given_up"}
  /\ {stop, polling, armed} \subseteq BOOLEAN
  /\ {dropped, made} \subseteq Nat

\* A full queue costs old events but never the receiver: the receive thread
\* only dies of queue.Full when stop() has given it up (_emit against start(),
\* stop() and drain_events).
ReceiverSurvives == loop = "crashed" => handle = "given_up"

\* The footer's Dropped count is no smaller than the number of events the full
\* queue has cost, whichever thread took them out (_emit, events_dropped).
DropsCounted ==
  handle # "given_up" =>
    Cardinality(gone) <= dropped + Cardinality({t \in Threads : At(t, "count")})

\* Once the operator has seen STOPPED nothing more of that service is shown,
\* unless stop() gave up a busy thread (stop's join before _emit).
StoppedIsLast ==
  handle # "given_up" =>
    \A i \in 1 .. Len(shown) : shown[i].kind = "stopped" => i = Len(shown)

\* A receive thread that was told to stop ends, whatever arrives, however full
\* the queue is and although join may have given it up; only a new service may
\* take its place before (_receive_loop's test, the timeout of recvfrom).
ThreadEnds == (stop /\ Alive) ~> (~Alive \/ ~stop)

\* No event stays in the queue or in a drained batch for ever, unless a failure
\* to record one has ended the polling; neither a Stop nor a socket error leaves
\* the window hanging with events to show (_poll_events, drain_events, stop).
Waiting(n) ==
  \/ \E i \in 1 .. Len(events) : events[i].n = n
  \/ \E i \in 1 .. Len(batch) : batch[i].n = n
NoEventStuck ==
  \A n \in 1 .. MaxPackets + 2 * MaxStarts + MaxFaults :
    Waiting(n) ~> (~Waiting(n) \/ count.unsaved > 0)

\* The inductive invariant of EventQueueProofs.  Its heart is RoomAgain: between
\* making room and using it a thread is alone with the queue, because stop()
\* emits only after the receive thread's end, and start() before the queue can
\* be full.
OneCallback ==
  /\ gui \in {"starting", "joining"} => handle = "held"
  /\ gui = "stopping" => handle # "held"
  /\ ~At("gui", "free") => gui \in {"starting", "stopping"}
ThreadForgotten == handle = "none" => ~Alive /\ loop # "crashed"
StartHasRoom ==
  gui = "starting" /\ ~At("gui", "free") =>
    \/ loop = "ended" /\ At("rx", "free")
    \/ /\ At("gui", "put") /\ Len(events) < QueueSize
       /\ \/ At("rx", "free")
          \/ At("rx", "put") /\ (loop = "ended" \/ Len(events) + 1 < QueueSize)
RoomAgain ==
  handle # "given_up" =>
    \A t \in Threads : At(t, "count") \/ At(t, "again") => Len(events) < QueueSize
IInv ==
  TypeOK /\ OneCallback /\ ThreadForgotten /\ StartHasRoom /\ RoomAgain /\ ReceiverSurvives
=================================================================================
