---------------------------- MODULE EventQueueProofs ----------------------------
(***************************************************************************)
(* Proofs about EventQueue, for every queue size, drain limit and bound:   *)
(* the receive thread never dies of a full queue while stop() can still    *)
(* find it.  The invariant says who may be emitting at the same time, and  *)
(* that whoever has made room in the queue still finds it there.           *)
(***************************************************************************)
EXTENDS EventQueue, SequenceTheorems, FiniteSetTheorems, TLAPS

LEMMA Sizes ==
  QueueSize \in Nat \ {0} /\ DrainLimit \in Nat \ {0} /\ MaxFaults \in Nat
BY EventQueueAssumption

\* What the invariant says of the variables _emit does not use.
RestType ==
  /\ batch \in Seq(Events) /\ Len(batch) <= DrainLimit
  /\ shown \in Seq(Events)
  /\ {stop, polling, armed} \subseteq BOOLEAN

QueueType ==
  /\ events \in Seq(Events) /\ Len(events) <= QueueSize
  /\ gone \subseteq Events
  /\ loop \in {"off", "test", "recv", "ended", "crashed"}
  /\ gui \in {"idle", "starting", "joining", "stopping", "draining", "handling"}
  /\ emitting \in [Threads -> [step : Steps, event : Events] \union {Free}]
  /\ handle \in {"none", "held", "given_up"}
  /\ {dropped, made} \subseteq Nat

LEMMA TypeSplits == TypeOK <=> RestType /\ QueueType
BY DEF TypeOK, RestType, QueueType

Control == OneCallback /\ ThreadForgotten /\ StartHasRoom /\ RoomAgain /\ ReceiverSurvives
Core == QueueType /\ Control

LEMMA InvariantSplits == IInv <=> RestType /\ Core
BY TypeSplits DEF IInv, Core, Control

\* A thread has an event in hand exactly when it is inside _emit.
LEMMA InHand ==
  ASSUME QueueType, NEW t \in Threads
  PROVE  /\ At(t, "free") <=> emitting[t] = Free
         /\ ~At(t, "free") => /\ emitting[t].step \in Steps
                              /\ emitting[t].event \in Events
BY DEF QueueType, At, Free, Steps

\* An event that is made is an event.
LEMMA MadeEvent ==
  ASSUME QueueType, NEW k \in {"listening", "stopped", "packet", "warning"}
  PROVE  Event(k) \in Events /\ [step |-> "put", event |-> Event(k)] \in [step : Steps, event : Events]
BY DEF QueueType, Event, Events, Steps

LEMMA InitInvariant == Init => IInv
<1> SUFFICES ASSUME Init PROVE IInv OBVIOUS
<1>1. RestType
  <2>1. batch = <<>> /\ shown = <<>> /\ stop = FALSE /\ polling = TRUE /\ armed = TRUE
    BY DEF Init
  <2>2. Len(batch) = 0 /\ batch \in Seq(Events) /\ shown \in Seq(Events) BY <2>1
  <2>3. {stop, polling, armed} \subseteq BOOLEAN BY <2>1, Zenon
  <2>4. Len(batch) <= DrainLimit BY <2>2, Sizes
  <2> QED BY <2>2, <2>3, <2>4 DEF RestType
<1>2. QueueType BY Sizes DEF Init, QueueType, Free
<1>3. \A t \in Threads : At(t, "free") /\ ~At(t, "count") /\ ~At(t, "again")
  BY DEF Init, At, Free
<1>4. Control
  BY <1>3 DEF Init, Control, OneCallback, ThreadForgotten, StartHasRoom, RoomAgain,
              ReceiverSurvives, Alive, Threads
<1> QED BY <1>1, <1>2, <1>4, InvariantSplits DEF Core

-----------------------------------------------------------------------------
(***************************************************************************)
(* _emit                                                                   *)
(***************************************************************************)
\* The other thread is free, or the GUI is starting a service.
LEMMA Alone ==
  ASSUME Core, handle # "given_up", ~At("rx", "free"), ~At("gui", "free")
  PROVE  /\ gui = "starting" /\ handle = "held" /\ At("gui", "put") /\ At("rx", "put")
         /\ loop = "ended" \/ Len(events) + 1 < QueueSize
         /\ Len(events) < QueueSize
<1>1. emitting["rx"] # Free BY InHand DEF Core, Threads
<1>2. handle = "held" BY <1>1 DEF Core, Control, QueueType, ThreadForgotten, Alive
<1>3. gui = "starting" BY <1>2 DEF Core, Control, OneCallback
<1> QED BY <1>2, <1>3 DEF Core, Control, StartHasRoom

LEMMA PutNowaitStep ==
  ASSUME Core, NEW t \in Threads, PutNowait(t)
  PROVE  Core'
<1>1. emitting[t].step = "put" /\ emitting[t] # Free /\ emitting[t].event \in Events
      /\ emitting[t] \in [step : Steps, event : Events]
  BY DEF PutNowait, At, Core, QueueType, Free, Steps
<1>2. QueueType'
  <2>1. CASE Len(events) < QueueSize /\ Put(t)
    <3>1. events' \in Seq(Events) /\ Len(events') = Len(events) + 1
      BY <1>1, <2>1 DEF Core, QueueType, Put
    <3>2. emitting' \in [Threads -> [step : Steps, event : Events] \union {Free}]
      BY <2>1 DEF Core, QueueType, Put
    <3> QED BY <2>1, <3>1, <3>2, Sizes DEF Core, QueueType, PutNowait, guiVars
  <2>2. CASE Goes(t, "take") /\ UNCHANGED events
    <3>1. [emitting[t] EXCEPT !.step = "take"] \in [step : Steps, event : Events]
      BY <1>1 DEF Steps
    <3>2. emitting' \in [Threads -> [step : Steps, event : Events] \union {Free}]
      BY <2>2, <3>1 DEF Core, QueueType, Goes
    <3> QED BY <2>2, <3>2 DEF Core, QueueType, PutNowait, guiVars
  <2> QED BY <2>1, <2>2 DEF PutNowait
<1>3. \A u \in Threads \ {t} : emitting'[u] = emitting[u]
  BY <1>1 DEF Core, QueueType, PutNowait, Put, Goes
<1>4. emitting'[t] = Free \/ (emitting'[t].step = "take" /\ emitting'[t] # Free)
  BY <1>1 DEF Core, QueueType, PutNowait, Put, Goes, Free
<1>u. UNCHANGED <<handle, loop, gui>> BY DEF PutNowait, guiVars
<1>5. OneCallback'
  BY <1>1, <1>3, <1>4, <1>u DEF Core, Control, OneCallback, At, Threads, Free
<1>6. ThreadForgotten' /\ ReceiverSurvives'
  BY <1>1, <1>3, <1>4, <1>u DEF Core, Control, ThreadForgotten, ReceiverSurvives, Alive, Threads
<1>7. StartHasRoom'
  <2> SUFFICES ASSUME gui = "starting", emitting'["gui"].step # "free", StartHasRoom
               PROVE  StartHasRoom'
    BY <1>u DEF Core, Control, StartHasRoom, At
  <2>h. Len(events) < QueueSize => Len(events') = Len(events) + 1 /\ emitting'[t] = Free
    BY <1>1, Sizes DEF Core, QueueType, PutNowait, Put
  <2>1. CASE t = "gui"
    BY <1>3, <1>4, <1>u, <2>1, <2>h DEF StartHasRoom, At, Free, Threads, PutNowait
  <2>2. CASE t = "rx"
    <3>1. emitting'["gui"] = emitting["gui"] BY <1>3, <2>2 DEF Threads
    <3>2. At("gui", "put") /\ Len(events) < QueueSize
          /\ (loop = "ended" \/ Len(events) + 1 < QueueSize)
      BY <1>1, <2>2, <3>1 DEF StartHasRoom, At
    <3>3. emitting'["rx"].step = "free" BY <2>2, <2>h, <3>2 DEF Free
    <3> QED BY <1>u, <2>h, <3>1, <3>2, <3>3 DEF StartHasRoom, At
  <2> QED BY <2>1, <2>2 DEF Threads
<1>8. RoomAgain'
  <2> SUFFICES ASSUME handle # "given_up", NEW u \in Threads,
                      emitting'[u].step \in {"count", "again"}
               PROVE  FALSE
    BY <1>u DEF RoomAgain, At
  <2>1. u # t BY <1>4 DEF Free
  <2>2. emitting[u].step \in {"count", "again"} BY <1>3, <2>1
  <2>3. ~At(u, "free") /\ ~At(t, "free") /\ ~At(u, "put") BY <1>1, <2>2 DEF At
  <2> QED BY <2>1, <2>3, Alone DEF Threads
<1> QED BY <1>2, <1>5, <1>6, <1>7, <1>8 DEF Core, Control

\* Past put_nowait a thread is the only one inside _emit.
LEMMA OnlyOne ==
  ASSUME Core, NEW t \in Threads, NEW u \in Threads, u # t, handle # "given_up",
         ~At(t, "free"), ~At(t, "put")
  PROVE  emitting[u] = Free
<1> SUFFICES ASSUME ~At(u, "free") PROVE FALSE BY InHand DEF Core
<1> QED BY Alone DEF Threads

\* A GUI that is emitting LISTENING leaves the others of _emit's steps to a
\* thread that has ended, and never takes them itself before that.
LEMMA PastPut ==
  ASSUME Core, NEW t \in Threads, ~At(t, "free"), ~At(t, "put"),
         gui = "starting", ~At("gui", "free")
  PROVE  t = "gui" /\ loop = "ended" /\ At("rx", "free")
BY DEF Core, Control, StartHasRoom, Threads

\* One of _emit's later steps: the thread goes on, in hand what it had.
LEMMA MovesOn ==
  ASSUME Core, NEW t \in Threads, ~At(t, "free"), ~At(t, "put"),
         NEW step \in Steps, Goes(t, step),
         UNCHANGED <<handle, loop, gui>>,
         events' \in Seq(Events), Len(events') <= QueueSize, gone' \subseteq Events,
         dropped' \in Nat, UNCHANGED made,
         step \in {"count", "again"} /\ handle # "given_up" => Len(events') < QueueSize
  PROVE  Core'
<1>1. emitting[t] \in [step : Steps, event : Events] BY InHand DEF Core, QueueType
<1>2. emitting'[t] = [emitting[t] EXCEPT !.step = step]
      /\ \A u \in Threads \ {t} : emitting'[u] = emitting[u]
  BY DEF Core, QueueType, Goes
<1>3. emitting'[t].step = step /\ emitting'[t] \in [step : Steps, event : Events]
      /\ step # "free" /\ emitting'[t] # Free
  BY <1>1, <1>2 DEF Steps, Free
<1>4. emitting' \in [Threads -> [step : Steps, event : Events] \union {Free}]
  BY <1>1, <1>3, <1>2 DEF Core, QueueType, Goes
<1>5. QueueType' BY <1>4 DEF Core, QueueType
<1>6. OneCallback' BY <1>2, <1>3 DEF Core, Control, OneCallback, At, Threads
<1>7. ThreadForgotten' /\ ReceiverSurvives'
  <2>1. emitting'["rx"] # Free => emitting["rx"] # Free
    BY <1>2, <1>3, InHand DEF Core, Threads
  <2> QED BY <2>1 DEF Core, Control, ThreadForgotten, ReceiverSurvives, Alive
<1>8. StartHasRoom'
  <2> SUFFICES ASSUME gui = "starting", emitting'["gui"].step # "free"
               PROVE  loop = "ended" /\ emitting'["rx"].step = "free"
    BY DEF StartHasRoom, At
  <2>1. ~At("gui", "free") BY <1>2 DEF At, Threads
  <2>2. t = "gui" /\ loop = "ended" /\ At("rx", "free") BY <2>1, PastPut
  <2> QED BY <1>2, <2>2 DEF At, Threads
<1>9. RoomAgain'
  <2> SUFFICES ASSUME handle # "given_up", NEW u \in Threads,
                      emitting'[u].step \in {"count", "again"}
               PROVE  Len(events') < QueueSize
    BY DEF RoomAgain, At
  <2>1. CASE u = t BY <2>1, <1>3
  <2>2. CASE u # t BY <2>2, <1>2, OnlyOne DEF Free
  <2> QED BY <2>1, <2>2
<1> QED BY <1>5, <1>6, <1>7, <1>8, <1>9 DEF Core, Control

LEMMA TakeOldestStep ==
  ASSUME Core, NEW t \in Threads, TakeOldest(t)
  PROVE  Core'
<1>1. ~At(t, "free") /\ ~At(t, "put") /\ "count" \in Steps BY DEF TakeOldest, At, Steps
<1>2. events' \in Seq(Events) /\ Len(events') < QueueSize /\ gone' \subseteq Events
  <2>1. CASE events # <<>>
    <3>1. events' \in Seq(Events) /\ Len(events') = Len(events) - 1 /\ Head(events) \in Events
      BY <2>1 DEF Core, QueueType, TakeOldest
    <3> QED BY <2>1, <3>1, Sizes DEF Core, QueueType, TakeOldest
  <2>2. CASE events = <<>>
    BY <2>2, Sizes DEF Core, QueueType, TakeOldest
  <2> QED BY <2>1, <2>2
<1>3. dropped' \in Nat /\ UNCHANGED <<made, handle, loop, gui>> /\ Goes(t, "count")
  BY DEF Core, QueueType, TakeOldest, guiVars
<1>4. Len(events') <= QueueSize BY <1>2, Sizes
<1> QED BY <1>1, <1>2, <1>3, <1>4, MovesOn

LEMMA CountDropStep ==
  ASSUME Core, NEW t \in Threads, CountDrop(t)
  PROVE  Core'
<1>1. ~At(t, "free") /\ ~At(t, "put") /\ "again" \in Steps /\ At(t, "count")
  BY DEF CountDrop, At, Steps
<1>2. handle # "given_up" => Len(events) < QueueSize
  BY <1>1 DEF Core, Control, RoomAgain
<1>3. dropped' \in Nat /\ UNCHANGED <<events, gone, made, handle, loop, gui>> /\ Goes(t, "again")
  BY DEF Core, QueueType, CountDrop, guiVars
<1> QED BY <1>1, <1>2, <1>3, MovesOn DEF Core, QueueType

LEMMA PutAgainStep ==
  ASSUME Core, NEW t \in Threads, PutAgain(t)
  PROVE  Core'
<1>1. ~At(t, "free") /\ ~At(t, "put") /\ At(t, "again") /\ emitting[t].event \in Events
  BY InHand DEF PutAgain, At, Core
<1>2. emitting'[t] = Free /\ \A u \in Threads \ {t} : emitting'[u] = emitting[u]
  BY DEF PutAgain, Put, Core, QueueType
<1>3. emitting' \in [Threads -> [step : Steps, event : Events] \union {Free}]
  BY DEF PutAgain, Put, Core, QueueType
<1>u. UNCHANGED <<handle, dropped, made>> BY DEF PutAgain
<1>4. CASE Len(events) < QueueSize /\ Put(t) /\ UNCHANGED <<loop, gui, gone>>
  <2>1. events' \in Seq(Events) /\ Len(events') = Len(events) + 1
    BY <1>1, <1>4 DEF Core, QueueType, Put
  <2>2. QueueType' BY <1>3, <1>4, <1>u, <2>1, Sizes DEF Core, QueueType
  <2>3. OneCallback' BY <1>2, <1>4, <1>u DEF Core, Control, OneCallback, At, Threads, Free
  <2>4. ThreadForgotten' /\ ReceiverSurvives'
    BY <1>2, <1>4, <1>u DEF Core, Control, ThreadForgotten, ReceiverSurvives, Alive, Threads
  <2>5. StartHasRoom'
    <3> SUFFICES ASSUME gui = "starting", emitting'["gui"].step # "free" PROVE FALSE
      BY <1>4 DEF StartHasRoom, At
    <3>1. t # "gui" /\ ~At("gui", "free") BY <1>2 DEF Free, At, Threads
    <3> QED BY <1>1, <3>1, PastPut
  <2>6. RoomAgain'
    <3> SUFFICES ASSUME handle # "given_up", NEW u \in Threads,
                        emitting'[u].step \in {"count", "again"}
                 PROVE  FALSE
      BY <1>u DEF RoomAgain, At
    <3> QED BY <1>1, <1>2, OnlyOne DEF Free
  <2> QED BY <2>2, <2>3, <2>4, <2>5, <2>6 DEF Core, Control
<1>5. CASE Len(events) = QueueSize /\ ~(Len(events) < QueueSize)
  <2>1. handle = "given_up" BY <1>1, <1>5 DEF Core, Control, RoomAgain
  <2>2. /\ gone' = gone \union {emitting[t].event} /\ UNCHANGED events
        /\ loop' = IF t = "rx" THEN "crashed" ELSE loop
        /\ gui' = IF t = "gui" THEN "idle" ELSE gui
    BY <1>5 DEF PutAgain
  <2>3. QueueType' BY <1>1, <1>3, <1>u, <2>2 DEF Core, QueueType
  <2>4. gui # "starting" /\ gui # "joining" BY <2>1 DEF Core, Control, OneCallback
  <2>5. OneCallback' /\ StartHasRoom'
    BY <1>2, <1>u, <2>1, <2>2, <2>4
       DEF Core, Control, OneCallback, StartHasRoom, At, Threads, Free
  <2>6. ThreadForgotten' /\ ReceiverSurvives' /\ RoomAgain'
    BY <1>u, <2>1 DEF ThreadForgotten, ReceiverSurvives, RoomAgain
  <2> QED BY <2>3, <2>5, <2>6 DEF Core, Control
<1> QED BY <1>4, <1>5, Sizes DEF PutAgain, Core, QueueType

LEMMA EmitKeepsCore ==
  ASSUME Core, NEW t \in Threads, EmitStep(t)
  PROVE  Core'
BY PutNowaitStep, TakeOldestStep, CountDropStep, PutAgainStep DEF EmitStep

-----------------------------------------------------------------------------
(***************************************************************************)
(* The receive loop                                                        *)
(***************************************************************************)
\* A step of the loop proper, from which the thread is alive, keeps Core when
\* it emits at most one event and leaves LISTENING its room.
LEMMA LoopStep ==
  ASSUME Core, loop \in {"test", "recv"}, loop' \in {"test", "recv", "ended"},
         UNCHANGED <<events, gone, gui, handle, dropped>>, made' \in Nat,
         \/ UNCHANGED emitting
         \/ /\ \E e \in Events :
                 emitting' = [emitting EXCEPT !["rx"] = [step |-> "put", event |-> e]]
            /\ gui = "starting" => loop' = "ended" \/ Len(events) + 1 < QueueSize
  PROVE  Core'
<1>1. emitting'["gui"] = emitting["gui"]
      /\ (emitting'["rx"] = emitting["rx"] \/ emitting'["rx"].step = "put")
      /\ emitting' \in [Threads -> [step : Steps, event : Events] \union {Free}]
  BY DEF Core, QueueType, Threads, Steps
<1>2. QueueType' BY <1>1 DEF Core, QueueType
<1>3. handle # "none" BY DEF Core, Control, ThreadForgotten, Alive
<1>4. OneCallback' /\ ThreadForgotten' /\ ReceiverSurvives'
  BY <1>1, <1>3 DEF Core, Control, OneCallback, ThreadForgotten, ReceiverSurvives, At
<1>5. StartHasRoom'
  <2> SUFFICES ASSUME gui = "starting", emitting["gui"].step # "free"
               PROVE  StartHasRoom'
    BY <1>1 DEF StartHasRoom, At
  <2>1. /\ At("gui", "put") /\ Len(events) < QueueSize
        /\ At("rx", "free") \/ (At("rx", "put") /\ Len(events) + 1 < QueueSize)
    BY DEF Core, Control, StartHasRoom, At
  <2>2. CASE UNCHANGED emitting BY <2>1, <2>2 DEF StartHasRoom, At
  <2>3. CASE emitting'["rx"].step = "put" /\ (loop' = "ended" \/ Len(events) + 1 < QueueSize)
    BY <1>1, <2>1, <2>3 DEF StartHasRoom, At
  <2> QED BY <2>2, <2>3 DEF Core, QueueType, Threads
<1>6. RoomAgain'
  <2> SUFFICES ASSUME handle # "given_up", NEW u \in Threads,
                      emitting'[u].step \in {"count", "again"}
               PROVE  Len(events) < QueueSize
    BY DEF RoomAgain, At
  <2>1. emitting[u].step \in {"count", "again"} BY <1>1 DEF Threads
  <2> QED BY <2>1 DEF Core, Control, RoomAgain, At
<1> QED BY <1>2, <1>4, <1>5, <1>6 DEF Core, Control

LEMMA LoopKeepsCore ==
  ASSUME Core, LoopTest \/ Receive \/ ReceiveTimeout \/ ReceiveFails
  PROVE  Core'
<1>1. CASE LoopTest
  <2>1. made' \in Nat BY <1>1 DEF LoopTest, Core, QueueType
  <2> QED BY <1>1, <2>1, LoopStep DEF LoopTest, guiVars
<1>2. CASE ReceiveTimeout
  <2>1. made' \in Nat BY <1>2 DEF ReceiveTimeout, Core, QueueType
  <2> QED BY <1>2, <2>1, LoopStep DEF ReceiveTimeout, guiVars
<1>3. CASE Receive
  <2>1. Event("packet") \in Events BY MadeEvent DEF Core
  <2>2. made' \in Nat BY <1>3 DEF Receive, Emit, Core, QueueType
  <2> QED BY <1>3, <2>1, <2>2, LoopStep DEF Receive, Emit, guiVars
<1>4. CASE ReceiveFails
  <2>1. Event("warning") \in Events BY MadeEvent DEF Core
  <2>2. made' \in Nat BY <1>4 DEF ReceiveFails, Emit, Core, QueueType
  <2> QED BY <1>4, <2>1, <2>2, LoopStep DEF ReceiveFails, Emit, guiVars
<1> QED BY <1>1, <1>2, <1>3, <1>4

-----------------------------------------------------------------------------
(***************************************************************************)
(* The GUI thread                                                          *)
(***************************************************************************)
\* A callback that emits nothing and puts nothing into the queue.
LEMMA QuietCallback ==
  ASSUME Core, At("gui", "free"), UNCHANGED <<gone, handle, loop, emitting, dropped, made>>,
         gui' \in {"idle", "draining", "handling"} \/ (gui' = "joining" /\ handle = "held"),
         events' \in Seq(Events), Len(events') <= Len(events)
  PROVE  Core'
<1>1. QueueType' BY Sizes DEF Core, QueueType
<1>2. OneCallback' /\ StartHasRoom' BY DEF OneCallback, StartHasRoom, At
<1>3. ThreadForgotten' /\ ReceiverSurvives'
  BY DEF Core, Control, ThreadForgotten, ReceiverSurvives, Alive
<1>4. RoomAgain' BY Sizes DEF Core, Control, QueueType, RoomAgain, At
<1> QED BY <1>1, <1>2, <1>3, <1>4 DEF Core, Control

LEMMA CallbackKeepsCore ==
  ASSUME Core,
         CallReturns \/ Poll \/ DrainOne \/ DrainEnds \/ HandleOne \/ HandleFails
           \/ PollEnds \/ StopReceiver
  PROVE  Core'
<1>1. At("gui", "free")
  BY DEF Core, Control, OneCallback, CallReturns, Poll, DrainOne, DrainEnds, HandleOne,
         HandleFails, PollEnds, StopReceiver
<1>2. events \in Seq(Events) BY DEF Core, QueueType
<1>3. CASE DrainOne
  <2>1. events' \in Seq(Events) /\ Len(events') <= Len(events)
    BY <1>2, <1>3 DEF DrainOne
  <2> QED BY <1>1, <1>3, <2>1, QuietCallback DEF DrainOne, Core, QueueType
<1>4. CASE CallReturns BY <1>1, <1>2, <1>4, QuietCallback DEF CallReturns
<1>5. CASE Poll \/ DrainEnds \/ HandleOne \/ PollEnds
  BY <1>1, <1>2, <1>5, QuietCallback DEF Poll, DrainEnds, HandleOne, PollEnds
<1>6. CASE HandleFails BY <1>1, <1>2, <1>6, QuietCallback DEF HandleFails
<1>7. CASE StopReceiver BY <1>1, <1>2, <1>7, QuietCallback DEF StopReceiver
<1> QED BY <1>3, <1>4, <1>5, <1>6, <1>7

LEMMA StoppedKeepsCore == ASSUME Core, Stopped PROVE Core'
<1>1. handle = "held" /\ gui = "joining" /\ emitting["gui"] = Free
  BY InHand DEF Core, Control, OneCallback, Stopped, Threads
<1>2. [step |-> "put", event |-> Event("stopped")] \in [step : Steps, event : Events]
  BY MadeEvent DEF Core
<1>3. emitting'["gui"].step = "put" /\ emitting'["rx"] = emitting["rx"]
      /\ emitting' \in [Threads -> [step : Steps, event : Events] \union {Free}]
  BY <1>2 DEF Core, QueueType, Stopped, Emit, Threads
<1>4. QueueType' BY <1>3 DEF Core, QueueType, Stopped, Emit
<1>5. OneCallback' /\ StartHasRoom' BY DEF Stopped, OneCallback, StartHasRoom
<1>6. loop # "crashed" BY <1>1 DEF Core, Control, ReceiverSurvives
<1>7. handle' = "none" => ~Alive BY DEF Stopped, JoinReturns
<1>8. ThreadForgotten' /\ ReceiverSurvives'
  BY <1>3, <1>6, <1>7 DEF Stopped, ThreadForgotten, ReceiverSurvives, Alive
<1>9. RoomAgain'
  <2> SUFFICES ASSUME handle' = "none", NEW u \in Threads,
                      emitting'[u].step \in {"count", "again"}
               PROVE  FALSE
    BY DEF RoomAgain, At, Stopped
  <2> QED BY <1>3, <1>7 DEF Alive, Free, Threads
<1> QED BY <1>4, <1>5, <1>8, <1>9 DEF Core, Control

LEMMA StartKeepsCore == ASSUME Core, StartReceiver PROVE Core'
<1>1. [step |-> "put", event |-> Event("listening")] \in [step : Steps, event : Events]
  BY MadeEvent DEF Core
<1>2. events' = <<>> /\ events' \in Seq(Events) /\ Len(events') = 0 /\ dropped' = 0 /\ gone' = {}
  BY DEF StartReceiver
<1>3. gui = "idle" BY DEF StartReceiver
<1>4. CASE gui' = "starting" /\ handle' = "held" /\ loop' = "test" /\ made' = made + 1
           /\ emitting' = [[t \in Threads |-> Free] EXCEPT
                            !["gui"] = [step |-> "put", event |-> Event("listening")]]
  <2>1. emitting'["gui"].step = "put" /\ emitting'["rx"] = Free
        /\ emitting' \in [Threads -> [step : Steps, event : Events] \union {Free}]
    BY <1>1, <1>4 DEF Threads
  <2>2. QueueType' BY <1>2, <1>4, <2>1, Sizes DEF Core, QueueType
  <2>3. OneCallback' /\ StartHasRoom'
    BY <1>2, <1>4, <2>1, Sizes DEF OneCallback, StartHasRoom, At, Free
  <2>4. ThreadForgotten' /\ ReceiverSurvives' /\ RoomAgain'
    BY <1>2, <1>4, Sizes DEF ThreadForgotten, ReceiverSurvives, RoomAgain
  <2> QED BY <2>2, <2>3, <2>4 DEF Core, Control
<1>5. CASE handle' = "none" /\ loop' = "off" /\ emitting' = [t \in Threads |-> Free]
           /\ UNCHANGED <<gui, made>>
  <2>1. QueueType' BY <1>2, <1>5, Sizes DEF Core, QueueType
  <2>2. \A t \in Threads : emitting'[t] = Free /\ emitting'[t].step = "free"
    BY <1>5 DEF Free
  <2>3. OneCallback' /\ StartHasRoom'
    BY <1>3, <1>5, <2>2 DEF OneCallback, StartHasRoom, At, Threads
  <2>4. ThreadForgotten' /\ ReceiverSurvives' /\ RoomAgain'
    BY <1>2, <1>5, <2>2, Sizes
       DEF ThreadForgotten, ReceiverSurvives, RoomAgain, Alive, Threads
  <2> QED BY <2>1, <2>3, <2>4 DEF Core, Control
<1> QED BY <1>4, <1>5 DEF StartReceiver

-----------------------------------------------------------------------------
(***************************************************************************)
(* The invariant                                                           *)
(***************************************************************************)
LEMMA RestKept ==
  ASSUME RestType, QueueType, Next
  PROVE  RestType'
<1>1. CASE RxThread \/ EmitStep("gui") \/ Stopped
  <2>1. UNCHANGED <<batch, shown, polling, armed, stop>>
    BY <1>1 DEF RxThread, EmitStep, PutNowait, TakeOldest, CountDrop, PutAgain, LoopTest,
                Receive, ReceiveTimeout, ReceiveFails, Stopped, guiVars
  <2> QED BY <2>1 DEF RestType
<1>2. CASE DrainOne
  <2>1. Head(events) \in Events BY <1>2 DEF QueueType, DrainOne
  <2>2. batch' \in Seq(Events) /\ Len(batch') = Len(batch) + 1
    BY <1>2, <2>1 DEF RestType, DrainOne
  <2>3. Len(batch') <= DrainLimit BY <1>2, <2>2, Sizes DEF RestType, DrainOne
  <2> QED BY <1>2, <2>2, <2>3 DEF RestType, DrainOne
<1>3. CASE HandleOne
  <2>1. Head(batch) \in Events /\ batch' \in Seq(Events) /\ Len(batch') = Len(batch) - 1
    BY <1>3 DEF RestType, HandleOne
  <2>2. shown' \in Seq(Events) BY <1>3, <2>1 DEF RestType, HandleOne
  <2>3. Len(batch') <= DrainLimit BY <2>1, Sizes DEF RestType
  <2> QED BY <1>3, <2>1, <2>2, <2>3 DEF RestType, HandleOne
<1>4. CASE HandleFails
  <2>1. batch' \in Seq(Events) /\ Len(batch') = 0 BY <1>4 DEF HandleFails
  <2>2. UNCHANGED <<shown, armed, stop>> /\ polling' = FALSE BY <1>4 DEF HandleFails
  <2>3. {stop, polling, armed}' \subseteq BOOLEAN BY <2>2 DEF RestType
  <2> QED BY <2>1, <2>2, <2>3, Sizes DEF RestType
<1>5. CASE StartReceiver
  <2>1. shown' \in Seq(Events) BY <1>5 DEF StartReceiver
  <2>2. UNCHANGED <<batch, polling, armed>> /\ stop' = FALSE BY <1>5 DEF StartReceiver
  <2>3. {stop, polling, armed}' \subseteq BOOLEAN BY <2>2 DEF RestType
  <2> QED BY <2>1, <2>2, <2>3 DEF RestType
<1>6. CASE CallReturns BY <1>6 DEF RestType, CallReturns
<1>7. CASE Poll \/ DrainEnds \/ PollEnds BY <1>7 DEF RestType, Poll, DrainEnds, PollEnds
<1>8. CASE StopReceiver
  <2>1. UNCHANGED <<batch, shown, polling>> BY <1>8 DEF StopReceiver
  <2>2. (stop' = TRUE \/ stop' = stop) /\ (armed' = TRUE \/ armed' = armed)
    BY <1>8 DEF StopReceiver
  <2>3. {stop, polling, armed}' \subseteq BOOLEAN BY <2>1, <2>2 DEF RestType
  <2> QED BY <2>1, <2>3 DEF RestType
<1> QED
  BY <1>1, <1>2, <1>3, <1>4, <1>5, <1>6, <1>7, <1>8 DEF Next, GuiCallback, Operator

LEMMA InvariantStep == IInv /\ [Next]_vars => IInv'
<1>s. RestType' /\ Core' => IInv' BY DEF IInv, TypeOK, RestType, Core, QueueType, Control
<1> SUFFICES ASSUME RestType, Core, [Next]_vars PROVE RestType' /\ Core'
  BY <1>s, InvariantSplits
<1>1. CASE UNCHANGED vars
  <2>1. UNCHANGED <<events, dropped, stop, handle, loop, gui, batch, polling, armed, shown,
                    emitting, made, gone>>
    BY <1>1 DEF vars, guiVars
  <2> QED
    BY <2>1 DEF RestType, Core, QueueType, Control, OneCallback, ThreadForgotten,
                StartHasRoom, RoomAgain, ReceiverSurvives, At, Alive
<1>2. CASE Next
  <2>1. RestType' BY <1>2, RestKept DEF Core
  <2>2. Core'
    BY <1>2, EmitKeepsCore, LoopKeepsCore, CallbackKeepsCore, StoppedKeepsCore,
       StartKeepsCore DEF Next, RxThread, GuiCallback, Operator, Threads
  <2> QED BY <2>1, <2>2
<1> QED BY <1>1, <1>2

\* The invariant of which the next theorems are consequences: EventQueue's IInv
\* holds in every reachable state, whatever the queue size.
THEOREM InvariantHolds == Spec => []IInv
<1> QED BY InitInvariant, InvariantStep, PTL DEF Spec

\* Every variable keeps its type; the queue and the drained batch stay within
\* their limits (queue_size, drain_events).
THEOREM TypeCorrect == Spec => []TypeOK
<1>1. IInv => TypeOK BY DEF IInv
<1> QED BY <1>1, InvariantHolds, PTL

\* The receive thread dies of a full queue only when stop() has given it up:
\* _emit's second put_nowait always finds the room its get_nowait has made.
THEOREM ReceiverNeverDies == Spec => []ReceiverSurvives
<1>1. IInv => ReceiverSurvives BY DEF IInv
<1> QED BY <1>1, InvariantHolds, PTL

-----------------------------------------------------------------------------
(***************************************************************************)
(* The Dropped counter                                                     *)
(***************************************************************************)
Counting == {t \in Threads : At(t, "count")}

LEMMA FewThreads ==
  ASSUME NEW C \in SUBSET Threads
  PROVE  IsFiniteSet(C) /\ Cardinality(C) \in Nat
<1>1. IsFiniteSet({"rx"}) BY FS_Singleton
<1>2. IsFiniteSet({"rx"} \union {"gui"}) BY <1>1, FS_AddElement
<1>3. Threads = {"rx"} \union {"gui"} BY DEF Threads
<1>4. IsFiniteSet(C) BY <1>2, <1>3, FS_Subset
<1> QED BY <1>4, FS_CardinalityType

LEMMA CountingFinite == IsFiniteSet(Counting) /\ Cardinality(Counting) \in Nat
BY FewThreads DEF Counting

\* What DropsCounted needs to be inductive: a loop in recvfrom is not in _emit.
Drops ==
  /\ IsFiniteSet(gone)
  /\ loop = "recv" => At("rx", "free")
  /\ DropsCounted

LEMMA DropsInit == Init => Drops
<1> SUFFICES ASSUME Init PROVE Drops OBVIOUS
<1>1. IsFiniteSet(gone) /\ Cardinality(gone) = 0 /\ dropped = 0
  BY FS_EmptySet DEF Init
<1>2. Cardinality(gone) <= dropped + Cardinality(Counting) BY <1>1, CountingFinite
<1> QED BY <1>1, <1>2 DEF Init, Drops, DropsCounted, Counting

\* A step that loses nothing and leaves everyone's place at the counter.
LEMMA NothingLost ==
  ASSUME Drops, UNCHANGED <<gone, dropped>>, Counting' = Counting,
         handle' # "given_up" => handle # "given_up",
         loop' = "recv" => emitting'["rx"].step = "free"
  PROVE  Drops'
BY DEF Drops, DropsCounted, Counting, At

LEMMA DropsEmit ==
  ASSUME Core, Drops, NEW t \in Threads, EmitStep(t)
  PROVE  Drops'
<1>r. loop' = "recv" => emitting'["rx"].step = "free"
  <2>1. CASE t = "rx"
    <3>1. loop # "recv"
      BY <2>1 DEF Drops, EmitStep, PutNowait, TakeOldest, CountDrop, PutAgain, At
    <3> QED BY <3>1 DEF EmitStep, PutNowait, TakeOldest, CountDrop, PutAgain, guiVars
  <2>2. CASE t = "gui"
    <3>1. emitting'["rx"] = emitting["rx"] /\ loop' = loop
      BY <2>2 DEF Core, QueueType, EmitStep, PutNowait, TakeOldest, CountDrop, PutAgain, Put,
                  Goes, guiVars, Threads
    <3> QED BY <3>1 DEF Drops, At
  <2> QED BY <2>1, <2>2 DEF Threads
<1>h. handle' = handle
  BY DEF EmitStep, PutNowait, TakeOldest, CountDrop, PutAgain
<1>o. \A u \in Threads \ {t} : emitting'[u] = emitting[u]
  BY DEF Core, QueueType, EmitStep, PutNowait, TakeOldest, CountDrop, PutAgain, Put, Goes
<1>1. CASE PutNowait(t)
  <2>1. emitting[t].step = "put" /\ emitting'[t].step \in {"free", "take"}
    BY <1>1, InHand DEF Core, QueueType, PutNowait, Put, Goes, At, Free
  <2>2. Counting' = Counting BY <1>o, <2>1 DEF Counting, At
  <2> QED BY <1>1, <1>r, <1>h, <2>2, NothingLost DEF PutNowait
<1>2. CASE TakeOldest(t)
  <2>1. emitting[t].step = "take" /\ emitting'[t].step = "count"
    BY <1>2, InHand DEF Core, QueueType, TakeOldest, Goes, At, Free
  <2>2. Counting' = Counting \union {t} /\ t \notin Counting
    BY <1>o, <2>1 DEF Counting, At
  <2>3. Cardinality(Counting') = Cardinality(Counting) + 1
    BY <2>2, CountingFinite, FS_AddElement
  <2>4. IsFiniteSet(gone') /\ Cardinality(gone') <= Cardinality(gone) + 1
    BY <1>2, FS_AddElement, FS_CardinalityType DEF Drops, TakeOldest
  <2>5. Cardinality(gone) \in Nat /\ Cardinality(gone') \in Nat /\ dropped' = dropped
    BY <1>2, <2>4, FS_CardinalityType DEF Drops, TakeOldest
  <2> QED
    BY <1>r, <1>h, <2>3, <2>4, <2>5, CountingFinite
       DEF Drops, DropsCounted, Counting, At, Core, QueueType
<1>3. CASE CountDrop(t)
  <2>1. emitting[t].step = "count" /\ emitting'[t].step = "again"
    BY <1>3, InHand DEF Core, QueueType, CountDrop, Goes, At, Free
  <2>2. Counting' = Counting \ {t} /\ t \in Counting BY <1>o, <2>1 DEF Counting, At
  <2>3. Cardinality(Counting') = Cardinality(Counting) - 1
    BY <2>2, CountingFinite, FS_RemoveElement
  <2>4. gone' = gone /\ dropped' = dropped + 1 /\ Cardinality(gone) \in Nat
    BY <1>3, FS_CardinalityType DEF Drops, CountDrop
  <2> QED
    BY <1>r, <1>h, <2>3, <2>4, CountingFinite
       DEF Drops, DropsCounted, Counting, At, Core, QueueType
<1>4. CASE PutAgain(t)
  <2>1. emitting[t].step = "again" /\ emitting'[t].step = "free"
    BY <1>4 DEF Core, QueueType, PutAgain, Put, At, Free
  <2>2. Counting' = Counting BY <1>o, <2>1 DEF Counting, At
  <2>3. CASE UNCHANGED gone
    BY <1>4, <1>r, <1>h, <2>2, <2>3, NothingLost DEF PutAgain
  <2>4. CASE Len(events) = QueueSize /\ gone' = gone \union {emitting[t].event}
    <3>1. handle = "given_up"
      BY <2>1, <2>4, Sizes DEF Core, Control, RoomAgain, At
    <3>2. IsFiniteSet(gone') BY <2>4, FS_AddElement DEF Drops
    <3> QED BY <1>r, <1>h, <3>1, <3>2 DEF Drops, DropsCounted, At
  <2> QED BY <1>4, <2>3, <2>4 DEF PutAgain
<1> QED BY <1>1, <1>2, <1>3, <1>4 DEF EmitStep

LEMMA DropsLoop ==
  ASSUME Core, Drops, LoopTest \/ Receive \/ ReceiveTimeout \/ ReceiveFails
  PROVE  Drops'
<1>1. UNCHANGED <<gone, dropped, handle>>
  BY DEF LoopTest, Receive, ReceiveTimeout, ReceiveFails
<1>2. /\ emitting["rx"].step = "free"
      /\ emitting'["gui"] = emitting["gui"] /\ emitting'["rx"].step \in {"free", "put"}
      /\ loop' = "recv" => emitting'["rx"].step = "free"
  BY DEF Core, QueueType, Drops, LoopTest, Receive, ReceiveTimeout, ReceiveFails, Emit, At,
         Threads
<1>3. Counting' = Counting BY <1>2 DEF Counting, At, Threads
<1> QED BY <1>1, <1>2, <1>3, NothingLost

LEMMA DropsGui ==
  ASSUME Core, Drops,
         CallReturns \/ Stopped \/ Poll \/ DrainOne \/ DrainEnds \/ HandleOne \/ HandleFails
           \/ PollEnds \/ Operator
  PROVE  Drops'
<1>1. CASE StartReceiver
  <2>1. gone' = {} /\ dropped' = 0 /\ loop' # "recv" BY <1>1 DEF StartReceiver
  <2>2. IsFiniteSet(gone') /\ Cardinality(gone') = 0 BY <2>1, FS_EmptySet
  <2>3. Cardinality(Counting') \in Nat BY FewThreads DEF Counting
  <2> QED BY <2>1, <2>2, <2>3 DEF Drops, DropsCounted, Counting, At
<1>2. CASE Stopped
  <2>1. emitting["gui"].step = "free" /\ handle = "held"
    BY <1>2 DEF Core, Control, OneCallback, Stopped, At
  <2>2. emitting'["gui"].step = "put" /\ emitting'["rx"] = emitting["rx"]
        /\ UNCHANGED <<loop, gone, dropped>>
    BY <1>2 DEF Core, QueueType, Stopped, Emit, Threads
  <2>3. Counting' = Counting BY <2>1, <2>2 DEF Counting, At, Threads
  <2>4. loop' = "recv" => emitting'["rx"].step = "free" BY <2>2 DEF Drops, At
  <2> QED BY <2>1, <2>2, <2>3, <2>4, NothingLost
<1>3. CASE CallReturns \/ Poll \/ DrainOne \/ DrainEnds \/ HandleOne \/ HandleFails
             \/ PollEnds \/ StopReceiver
  <2>1. UNCHANGED <<gone, dropped, handle, loop, emitting>>
    BY <1>3 DEF CallReturns, Poll, DrainOne, DrainEnds, HandleOne, HandleFails, PollEnds,
                StopReceiver
  <2>2. Counting' = Counting BY <2>1 DEF Counting, At
  <2> QED BY <2>1, <2>2, NothingLost DEF Drops, At
<1> QED BY <1>1, <1>2, <1>3 DEF Operator

LEMMA DropsStep == IInv /\ Drops /\ [Next]_vars => Drops'
<1> SUFFICES ASSUME Core, Drops, [Next]_vars PROVE Drops' BY InvariantSplits
<1>1. CASE UNCHANGED vars
  BY <1>1, NothingLost DEF vars, Drops, Counting, At
<1>2. CASE Next
  BY <1>2, DropsEmit, DropsLoop, DropsGui DEF Next, RxThread, GuiCallback, Threads
<1> QED BY <1>1, <1>2

\* The Dropped count never hides a loss: events that a full queue has cost are
\* counted, apart from one that is just being counted.
THEOREM DropsAreCounted == Spec => []DropsCounted
<1>1. Drops => DropsCounted BY DEF Drops
<1> QED BY <1>1, DropsInit, DropsStep, InvariantHolds, PTL DEF Spec

-----------------------------------------------------------------------------
(***************************************************************************)
(* STOPPED is the last event                                               *)
(***************************************************************************)
HasStop(q) == \E n \in 1 .. Len(q) : q[n].kind = "stopped"
StopAtEnd(q) == \A n \in 1 .. Len(q) : q[n].kind = "stopped" => n = Len(q)
Emitting(t, kind) == emitting[t] # Free /\ emitting[t].event.kind = kind

\* An event moves from _emit to the queue, to a batch, to the screen; STOPPED is
\* the last wherever it is, and nothing is behind it on that way.
Final ==
  /\ gui \notin {"draining", "handling"} => batch = <<>>
  /\ ~Emitting("rx", "stopped")
  /\ handle # "given_up" =>
       /\ StopAtEnd(shown) /\ StopAtEnd(batch) /\ StopAtEnd(events)
       /\ HasStop(shown) => batch = <<>> /\ events = <<>> /\ emitting["gui"] = Free
       /\ HasStop(batch) => events = <<>> /\ emitting["gui"] = Free
       /\ HasStop(events) => emitting["gui"] = Free
       /\ HasStop(shown) \/ HasStop(batch) \/ HasStop(events) \/ Emitting("gui", "stopped")
            => handle = "none"

LEMMA NoStop == HasStop(<<>>) = FALSE /\ StopAtEnd(<<>>)
BY DEF HasStop, StopAtEnd

LEMMA NoStopAtEnd == ASSUME NEW q, ~HasStop(q) PROVE StopAtEnd(q)
BY DEF HasStop, StopAtEnd

LEMMA StopAppended ==
  ASSUME NEW q \in Seq(Events), NEW e \in Events, ~HasStop(q)
  PROVE  /\ HasStop(Append(q, e)) => e.kind = "stopped"
         /\ StopAtEnd(Append(q, e))
<1> DEFINE r == Append(q, e)
<1>1. Len(q) \in Nat /\ Len(r) = Len(q) + 1 /\ r[Len(q) + 1] = e
      /\ \A n \in 1 .. Len(q) : r[n] = q[n]
  OBVIOUS
<1>2. \A n \in 1 .. Len(r) : n = Len(q) + 1 \/ n \in 1 .. Len(q) BY <1>1
<1> HIDE DEF r
<1> QED BY <1>1, <1>2 DEF HasStop, StopAtEnd

LEMMA StopInTail ==
  ASSUME NEW q \in Seq(Events), q # <<>>, StopAtEnd(q)
  PROVE  /\ Head(q) \in Events /\ Tail(q) \in Seq(Events)
         /\ StopAtEnd(Tail(q))
         /\ HasStop(Tail(q)) => HasStop(q)
         /\ Head(q).kind = "stopped" => Tail(q) = <<>> /\ HasStop(q)
<1> DEFINE r == Tail(q)
<1>1. Len(q) \in Nat \ {0} /\ r \in Seq(Events) /\ Len(r) = Len(q) - 1
      /\ \A n \in 1 .. Len(r) : r[n] = q[n + 1]
  OBVIOUS
<1>2. Head(q) = q[1] /\ q[1] \in Events BY <1>1
<1> HIDE DEF r
<1>3. \A n \in 1 .. Len(r) : n + 1 \in 1 .. Len(q) BY <1>1
<1>4. StopAtEnd(r) BY <1>1, <1>3 DEF StopAtEnd
<1>5. HasStop(r) => HasStop(q) BY <1>1, <1>3 DEF HasStop
<1>6. ASSUME q[1].kind = "stopped" PROVE r = <<>> /\ HasStop(q)
  <2>1. 1 \in 1 .. Len(q) BY <1>1
  <2>2. Len(q) = 1 BY <1>6, <2>1 DEF StopAtEnd
  <2>3. Len(r) = 0 BY <1>1, <2>2
  <2>4. r = <<>> BY <1>1, <2>3, EmptySeq
  <2> QED BY <1>6, <2>1, <2>4 DEF HasStop
<1> QED BY <1>1, <1>2, <1>4, <1>5, <1>6 DEF r

LEMMA FinalInit == Init => Final
BY NoStop, NoStopAtEnd DEF Init, Final, Emitting, Threads

\* A thread that is in _emit, or in its loop, is one stop() has not joined.
LEMMA RxNotJoined ==
  ASSUME Core, emitting["rx"] # Free \/ loop \in {"test", "recv"}
  PROVE  handle # "none"
BY DEF Core, Control, ThreadForgotten, Alive

\* Nothing that comes from the queue's own service is STOPPED while it is running.
LEMMA StillRunning ==
  ASSUME Final, handle = "held"
  PROVE  /\ ~HasStop(shown) /\ ~HasStop(batch) /\ ~HasStop(events)
         /\ ~Emitting("gui", "stopped") /\ ~Emitting("rx", "stopped")
BY DEF Final

LEMMA FinalEmit ==
  ASSUME Core, Final, NEW t \in Threads, EmitStep(t)
  PROVE  Final'
<1>0. /\ emitting[t] # Free /\ emitting[t].event \in Events /\ emitting[t].step \in Steps
      /\ events \in Seq(Events)
  BY InHand DEF Core, EmitStep, PutNowait, TakeOldest, CountDrop, PutAgain, At, Free, QueueType
<1>1. UNCHANGED <<handle, batch, shown>> /\ (gui' = gui \/ gui' = "idle")
  BY DEF EmitStep, PutNowait, TakeOldest, CountDrop, PutAgain, guiVars
<1>2. \A u \in Threads \ {t} : emitting'[u] = emitting[u]
  BY DEF Core, QueueType, EmitStep, PutNowait, TakeOldest, CountDrop, PutAgain, Put, Goes
<1>3. emitting'[t] = Free \/ (emitting'[t] # Free /\ emitting'[t].event = emitting[t].event)
  <2>1. CASE \E step \in Steps : Goes(t, step)
    <3>1. PICK step \in Steps : Goes(t, step) BY <2>1
    <3>2. emitting[t] \in [step : Steps, event : Events] BY InHand, <1>0 DEF Core, QueueType
    <3>3. emitting'[t] = [emitting[t] EXCEPT !.step = step] BY <3>1 DEF Goes, Core, QueueType
    <3> QED BY <3>2, <3>3 DEF Free, Steps
  <2>2. CASE emitting'[t] = Free BY <2>2
  <2>3. "take" \in Steps /\ "count" \in Steps /\ "again" \in Steps BY DEF Steps
  <2>4. Put(t) => emitting'[t] = Free BY DEF Put, Core, QueueType
  <2> QED
    BY <2>1, <2>2, <2>3, <2>4
       DEF EmitStep, PutNowait, TakeOldest, CountDrop, PutAgain, Core, QueueType
<1>4. \/ events' = events
      \/ events' = Append(events, emitting[t].event) /\ emitting'[t] = Free
      \/ events # <<>> /\ events' = Tail(events)
  BY DEF EmitStep, PutNowait, TakeOldest, CountDrop, PutAgain, Put, Core, QueueType
<1>5. gui' \notin {"draining", "handling"} => batch' = <<>>
  <2>1. CASE gui' = gui BY <1>1, <2>1 DEF Final
  <2>2. CASE gui' # gui
    <3>1. PutAgain(t) /\ t = "gui"
      BY <2>2 DEF EmitStep, PutNowait, TakeOldest, CountDrop, PutAgain, guiVars
    <3>2. gui \in {"starting", "stopping"}
      BY <1>0, <3>1, InHand DEF Core, Control, OneCallback
    <3> QED BY <1>1, <3>2 DEF Final
  <2> QED BY <2>1, <2>2
<1>6. \A u \in Threads, k \in {"stopped"} : Emitting(u, k)' => Emitting(u, k)
  BY <1>0, <1>2, <1>3 DEF Emitting
<1>7. ~Emitting("rx", "stopped")' BY <1>6 DEF Final, Threads
<1>8. ASSUME handle # "given_up"
      PROVE  /\ StopAtEnd(shown)' /\ StopAtEnd(batch)' /\ StopAtEnd(events)'
             /\ HasStop(shown)' => batch' = <<>> /\ events' = <<>> /\ emitting'["gui"] = Free
             /\ HasStop(batch)' => events' = <<>> /\ emitting'["gui"] = Free
             /\ HasStop(events)' => emitting'["gui"] = Free
             /\ HasStop(shown)' \/ HasStop(batch)' \/ HasStop(events)'
                  \/ Emitting("gui", "stopped")' => handle' = "none"
  <2>0. /\ StopAtEnd(shown) /\ StopAtEnd(batch) /\ StopAtEnd(events)
        /\ HasStop(shown)' = HasStop(shown) /\ StopAtEnd(shown)' = StopAtEnd(shown)
        /\ HasStop(batch)' = HasStop(batch) /\ StopAtEnd(batch)' = StopAtEnd(batch)
    BY <1>1, <1>8 DEF Final, HasStop, StopAtEnd
  <2>1. ~HasStop(shown) /\ ~HasStop(batch) /\ ~HasStop(events)
    <3>1. CASE t = "rx" BY <1>0, <1>8, <3>1, RxNotJoined DEF Final
    <3>2. CASE t = "gui" BY <1>0, <1>8, <3>2 DEF Final
    <3> QED BY <3>1, <3>2 DEF Threads
  <2>2. StopAtEnd(events')
    <3>1. CASE events' = events BY <2>0, <3>1
    <3>2. CASE events' = Append(events, emitting[t].event)
      BY <1>0, <2>1, <3>2, StopAppended
    <3>3. CASE events # <<>> /\ events' = Tail(events) BY <1>0, <2>0, <3>3, StopInTail
    <3> QED BY <1>4, <3>1, <3>2, <3>3
  <2>3. HasStop(events') =>
          /\ events' = Append(events, emitting[t].event) /\ emitting'[t] = Free
          /\ emitting[t].event.kind = "stopped"
    <3>1. CASE events' = events BY <2>1, <3>1
    <3>2. CASE events' = Append(events, emitting[t].event) /\ emitting'[t] = Free
      BY <1>0, <2>1, <3>2, StopAppended
    <3>3. CASE events # <<>> /\ events' = Tail(events) BY <1>0, <2>0, <2>1, <3>3, StopInTail
    <3> QED BY <1>4, <3>1, <3>2, <3>3
  <2>4. HasStop(events') => t = "gui" /\ Emitting("gui", "stopped") /\ emitting'["gui"] = Free
    BY <1>0, <2>3 DEF Final, Emitting, Threads
  <2>5. Emitting("gui", "stopped") => handle = "none" BY <1>8 DEF Final
  <2>6. Emitting("gui", "stopped")' => Emitting("gui", "stopped") BY <1>6 DEF Threads
  <2>7. HasStop(events)' = HasStop(events') /\ StopAtEnd(events)' = StopAtEnd(events')
    BY DEF HasStop, StopAtEnd
  <2> QED BY <1>1, <2>0, <2>1, <2>2, <2>4, <2>5, <2>6, <2>7
<1> QED BY <1>1, <1>5, <1>7, <1>8 DEF Final

LEMMA FinalLoop ==
  ASSUME Core, Final, LoopTest \/ Receive \/ ReceiveTimeout \/ ReceiveFails
  PROVE  Final'
<1>1. /\ UNCHANGED <<events, handle, batch, shown, gui>>
      /\ emitting'["gui"] = emitting["gui"]
      /\ emitting'["rx"] = emitting["rx"]
         \/ (emitting'["rx"].event.kind \in {"packet", "warning"})
  BY DEF LoopTest, Receive, ReceiveTimeout, ReceiveFails, Emit, Event, Core, QueueType, Threads,
         guiVars
<1> QED BY <1>1 DEF Final, Emitting, HasStop, StopAtEnd

LEMMA FinalGui ==
  ASSUME Core, RestType, Final,
         CallReturns \/ Stopped \/ Poll \/ DrainOne \/ DrainEnds \/ HandleOne \/ HandleFails
           \/ PollEnds \/ Operator
  PROVE  Final'
<1>1. CASE CallReturns \/ Poll \/ DrainEnds \/ PollEnds \/ StopReceiver
  <2>1. UNCHANGED <<events, handle, batch, shown, emitting>> /\
        (gui' \notin {"draining", "handling"} =>
           gui \notin {"draining", "handling"} \/ batch = <<>>)
    BY <1>1 DEF CallReturns, Poll, DrainEnds, PollEnds, StopReceiver
  <2> QED BY <2>1 DEF Final, Emitting, HasStop, StopAtEnd
<1>2. CASE HandleFails
  <2>1. UNCHANGED <<events, handle, shown, emitting>> /\ batch' = <<>>
    BY <1>2 DEF HandleFails
  <2>2. ~HasStop(batch') /\ StopAtEnd(batch') BY <2>1, NoStop
  <2>3. /\ HasStop(batch)' = HasStop(batch') /\ StopAtEnd(batch)' = StopAtEnd(batch')
        /\ HasStop(shown)' = HasStop(shown) /\ StopAtEnd(shown)' = StopAtEnd(shown)
        /\ HasStop(events)' = HasStop(events) /\ StopAtEnd(events)' = StopAtEnd(events)
        /\ \A u \in Threads : Emitting(u, "stopped")' = Emitting(u, "stopped")
    BY <2>1 DEF HasStop, StopAtEnd, Emitting
  <2> QED BY <2>1, <2>2, <2>3 DEF Final, Threads
<1>3. CASE Stopped
  <2>1. handle = "held" /\ gui = "joining" BY <1>3 DEF Stopped, Core, Control, OneCallback
  <2>2. UNCHANGED <<events, batch, shown>> /\ gui' = "stopping"
        /\ handle' \in {"none", "given_up"} /\ emitting'["rx"] = emitting["rx"]
    BY <1>3 DEF Stopped, Emit, Core, QueueType, Threads
  <2>3. /\ HasStop(batch)' = HasStop(batch) /\ StopAtEnd(batch)' = StopAtEnd(batch)
        /\ HasStop(shown)' = HasStop(shown) /\ StopAtEnd(shown)' = StopAtEnd(shown)
        /\ HasStop(events)' = HasStop(events) /\ StopAtEnd(events)' = StopAtEnd(events)
        /\ Emitting("rx", "stopped")' = Emitting("rx", "stopped")
    BY <2>2 DEF HasStop, StopAtEnd, Emitting
  <2> QED BY <2>1, <2>2, <2>3, StillRunning, NoStopAtEnd DEF Final
<1>4. CASE StartReceiver
  <2>1. events' = <<>> /\ shown' = <<>> /\ batch' = batch /\ batch = <<>>
        /\ gui' \in {"idle", "starting"}
    BY <1>4 DEF StartReceiver, Final
  <2>2. emitting'["rx"] = Free
        /\ (emitting'["gui"] = Free \/ emitting'["gui"].event.kind = "listening")
    BY <1>4 DEF StartReceiver, Threads, Event
  <2>3. /\ ~HasStop(batch)' /\ StopAtEnd(batch)' /\ ~HasStop(shown)' /\ StopAtEnd(shown)'
        /\ ~HasStop(events)' /\ StopAtEnd(events)'
    BY <2>1, NoStop DEF HasStop, StopAtEnd
  <2>4. ~Emitting("rx", "stopped")' /\ ~Emitting("gui", "stopped")' BY <2>2 DEF Emitting
  <2> QED BY <2>1, <2>3, <2>4 DEF Final
<1>5. CASE DrainOne
  <2>1. /\ gui = "draining" /\ events # <<>> /\ events \in Seq(Events)
        /\ batch \in Seq(Events)
        /\ batch' = Append(batch, Head(events)) /\ events' = Tail(events)
        /\ UNCHANGED <<gui, handle, shown, emitting>>
    BY <1>5 DEF DrainOne, Core, QueueType, RestType
  <2>2. emitting["gui"] = Free BY <2>1, InHand DEF Core, Control, OneCallback, Threads
  <2>3. ~Emitting("rx", "stopped")' BY <2>1 DEF Final, Emitting
  <2>4. ASSUME handle # "given_up"
        PROVE  /\ StopAtEnd(shown)' /\ StopAtEnd(batch') /\ StopAtEnd(events')
               /\ ~HasStop(shown)' /\ HasStop(batch') => events' = <<>>
               /\ HasStop(batch') \/ HasStop(events') => handle = "none"
    <3>1. StopAtEnd(shown) /\ StopAtEnd(events) /\ ~HasStop(shown) /\ ~HasStop(batch)
          /\ (HasStop(events) => handle = "none")
      BY <2>1, <2>4 DEF Final
    <3>2. StopAtEnd(shown)' /\ ~HasStop(shown)' BY <2>1, <3>1 DEF HasStop, StopAtEnd
    <3>3. /\ Head(events) \in Events /\ StopAtEnd(events')
          /\ HasStop(events') => HasStop(events)
          /\ Head(events).kind = "stopped" => events' = <<>> /\ HasStop(events)
      BY <2>1, <3>1, StopInTail
    <3>4. StopAtEnd(batch') /\ (HasStop(batch') => Head(events).kind = "stopped")
      BY <2>1, <3>1, <3>3, StopAppended
    <3> QED BY <3>1, <3>2, <3>3, <3>4
  <2>5. /\ HasStop(batch)' = HasStop(batch') /\ StopAtEnd(batch)' = StopAtEnd(batch')
        /\ HasStop(events)' = HasStop(events') /\ StopAtEnd(events)' = StopAtEnd(events')
        /\ ~Emitting("gui", "stopped")'
    BY <2>1, <2>2 DEF HasStop, StopAtEnd, Emitting
  <2> QED BY <2>1, <2>2, <2>3, <2>4, <2>5 DEF Final
<1>6. CASE HandleOne
  <2>1. /\ gui = "handling" /\ batch # <<>> /\ batch \in Seq(Events) /\ shown \in Seq(Events)
        /\ shown' = Append(shown, Head(batch)) /\ batch' = Tail(batch)
        /\ UNCHANGED <<gui, handle, events, emitting>>
    BY <1>6 DEF HandleOne, RestType
  <2>2. emitting["gui"] = Free BY <2>1, InHand DEF Core, Control, OneCallback, Threads
  <2>3. ~Emitting("rx", "stopped")' BY <2>1 DEF Final, Emitting
  <2>4. ASSUME handle # "given_up"
        PROVE  /\ StopAtEnd(shown') /\ StopAtEnd(batch') /\ StopAtEnd(events)'
               /\ HasStop(shown') => batch' = <<>> /\ events = <<>>
               /\ HasStop(batch') => events = <<>>
               /\ HasStop(shown') \/ HasStop(batch') \/ HasStop(events)' => handle = "none"
    <3>1. StopAtEnd(batch) /\ StopAtEnd(events) /\ ~HasStop(shown)
          /\ (HasStop(batch) => events = <<>>)
          /\ (HasStop(batch) \/ HasStop(events) => handle = "none")
      BY <2>1, <2>4 DEF Final
    <3>2. StopAtEnd(events)' /\ HasStop(events)' = HasStop(events)
      BY <2>1, <3>1 DEF HasStop, StopAtEnd
    <3>3. /\ Head(batch) \in Events /\ StopAtEnd(batch')
          /\ HasStop(batch') => HasStop(batch)
          /\ Head(batch).kind = "stopped" => batch' = <<>> /\ HasStop(batch)
      BY <2>1, <3>1, StopInTail
    <3>4. StopAtEnd(shown') /\ (HasStop(shown') => Head(batch).kind = "stopped")
      BY <2>1, <3>1, <3>3, StopAppended
    <3> QED BY <3>1, <3>2, <3>3, <3>4
  <2>5. /\ HasStop(batch)' = HasStop(batch') /\ StopAtEnd(batch)' = StopAtEnd(batch')
        /\ HasStop(shown)' = HasStop(shown') /\ StopAtEnd(shown)' = StopAtEnd(shown')
        /\ ~Emitting("gui", "stopped")'
    BY <2>1, <2>2 DEF HasStop, StopAtEnd, Emitting
  <2> QED BY <2>1, <2>2, <2>3, <2>4, <2>5 DEF Final
<1> QED BY <1>1, <1>2, <1>3, <1>4, <1>5, <1>6 DEF Operator

LEMMA FinalStep == IInv /\ Final /\ [Next]_vars => Final'
<1> SUFFICES ASSUME Core, RestType, Final, [Next]_vars PROVE Final' BY InvariantSplits
<1>1. CASE UNCHANGED vars
  BY <1>1 DEF vars, guiVars, Final, Emitting, HasStop, StopAtEnd
<1>2. CASE Next
  BY <1>2, FinalEmit, FinalLoop, FinalGui DEF Next, RxThread, GuiCallback, Threads
<1> QED BY <1>1, <1>2

\* The operator sees nothing of a service after its STOPPED: stop() emits it
\* only when the receive thread can add no event, and everything that is on its
\* way keeps its order (stop's join, _emit, drain_events).
THEOREM StoppedComesLast == Spec => []StoppedIsLast
<1>1. Final => StoppedIsLast BY DEF Final, StopAtEnd, StoppedIsLast
<1> QED BY <1>1, FinalInit, FinalStep, InvariantHolds, PTL DEF Spec
=================================================================================
