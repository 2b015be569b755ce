----------------------------- MODULE ReportDelivery -----------------------------
(***************************************************************************)
(* The results of a scan on their way from the board to the operator.      *)
(* main.c sends two angle maps, the text report and the scan summary, each *)
(* datagram several times (eth_udp.c); GemTx shows that sends keep their   *)
(* order and end within 0.8 s, sent or failed.  The link loses datagrams.  *)
(* The host routes what arrives through two assemblers with expiring state *)
(* and a time-windowed duplicate filter (radar_host/service.py and         *)
(* reporting.py).                                                          *)
(*                                                                         *)
(* Time is counted in ticks of 0.8 s, the longest a send takes.  The host  *)
(* handles a datagram in the tick it arrives in.                           *)
(***************************************************************************)
EXTENDS Naturals, Sequences, FiniteSets, Functions

CONSTANTS
  MaxScans,      \* bound: scans the board processes
  MaxChunks,     \* bound: text chunks of a report
  MapChunks,     \* chunks of an angle map
  Window,        \* SummaryDeduplicator.window_seconds, in ticks
  Expiry,        \* expiry_seconds of the assemblers, in ticks
  MaxTime,       \* bound: ticks
  MaxInbox,      \* bound: datagrams waiting in the host's socket
  MaxLost,       \* bound: datagrams the link loses
  MaxFailures,   \* bound: sends that fail for good
  MaxReboots     \* bound: board resets

ASSUME ReportAssumption ==
  /\ {MaxScans, MaxChunks, MapChunks, Window, Expiry, MaxInbox} \subseteq Nat \ {0}
  /\ {MaxTime, MaxLost, MaxFailures, MaxReboots} \subseteq Nat

VARIABLES
  scan,        \* the scan whose results are being sent, by number: its scan_id,
               \* and what its datagrams say
  report_id,   \* radar_log_report_id
  left,        \* the datagrams still to send
  busy,        \* the board has been sending for all of this tick
  inbox,       \* datagrams in the host's socket
  assembler,   \* ReportAssembler and AngleMapAssembler
  last,        \* SummaryDeduplicator: scan id and time of the last summary
  shown,       \* what the operator has been shown
  arrived,     \* every datagram that reached the socket
  count,       \* what the bounds count: losses, failures, reboots
  now

boardVars == <<scan, report_id, left, busy>>
hostVars == <<assembler, last, shown>>
vars == <<boardVars, hostVars, inbox, arrived, count, now>>

Nothing == [key \in {} |-> 0]
NoSummary == [scan_id |-> 0, seen |-> 0]

Init ==
  /\ scan = 0 /\ report_id = 0 /\ left = <<>> /\ busy = FALSE
  /\ inbox = <<>> /\ arrived = {} /\ shown = <<>>
  /\ assembler = [type \in {"text", "map"} |-> [partial |-> Nothing, completed |-> Nothing]]
  /\ last = NoSummary
  /\ count = [lost |-> 0, failures |-> 0, reboots |-> 0]
  /\ now = 0

-----------------------------------------------------------------------------
(***************************************************************************)
(* The board                                                               *)
(***************************************************************************)
\* body is the data: results of different scans differ.
MapChunk(s, kind, i) ==
  [type |-> "map", key |-> <<s, kind>>, count |-> MapChunks, index |-> i, crc |-> s, body |-> s]
TextChunk(s, id, n, i) ==
  [type |-> "text", key |-> <<id>>, count |-> n, index |-> i, crc |-> 0, body |-> s]
Summary(s) ==
  [type |-> "summary", key |-> <<s>>, count |-> 1, index |-> 0, crc |-> 0, body |-> s]

\* Mutant of Copies: each chunk is sent once.
OneCopy == 1

\* How often a chunk is sent.
Copies == 2

\* n chunks, the copies of each in a row.
Repeated(chunks) ==
  [k \in 1 .. Copies * Len(chunks) |-> chunks[(k - 1) \div Copies + 1]]

\* radar_udp_send_angle_map, both maps.
MapUpload(s) ==
  LET Map(kind) == [i \in 1 .. MapChunks |-> MapChunk(s, kind, i - 1)]
  IN Repeated(Map("horizontal") \o Map("vertical"))

\* radar_udp_log_flush.
TextUpload(s, id, n) == Repeated([i \in 1 .. n |-> TextChunk(s, id, n, i - 1)])

\* radar_udp_send_summary_reliable.
SummaryUpload(s) == [k \in 1 .. 3 |-> Summary(s)]

\* Mutant of NextReport: the identifier is that of the report before.
SameReport == IF report_id = 0 THEN 1 ELSE report_id

NextReport == report_id + 1

\* A scan is processed: angle is main.c's angle quality gate, n the length of
\* the log.
Process(n, angle) ==
  /\ left = <<>> /\ scan < MaxScans
  /\ scan' = scan + 1
  /\ report_id' = NextReport
  /\ left' = (IF angle THEN MapUpload(scan + 1) ELSE <<>>)
               \o TextUpload(scan + 1, report_id', n) \o SummaryUpload(scan + 1)
  /\ busy' = FALSE
  /\ UNCHANGED <<hostVars, inbox, arrived, count, now>>

\* The frame goes out and arrives, or the link loses it.
Transmit ==
  \/ /\ Len(inbox) < MaxInbox
     /\ inbox' = Append(inbox, Head(left))
     /\ arrived' = arrived \union {Head(left)}
     /\ UNCHANGED count
  \/ /\ count.lost < MaxLost
     /\ count' = [count EXCEPT !.lost = @ + 1]
     /\ UNCHANGED <<inbox, arrived>>

\* udp_send_retry returns 0.
Sent ==
  /\ left # <<>>
  /\ Transmit
  /\ left' = Tail(left) /\ busy' = FALSE
  /\ UNCHANGED <<scan, report_id, hostVars, now>>

\* The sender whose datagram failed returns; main.c goes on with the next,
\* after the datagrams of this one.
GivenUp ==
  LET own == {i \in 1 .. Len(left) : left[i].type = Head(left).type}
  IN SubSeq(left, Cardinality(own) + 1, Len(left))

\* udp_send_retry fails; the frame may have gone out all the same.
SendFails ==
  /\ left # <<>> /\ count.failures < MaxFailures
  /\ left' = GivenUp
  /\ \/ /\ Len(inbox) < MaxInbox
        /\ inbox' = Append(inbox, Head(left))
        /\ arrived' = arrived \union {Head(left)}
     \/ UNCHANGED <<inbox, arrived>>
  /\ count' = [count EXCEPT !.failures = @ + 1]
  /\ busy' = FALSE
  /\ UNCHANGED <<scan, report_id, hostVars, now>>

\* The board restarts: its report numbers start over.
Reboot ==
  /\ count.reboots < MaxReboots
  /\ count' = [count EXCEPT !.reboots = @ + 1]
  /\ left' = <<>> /\ report_id' = 0 /\ busy' = FALSE
  /\ UNCHANGED <<scan, inbox, arrived, hostVars, now>>

-----------------------------------------------------------------------------
(***************************************************************************)
(* The host                                                                *)
(***************************************************************************)
\* What an assembler still remembers.
Unexpired(a) ==
  [partial |-> Restrict(a.partial,
                 {k \in DOMAIN a.partial : now - a.partial[k].updated_at < Expiry}),
   completed |-> Restrict(a.completed,
                 {k \in DOMAIN a.completed : now - a.completed[k] < Expiry})]

Metadata(d) == <<d.count, d.crc>>

\* The pieces gathered for d's report or map; other metadata starts over.
Gathered(a, d) ==
  IF d.key \in DOMAIN a.partial /\ a.partial[d.key].metadata = Metadata(d)
  THEN a.partial[d.key].pieces
  ELSE Nothing

Without(entries, key) == Restrict(entries, DOMAIN entries \ {key})

With(entries, key, entry) ==
  [k \in DOMAIN entries \union {key} |-> IF k = key THEN entry ELSE entries[k]]

Keep(a, d, pieces) ==
  [a EXCEPT !.partial = With(@, d.key, [metadata |-> Metadata(d), updated_at |-> now,
                                        pieces |-> pieces])]

Complete(a, d) ==
  [a EXCEPT !.partial = Without(@, d.key), !.completed = With(@, d.key, now)]

Remember(d, a) == assembler' = [assembler EXCEPT ![d.type] = a]

Show(d, pieces) == shown' = Append(shown, [type |-> d.type, key |-> d.key, pieces |-> pieces])

\* ReportAssembler.add and AngleMapAssembler.add.  The latter checks the CRC of
\* the whole map, which is part of its metadata: pieces that arrive undamaged
\* and agree on it cannot fail.
AddChunk(d) ==
  LET a == Unexpired(assembler[d.type])
      old == Gathered(a, d)
      pieces == With(old, d.index, d.body)
  IN \/ /\ d.key \in DOMAIN a.completed
        /\ Remember(d, a)
        /\ UNCHANGED <<shown, last>>
     \/ /\ d.key \notin DOMAIN a.completed
        /\ d.index \in DOMAIN old
        /\ Remember(d, Keep(a, d, old))
        /\ UNCHANGED <<shown, last>>
     \/ /\ d.key \notin DOMAIN a.completed
        /\ d.index \notin DOMAIN old
        /\ Cardinality(DOMAIN pieces) < d.count
        /\ Remember(d, Keep(a, d, pieces))
        /\ UNCHANGED <<shown, last>>
     \/ /\ d.key \notin DOMAIN a.completed
        /\ d.index \notin DOMAIN old
        /\ Cardinality(DOMAIN pieces) = d.count
        /\ Remember(d, Complete(a, d))
        /\ Show(d, pieces)
        /\ last' = IF d.type = "text" THEN NoSummary ELSE last

\* Mutants of IsRepeat: any summary within the window; no window for copies.
IsRepeatAny(d) == last.scan_id # 0 /\ now - last.seen < Window
IsRepeatShort(d) == <<last.scan_id>> = d.key /\ now = last.seen

IsRepeat(d) == <<last.scan_id>> = d.key /\ now - last.seen < Window

\* SummaryDeduplicator.accept
TakeSummary(d) ==
  /\ IF IsRepeat(d) THEN UNCHANGED shown ELSE Show(d, With(Nothing, 0, d.body))
  /\ last' = [scan_id |-> d.key[1], seen |-> now]
  /\ UNCHANGED assembler

\* PacketRouter.route
Route ==
  /\ inbox # <<>>
  /\ inbox' = Tail(inbox)
  /\ LET d == Head(inbox)
     IN \/ d.type = "summary" /\ TakeSummary(d)
        \/ d.type # "summary" /\ AddChunk(d)
  /\ UNCHANGED <<boardVars, arrived, count, now>>

\* A send takes at most one tick.
Tick ==
  /\ now < MaxTime
  /\ inbox = <<>> /\ (left # <<>> => ~busy)
  /\ now' = now + 1 /\ busy' = TRUE
  /\ UNCHANGED <<scan, report_id, left, hostVars, inbox, arrived, count>>

Next ==
  \/ \E n \in 1 .. MaxChunks, angle \in BOOLEAN : Process(n, angle)
  \/ Sent \/ SendFails \/ Reboot \/ Route \/ Tick

Spec == Init /\ [][Next]_vars

-----------------------------------------------------------------------------
(***************************************************************************)
(* Properties                                                              *)
(***************************************************************************)
\* What a board reset makes ambiguous: its report numbers start over.
Ambiguous(d) == d.type = "text" /\ count.reboots > 0

OfOneScan(k) ==
  \E s \in 1 .. scan : \A i \in DOMAIN shown[k].pieces : shown[k].pieces[i] = s

\* A report or map that is shown is all of one scan's, never pieces of several;
\* of maps and summaries that holds through resets (report_id, AngleMapAssembler's
\* key and metadata).
ShownIsWhole == \A k \in 1 .. Len(shown) : ~Ambiguous(shown[k]) => OfOneScan(k)

\* A saved report is complete (docs/HOST_APPLICATION.md:26), resets or not.
ReportsComplete == \A k \in 1 .. Len(shown) : OfOneScan(k)

\* Nothing is shown twice, however often it was sent and however the copies
\* are delayed: the summaries' window outlasts their copies, the completed
\* reports are remembered longer than theirs, and the reset of the window by a
\* completed report comes before the summaries.
ShownOnce ==
  \A k, j \in 1 .. Len(shown) : k # j => shown[k] # shown[j]

\* What d belongs to is shown, with d's scan in every piece.
ShownOf(d) ==
  \E k \in 1 .. Len(shown) :
    /\ shown[k].type = d.type /\ shown[k].key = d.key
    /\ \A i \in DOMAIN shown[k].pieces : shown[k].pieces[i] = d.body

\* Every piece of what d belongs to has reached the host.
ArrivedWhole(d) ==
  \A i \in 0 .. d.count - 1 :
    \E e \in arrived : e.type = d.type /\ e.key = d.key /\ e.index = i

\* What reached the host whole is shown as soon as it has been read: no scan's
\* result is taken for a copy of another's.  Maps and summaries, which go by the
\* scan's own identifier, survive a reset.
ArrivedIsShown ==
  inbox = <<>> => \A d \in arrived : ArrivedWhole(d) /\ ~Ambiguous(d) => ShownOf(d)

\* One lost datagram costs the operator nothing: report, summary and every map
\* that was sent are shown.
OneLossIsNothing ==
  (left = <<>> /\ inbox = <<>> /\ count.lost <= 1 /\ count.failures = 0 /\ count.reboots = 0) =>
    /\ \A s \in 1 .. scan : {"text", "summary"} \subseteq {d.type : d \in {e \in arrived : e.body = s}}
    /\ \A d \in arrived : ShownOf(d)
================================================================================
