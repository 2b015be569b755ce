-------------------------- MODULE ReportDeliveryProofs --------------------------
(***************************************************************************)
(* Proofs about ReportDelivery, for every number of scans, chunks, losses, *)
(* failures and resets. What keeps the pieces of two scans apart is the    *)
(* identifier each datagram carries: it names the scan of its data, for a  *)
(* text as long as the board has not restarted, and the assemblers file a  *)
(* piece under it. That nothing is shown twice (OnceInv) rests on the      *)
(* order of the datagrams, which every part of the way keeps, and on how   *)
(* close the copies of one are; that nothing is forgotten (GatherInv) on   *)
(* an item's pieces following one another, so that only lost datagrams     *)
(* make an assembler wait; that one loss is harmless (LossInv) on the      *)
(* copies.                                                                 *)
(***************************************************************************)
EXTENDS ReportDelivery, SequenceTheorems, FiniteSetTheorems, TLAPS

-----------------------------------------------------------------------------
(***************************************************************************)
(* The invariant                                                           *)
(***************************************************************************)
MapKinds == {"horizontal", "vertical"}
Uploads == {"text", "map"}

\* What the board can put into a datagram.
Datagram ==
  {MapChunk(s, kind, i) : s \in Nat, kind \in MapKinds, i \in Nat}
    \union {TextChunk(s, id, n, i) : s \in Nat, id \in Nat, n \in Nat, i \in Nat}
    \union {Summary(s) : s \in Nat}

\* Its identifier names the scan of its data, one of the board's n; a text's does
\* so until a reset.
GenuineAfter(d, n, resets) ==
  d.body \in 1 .. n /\ (d.type # "text" \/ resets = 0 => d.key[1] = d.body)

Genuine(d) == GenuineAfter(d, scan, count.reboots)

\* Report numbers count the scans until the board restarts.
Numbered ==
  /\ scan \in Nat /\ report_id \in Nat
  /\ count \in [lost : Nat, failures : Nat, reboots : Nat]
  /\ count.reboots = 0 => report_id = scan

OnTheWay ==
  /\ left \in Seq(Datagram) /\ \A i \in 1 .. Len(left) : Genuine(left[i])
  /\ inbox \in Seq(Datagram) /\ \A i \in 1 .. Len(inbox) : Genuine(inbox[i])

Clear(type) == type = "text" => count.reboots = 0

\* Pieces are kept under the scan they are of.
Filed(type, partial) ==
  Clear(type) =>
    \A k \in DOMAIN partial : \A i \in DOMAIN partial[k].pieces : partial[k].pieces[i] = k[1]

Memory ==
  /\ DOMAIN assembler = Uploads
  /\ \A type \in Uploads : Filed(type, assembler[type].partial)

\* What is shown is a sequence, of whatever it is.
Displayed == \E S : shown \in Seq(S)

IInv == Numbered /\ OnTheWay /\ Memory /\ Displayed /\ ShownIsWhole

-----------------------------------------------------------------------------
(***************************************************************************)
(* The datagrams of an upload                                              *)
(***************************************************************************)
LEMMA DatagramShape ==
  ASSUME NEW d \in Datagram
  PROVE  d.type \in Uploads \union {"summary"}
BY DEF Datagram, MapChunk, TextChunk, Summary, Uploads

\* Copying chunks adds no datagram of another kind.
LEMMA RepeatedChunks ==
  ASSUME NEW chunks \in Seq(Datagram)
  PROVE  /\ Repeated(chunks) \in Seq(Datagram)
         /\ \A k \in 1 .. Len(Repeated(chunks)) :
              \E i \in 1 .. Len(chunks) : Repeated(chunks)[k] = chunks[i]
<1> DEFINE n == Copies * Len(chunks)
<1>1. Len(chunks) \in Nat /\ n \in Nat BY DEF Copies
<1>2. \A k \in 1 .. n : (k - 1) \div Copies + 1 \in 1 .. Len(chunks) BY <1>1 DEF Copies
<1>3. Repeated(chunks) = [k \in 1 .. n |-> chunks[(k - 1) \div Copies + 1]] BY DEF Repeated
<1> HIDE DEF n
<1>4. \A k \in 1 .. n : Repeated(chunks)[k] = chunks[(k - 1) \div Copies + 1]
                        /\ Repeated(chunks)[k] \in Datagram
  BY <1>2, <1>3
<1>5. Repeated(chunks) \in Seq(Datagram) BY <1>1, <1>3, <1>4
<1>6. Len(Repeated(chunks)) = n BY <1>1, <1>3
<1> QED BY <1>2, <1>4, <1>5, <1>6

\* Two uploads one after the other.
LEMMA Joined ==
  ASSUME NEW a \in Seq(Datagram), NEW b \in Seq(Datagram)
  PROVE  /\ a \o b \in Seq(Datagram)
         /\ \A k \in 1 .. Len(a \o b) :
              \/ \E i \in 1 .. Len(a) : (a \o b)[k] = a[i]
              \/ \E i \in 1 .. Len(b) : (a \o b)[k] = b[i]
<1>1. a \o b \in Seq(Datagram) /\ Len(a \o b) = Len(a) + Len(b) BY ConcatProperties
<1>2. \A k \in 1 .. Len(a) + Len(b) :
        (a \o b)[k] = IF k <= Len(a) THEN a[k] ELSE b[k - Len(a)]
  BY ConcatProperties
<1>3. \A k \in 1 .. Len(a) + Len(b) : k > Len(a) => k - Len(a) \in 1 .. Len(b) OBVIOUS
<1> QED BY <1>1, <1>2, <1>3

\* Every datagram of an upload is of scan s, a text under the number id.
Of(upload, s, id) ==
  \A k \in 1 .. Len(upload) :
    /\ upload[k].body = s
    /\ upload[k].key[1] = IF upload[k].type = "text" THEN id ELSE s

LEMMA MapsOf ==
  ASSUME NEW s \in Nat
  PROVE  MapUpload(s) \in Seq(Datagram) /\ \A id : Of(MapUpload(s), s, id)
<1> DEFINE Map(kind) == [i \in 1 .. MapChunks |-> MapChunk(s, kind, i - 1)]
<1>0. MapChunks \in Nat BY ReportAssumption
<1>1. \A kind \in MapKinds, i \in Nat :
        /\ MapChunk(s, kind, i) \in Datagram
        /\ MapChunk(s, kind, i).body = s /\ MapChunk(s, kind, i).type = "map"
        /\ MapChunk(s, kind, i).key[1] = s
  <2> SUFFICES ASSUME NEW kind \in MapKinds, NEW i \in Nat
               PROVE  /\ MapChunk(s, kind, i) \in Datagram
                      /\ MapChunk(s, kind, i).body = s /\ MapChunk(s, kind, i).type = "map"
                      /\ MapChunk(s, kind, i).key[1] = s
    OBVIOUS
  <2>1. MapChunk(s, kind, i) \in Datagram BY DEF Datagram
  <2> QED BY <2>1 DEF MapChunk
<1>2. ASSUME NEW kind \in MapKinds
      PROVE  /\ Map(kind) \in Seq(Datagram)
             /\ \A i \in 1 .. Len(Map(kind)) :
                  /\ Map(kind)[i].body = s /\ Map(kind)[i].type = "map"
                  /\ Map(kind)[i].key[1] = s
  BY <1>0, <1>1
<1> DEFINE h == Map("horizontal")
           v == Map("vertical")
<1>3. /\ h \in Seq(Datagram) /\ v \in Seq(Datagram)
      /\ \A i \in 1 .. Len(h) : h[i].body = s /\ h[i].type = "map" /\ h[i].key[1] = s
      /\ \A i \in 1 .. Len(v) : v[i].body = s /\ v[i].type = "map" /\ v[i].key[1] = s
  BY <1>2 DEF MapKinds
<1>4. MapUpload(s) = Repeated(h \o v) BY DEF MapUpload
<1> HIDE DEF h, v, Map
<1>5. /\ h \o v \in Seq(Datagram)
      /\ \A k \in 1 .. Len(h \o v) : /\ (h \o v)[k].body = s /\ (h \o v)[k].type = "map"
                                     /\ (h \o v)[k].key[1] = s
  BY <1>3, Joined
<1> DEFINE both == h \o v
<1>6. MapUpload(s) = Repeated(both) /\ both \in Seq(Datagram) BY <1>4, <1>5
<1>7. \A k \in 1 .. Len(both) : both[k].body = s /\ both[k].type = "map" /\ both[k].key[1] = s
  BY <1>5
<1> HIDE DEF both
<1>8. /\ MapUpload(s) \in Seq(Datagram)
      /\ \A k \in 1 .. Len(MapUpload(s)) :
           \E i \in 1 .. Len(both) : MapUpload(s)[k] = both[i]
  BY <1>6, RepeatedChunks
<1> QED BY <1>7, <1>8 DEF Of

LEMMA TextOf ==
  ASSUME NEW s \in Nat, NEW id \in Nat, NEW n \in Nat
  PROVE  TextUpload(s, id, n) \in Seq(Datagram) /\ Of(TextUpload(s, id, n), s, id)
<1> DEFINE t == [i \in 1 .. n |-> TextChunk(s, id, n, i - 1)]
<1>1. \A i \in Nat :
        /\ TextChunk(s, id, n, i) \in Datagram
        /\ TextChunk(s, id, n, i).body = s /\ TextChunk(s, id, n, i).type = "text"
        /\ TextChunk(s, id, n, i).key[1] = id
  <2> SUFFICES ASSUME NEW i \in Nat
               PROVE  /\ TextChunk(s, id, n, i) \in Datagram
                      /\ TextChunk(s, id, n, i).body = s
                      /\ TextChunk(s, id, n, i).type = "text"
                      /\ TextChunk(s, id, n, i).key[1] = id
    OBVIOUS
  <2>1. TextChunk(s, id, n, i) \in Datagram BY DEF Datagram
  <2> QED BY <2>1 DEF TextChunk
<1>2. t \in Seq(Datagram)
      /\ \A i \in 1 .. Len(t) : t[i].body = s /\ t[i].type = "text" /\ t[i].key[1] = id
  BY <1>1
<1>3. TextUpload(s, id, n) = Repeated(t) BY DEF TextUpload
<1> HIDE DEF t
<1> QED BY <1>2, <1>3, RepeatedChunks DEF Of

LEMMA SummariesOf ==
  ASSUME NEW s \in Nat
  PROVE  SummaryUpload(s) \in Seq(Datagram) /\ \A id : Of(SummaryUpload(s), s, id)
<1>1. /\ Summary(s) \in Datagram
      /\ Summary(s).body = s /\ Summary(s).type = "summary" /\ Summary(s).key[1] = s
  BY DEF Datagram, Summary
<1> QED BY <1>1 DEF SummaryUpload, Of

LEMMA JoinedOf ==
  ASSUME NEW s, NEW id, NEW a \in Seq(Datagram), NEW b \in Seq(Datagram),
         Of(a, s, id), Of(b, s, id)
  PROVE  a \o b \in Seq(Datagram) /\ Of(a \o b, s, id)
BY Joined DEF Of

-----------------------------------------------------------------------------
(***************************************************************************)
(* The steps                                                               *)
(***************************************************************************)
LEMMA InitIInv == Init => IInv
<1> SUFFICES ASSUME Init PROVE IInv OBVIOUS
<1>1. Numbered BY DEF Init, Numbered
<1>2. OnTheWay BY DEF Init, OnTheWay
<1>3. Memory BY DEF Init, Memory, Filed, Nothing, Uploads
<1>4. Displayed /\ ShownIsWhole BY DEF Init, Displayed, ShownIsWhole
<1> QED BY <1>1, <1>2, <1>3, <1>4 DEF IInv

\* What is genuine stays so: scans and restarts only grow.
LEMMA GenuineStays ==
  ASSUME Numbered, Numbered', scan' >= scan, count'.reboots >= count.reboots,
         NEW d, Genuine(d)
  PROVE  GenuineAfter(d, scan', count'.reboots)
BY DEF Numbered, Genuine, GenuineAfter

\* The operator's view is not touched by a step of the board or the link.
LEMMA BoardKeeps ==
  ASSUME IInv, Numbered', UNCHANGED hostVars, scan' >= scan,
         count'.reboots >= count.reboots
  PROVE  Memory' /\ Displayed' /\ ShownIsWhole'
<1>1. Memory'
  BY DEF IInv, Numbered, hostVars, Memory, Filed, Clear
<1>2. Displayed' BY DEF IInv, hostVars, Displayed
<1>3. ShownIsWhole'
  <2>1. 1 .. scan \subseteq 1 .. scan' BY DEF IInv, Numbered
  <2>2. shown' = shown BY DEF hostVars
  <2>3. \A k \in 1 .. Len(shown) : Ambiguous(shown[k]) => Ambiguous(shown[k])'
    BY <2>2 DEF IInv, Numbered, Ambiguous
  <2> QED BY <2>1, <2>2, <2>3 DEF IInv, ShownIsWhole, OfOneScan, Ambiguous
<1> QED BY <1>1, <1>2, <1>3

\* A datagram that arrives is one of those the board was sending.
LEMMA Arrives ==
  ASSUME OnTheWay, left # <<>>, inbox' \in {inbox, Append(inbox, Head(left))}
  PROVE  inbox' \in Seq(Datagram) /\ \A i \in 1 .. Len(inbox') : Genuine(inbox'[i])
<1> USE DEF OnTheWay
<1>1. Head(left) \in Datagram /\ Genuine(Head(left)) BY DEF OnTheWay
<1>2. CASE inbox' = inbox BY <1>2 DEF OnTheWay
<1>3. CASE inbox' = Append(inbox, Head(left))
  <2>1. /\ inbox' \in Seq(Datagram) /\ Len(inbox') = Len(inbox) + 1
        /\ inbox'[Len(inbox) + 1] = Head(left)
        /\ \A i \in 1 .. Len(inbox) : inbox'[i] = inbox[i]
    BY <1>1, <1>3 DEF OnTheWay
  <2> QED BY <1>1, <2>1 DEF OnTheWay
<1> QED BY <1>2, <1>3

\* What a sender that returns leaves are datagrams that were to be sent.
LEMMA GivenUpRest ==
  ASSUME OnTheWay
  PROVE  /\ GivenUp \in Seq(Datagram)
         /\ \A k \in 1 .. Len(GivenUp) : \E i \in 1 .. Len(left) : GivenUp[k] = left[i]
<1> DEFINE own == {i \in 1 .. Len(left) : left[i].type = Head(left).type}
           m == Cardinality(own) + 1
<1>1. Len(left) \in Nat BY DEF OnTheWay
<1>2. Cardinality(own) \in Nat
  <2>1. IsFiniteSet(1 .. Len(left)) BY <1>1, FS_Interval
  <2>2. own \subseteq 1 .. Len(left) OBVIOUS
  <2> HIDE DEF own
  <2> QED BY <2>1, <2>2, FS_Subset, FS_CardinalityType
<1>3. m \in 1 .. m /\ m \in Nat /\ m >= 1 BY <1>2
<1>4. GivenUp = SubSeq(left, m, Len(left)) BY DEF GivenUp
<1> HIDE DEF m
<1>5. \A k \in m .. Len(left) : k \in 1 .. Len(left) /\ left[k] \in Datagram
  BY <1>1, <1>3 DEF OnTheWay
<1>6. /\ GivenUp \in Seq(Datagram)
      /\ Len(GivenUp) = IF m <= Len(left) THEN Len(left) - m + 1 ELSE 0
      /\ \A k \in 1 .. Len(left) - m + 1 : GivenUp[k] = left[m + k - 1]
  BY <1>1, <1>3, <1>4, <1>5, SubSeqProperties DEF OnTheWay
<1> QED BY <1>1, <1>3, <1>6

LEMMA ProcessKeeps ==
  ASSUME IInv, NEW n \in 1 .. MaxChunks, NEW angle \in BOOLEAN, Process(n, angle)
  PROVE  IInv'
<1>0. Numbered /\ OnTheWay BY DEF IInv
<1>1. /\ scan' = scan + 1 /\ report_id' = report_id + 1 /\ scan' \in Nat /\ report_id' \in Nat
      /\ UNCHANGED <<hostVars, inbox, count>>
      /\ n \in Nat
  BY <1>0, ReportAssumption DEF Process, NextReport, Numbered
<1> DEFINE maps == IF angle THEN MapUpload(scan + 1) ELSE <<>>
           text == TextUpload(scan + 1, report_id', n)
           summaries == SummaryUpload(scan + 1)
<1>2. left' = maps \o text \o summaries BY DEF Process
<1>3. /\ maps \in Seq(Datagram) /\ Of(maps, scan', report_id')
      /\ text \in Seq(Datagram) /\ Of(text, scan', report_id')
      /\ summaries \in Seq(Datagram) /\ Of(summaries, scan', report_id')
  <2>1. text \in Seq(Datagram) /\ Of(text, scan', report_id') BY <1>1, TextOf
  <2>2. summaries \in Seq(Datagram) /\ Of(summaries, scan', report_id')
    BY <1>1, SummariesOf
  <2>3. maps \in Seq(Datagram) /\ Of(maps, scan', report_id')
    <3>1. CASE angle BY <1>1, <3>1, MapsOf
    <3>2. CASE ~angle BY <3>2 DEF Of
    <3> QED BY <3>1, <3>2
  <2> QED BY <2>1, <2>2, <2>3
<1> HIDE DEF maps, text, summaries
<1>4. left' \in Seq(Datagram) /\ Of(left', scan', report_id')
  BY <1>2, <1>3, JoinedOf
<1>8. Numbered' BY <1>0, <1>1 DEF Numbered
<1>5. \A k \in 1 .. Len(left') : GenuineAfter(left'[k], scan', count'.reboots)
  BY <1>0, <1>1, <1>4 DEF Of, GenuineAfter, Numbered
<1>6. \A k \in 1 .. Len(inbox) : GenuineAfter(inbox[k], scan', count'.reboots)
  BY <1>0, <1>1, <1>8, GenuineStays DEF OnTheWay, Numbered
<1>7. OnTheWay' BY <1>0, <1>1, <1>4, <1>5, <1>6 DEF OnTheWay, Genuine
<1>9. Memory' /\ Displayed' /\ ShownIsWhole'
  BY <1>0, <1>1, <1>8, BoardKeeps DEF Numbered
<1> QED BY <1>7, <1>8, <1>9 DEF IInv

LEMMA SendKeeps ==
  ASSUME IInv, Sent \/ SendFails
  PROVE  IInv'
<1>0. Numbered /\ OnTheWay BY DEF IInv
<1>1. /\ left # <<>> /\ inbox' \in {inbox, Append(inbox, Head(left))}
      /\ UNCHANGED <<scan, report_id, hostVars>>
  BY DEF Sent, Transmit, SendFails
<1>2. /\ count'.reboots = count.reboots
      /\ count' \in [lost : Nat, failures : Nat, reboots : Nat]
  BY <1>0 DEF Sent, Transmit, SendFails, Numbered
<1>3. /\ left' \in Seq(Datagram)
      /\ \A k \in 1 .. Len(left') : Genuine(left'[k])
  <2>1. CASE Sent
    <3>1. left' = Tail(left) /\ left # <<>> BY <2>1 DEF Sent
    <3>2. /\ left' \in Seq(Datagram) /\ Len(left') = Len(left) - 1
          /\ \A k \in 1 .. Len(left') : left'[k] = left[k + 1]
      BY <1>0, <3>1 DEF OnTheWay
    <3> QED BY <1>0, <3>2 DEF OnTheWay
  <2>2. CASE SendFails
    <3>1. left' = GivenUp BY <2>2 DEF SendFails
    <3> QED BY <1>0, <3>1, GivenUpRest DEF OnTheWay
  <2> QED BY <2>1, <2>2
<1>4. inbox' \in Seq(Datagram) /\ \A i \in 1 .. Len(inbox') : Genuine(inbox'[i])
  BY <1>0, <1>1, Arrives
<1>6. OnTheWay' BY <1>1, <1>2, <1>3, <1>4 DEF OnTheWay, Genuine
<1>7. Numbered' BY <1>0, <1>1, <1>2 DEF Numbered
<1>8. Memory' /\ Displayed' /\ ShownIsWhole'
  BY <1>0, <1>1, <1>2, <1>7, BoardKeeps DEF Numbered
<1> QED BY <1>6, <1>7, <1>8 DEF IInv

LEMMA RebootKeeps ==
  ASSUME IInv, Reboot
  PROVE  IInv'
<1>0. Numbered /\ OnTheWay BY DEF IInv
<1>1. /\ scan' = scan /\ report_id' = 0 /\ left' = <<>>
      /\ count' = [count EXCEPT !.reboots = @ + 1]
      /\ UNCHANGED <<hostVars, inbox>>
  BY DEF Reboot
<1>2. count'.reboots = count.reboots + 1 /\ count.reboots \in Nat BY <1>0, <1>1 DEF Numbered
<1>3. Numbered' BY <1>0, <1>1, <1>2 DEF Numbered
<1>4. \A k \in 1 .. Len(inbox) : GenuineAfter(inbox[k], scan', count'.reboots)
  BY <1>0, <1>1, <1>2, <1>3, GenuineStays DEF OnTheWay, Numbered
<1>5. OnTheWay' BY <1>0, <1>1, <1>4 DEF OnTheWay, Genuine
<1>6. Memory' /\ Displayed' /\ ShownIsWhole'
  BY <1>0, <1>1, <1>2, <1>3, BoardKeeps DEF Numbered
<1> QED BY <1>3, <1>5, <1>6 DEF IInv

-----------------------------------------------------------------------------
(***************************************************************************)
(* The host                                                                *)
(***************************************************************************)
\* What an assembler remembers is still filed after some of it has expired.
LEMMA UnexpiredFiled ==
  ASSUME NEW type, NEW a, Filed(type, a.partial)
  PROVE  Filed(type, Unexpired(a).partial)
BY DEF Filed, Unexpired, Restrict

\* The pieces a datagram joins are of its own scan.
LEMMA GatheredFiled ==
  ASSUME NEW d, NEW a, Filed(d.type, a.partial), Clear(d.type)
  PROVE  \A i \in DOMAIN Gathered(a, d) : Gathered(a, d)[i] = d.key[1]
BY DEF Filed, Gathered, Nothing

LEMMA KeepFiled ==
  ASSUME NEW d, NEW a, a = [partial |-> a.partial, completed |-> a.completed],
         NEW pieces, Filed(d.type, a.partial),
         Clear(d.type) => \A i \in DOMAIN pieces : pieces[i] = d.key[1]
  PROVE  Filed(d.type, Keep(a, d, pieces).partial)
<1> DEFINE e == [metadata |-> Metadata(d), updated_at |-> now, pieces |-> pieces]
           partial == With(a.partial, d.key, e)
<1>1. Keep(a, d, pieces).partial = partial BY DEF Keep
<1>2. \A k \in DOMAIN partial :
        \/ k = d.key /\ partial[k].pieces = pieces
        \/ k \in DOMAIN a.partial /\ partial[k] = a.partial[k]
  BY DEF With
<1> HIDE DEF partial
<1> QED BY <1>1, <1>2 DEF Filed

LEMMA CompleteFiled ==
  ASSUME NEW d, NEW a, a = [partial |-> a.partial, completed |-> a.completed],
         Filed(d.type, a.partial)
  PROVE  Filed(d.type, Complete(a, d).partial)
<1>1. Complete(a, d).partial = Restrict(a.partial, DOMAIN a.partial \ {d.key})
  BY DEF Complete, Without
<1> QED BY <1>1 DEF Filed, Restrict

\* Remembering d's report or map leaves the other assembler alone.
LEMMA RememberFiled ==
  ASSUME Memory, NEW d, d.type \in Uploads, NEW a, Filed(d.type, a.partial),
         Remember(d, a), UNCHANGED count
  PROVE  Memory'
BY DEF Memory, Remember, Filed, Clear

\* Showing something whole keeps everything shown whole.
LEMMA ShowKeeps ==
  ASSUME Displayed, ShownIsWhole, NEW d, NEW pieces, Show(d, pieces),
         UNCHANGED <<scan, count>>,
         ~Ambiguous(d) => \E s \in 1 .. scan : \A i \in DOMAIN pieces : pieces[i] = s
  PROVE  Displayed' /\ ShownIsWhole'
<1> DEFINE e == [type |-> d.type, key |-> d.key, pieces |-> pieces]
<1>1. PICK S : shown \in Seq(S) BY DEF Displayed
<1>2. shown' = Append(shown, e) /\ e \in S \union {e} BY DEF Show
<1>3. e.type = d.type /\ e.pieces = pieces OBVIOUS
<1> HIDE DEF e
<1>4. shown \in Seq(S \union {e}) BY <1>1
<1>5. /\ shown' \in Seq(S \union {e})
      /\ Len(shown') = Len(shown) + 1 /\ Len(shown) \in Nat /\ shown'[Len(shown) + 1] = e
      /\ \A k \in 1 .. Len(shown) : shown'[k] = shown[k]
  BY <1>2, <1>4
<1>6. Displayed' BY <1>5 DEF Displayed
<1>7. ASSUME NEW k \in 1 .. Len(shown'), ~Ambiguous(shown[k])' PROVE OfOneScan(k)'
  <2>1. CASE k \in 1 .. Len(shown)
    BY <1>5, <1>7, <2>1 DEF ShownIsWhole, OfOneScan, Ambiguous
  <2>2. CASE k = Len(shown) + 1
    BY <1>3, <1>5, <1>7, <2>2 DEF OfOneScan, Ambiguous
  <2> QED BY <1>5, <2>1, <2>2
<1> QED BY <1>6, <1>7 DEF ShownIsWhole

LEMMA AddChunkKeeps ==
  ASSUME IInv, NEW d, d.type \in Uploads, Genuine(d), AddChunk(d), UNCHANGED <<scan, count>>
  PROVE  Memory' /\ Displayed' /\ ShownIsWhole'
<1> DEFINE a == Unexpired(assembler[d.type])
           old == Gathered(a, d)
           pieces == With(old, d.index, d.body)
<1>0. Numbered /\ Memory /\ Displayed /\ ShownIsWhole BY DEF IInv
<1>1. /\ Filed(d.type, a.partial)
      /\ a = [partial |-> a.partial, completed |-> a.completed]
  <2>1. Filed(d.type, assembler[d.type].partial) BY <1>0 DEF Memory
  <2>2. Filed(d.type, a.partial) BY <2>1, UnexpiredFiled
  <2> QED BY <2>2 DEF Unexpired
<1>2. Clear(d.type) <=> ~Ambiguous(d) BY <1>0 DEF Clear, Ambiguous, Numbered
<1>3. Clear(d.type) => d.key[1] = d.body BY <1>0 DEF Genuine, GenuineAfter, Clear
<1> HIDE DEF a
<1>4. Clear(d.type) => \A i \in DOMAIN old : old[i] = d.key[1] BY <1>1, GatheredFiled
<1> HIDE DEF old
<1>5. Clear(d.type) => \A i \in DOMAIN pieces : pieces[i] = d.key[1]
  BY <1>3, <1>4 DEF With
<1> HIDE DEF pieces
<1>6. CASE Remember(d, a) /\ UNCHANGED shown
  <2>1. Memory' BY <1>0, <1>1, <1>6, RememberFiled
  <2> QED BY <1>0, <1>6, <2>1 DEF Displayed, ShownIsWhole, OfOneScan, Ambiguous
<1>7. ASSUME NEW kept \in {old, pieces}, Remember(d, Keep(a, d, kept)), UNCHANGED shown
      PROVE  Memory' /\ Displayed' /\ ShownIsWhole'
  <2>1. Filed(d.type, Keep(a, d, kept).partial) BY <1>1, <1>4, <1>5, KeepFiled
  <2>2. Memory' BY <1>0, <1>7, <2>1, RememberFiled
  <2> QED BY <1>0, <1>7, <2>2 DEF Displayed, ShownIsWhole, OfOneScan, Ambiguous
<1>8. CASE Remember(d, Complete(a, d)) /\ Show(d, pieces)
  <2>1. Filed(d.type, Complete(a, d).partial) BY <1>1, CompleteFiled
  <2>2. Memory' BY <1>0, <1>8, <2>1, RememberFiled
  <2>3. d.body \in 1 .. scan BY DEF Genuine, GenuineAfter
  <2> QED BY <1>0, <1>2, <1>3, <1>5, <1>8, <2>2, <2>3, ShowKeeps
<1> QED BY <1>6, <1>7, <1>8 DEF AddChunk, a, old, pieces

LEMMA TakeSummaryKeeps ==
  ASSUME IInv, NEW d, Genuine(d), TakeSummary(d), UNCHANGED <<scan, count>>
  PROVE  Memory' /\ Displayed' /\ ShownIsWhole'
<1>0. Memory /\ Displayed /\ ShownIsWhole BY DEF IInv
<1>1. Memory' BY <1>0 DEF TakeSummary, Memory, Filed, Clear
<1>2. CASE UNCHANGED shown
  BY <1>0, <1>1, <1>2 DEF Displayed, ShownIsWhole, OfOneScan, Ambiguous
<1>3. CASE Show(d, With(Nothing, 0, d.body))
  <2> DEFINE pieces == With(Nothing, 0, d.body)
  <2>1. d.body \in 1 .. scan /\ \A i \in DOMAIN pieces : pieces[i] = d.body
    BY DEF Genuine, GenuineAfter, With, Nothing
  <2> HIDE DEF pieces
  <2>2. Show(d, pieces) BY <1>3 DEF pieces
  <2>3. Displayed' /\ ShownIsWhole' BY <1>0, <2>1, <2>2, ShowKeeps
  <2> QED BY <1>1, <2>3
<1> QED BY <1>2, <1>3 DEF TakeSummary

LEMMA RouteKeeps ==
  ASSUME IInv, Route
  PROVE  IInv'
<1>0. Numbered /\ OnTheWay BY DEF IInv
<1> DEFINE d == Head(inbox)
<1>1. d \in Datagram /\ Genuine(d) BY <1>0 DEF OnTheWay, Route
<1>2. /\ inbox' \in Seq(Datagram) /\ Len(inbox') = Len(inbox) - 1
      /\ \A k \in 1 .. Len(inbox') : inbox'[k] = inbox[k + 1]
  BY <1>0 DEF OnTheWay, Route
<1>3. UNCHANGED <<scan, report_id, left, count>> BY DEF Route, boardVars
<1>4. Numbered' BY <1>0, <1>3 DEF Numbered
<1>5. OnTheWay' BY <1>0, <1>2, <1>3 DEF OnTheWay, Genuine
<1>6. \/ TakeSummary(d)
      \/ d.type # "summary" /\ AddChunk(d)
  BY DEF Route
<1>7. d.type # "summary" => d.type \in Uploads BY <1>1, DatagramShape
<1> HIDE DEF d
<1>8. Memory' /\ Displayed' /\ ShownIsWhole'
  BY <1>1, <1>3, <1>6, <1>7, TakeSummaryKeeps, AddChunkKeeps
<1> QED BY <1>4, <1>5, <1>8 DEF IInv

LEMMA NextIInv == IInv /\ [Next]_vars => IInv'
<1> SUFFICES ASSUME IInv, [Next]_vars PROVE IInv' OBVIOUS
<1>1. CASE Tick \/ UNCHANGED vars
  <2>1. UNCHANGED <<scan, report_id, left, inbox, count, assembler, shown>>
    BY <1>1 DEF Tick, vars, boardVars, hostVars
  <2>2. Numbered' BY <2>1 DEF IInv, Numbered
  <2>3. OnTheWay' BY <2>1 DEF IInv, OnTheWay, Genuine
  <2>4. Memory' BY <2>1 DEF IInv, Memory, Filed, Clear
  <2>5. Displayed' /\ ShownIsWhole'
    BY <2>1 DEF IInv, Displayed, ShownIsWhole, OfOneScan, Ambiguous
  <2> QED BY <2>2, <2>3, <2>4, <2>5 DEF IInv
<1> QED BY <1>1, ProcessKeeps, SendKeeps, RebootKeeps, RouteKeeps DEF Next

\* Every report, map and summary the operator is shown is all of one scan's; of
\* a text report that is so as long as the board has not restarted.
THEOREM NeverMixed == Spec => []ShownIsWhole
<1>1. IInv => ShownIsWhole BY DEF IInv
<1> QED BY <1>1, InitIInv, NextIInv, PTL DEF Spec

-----------------------------------------------------------------------------
(***************************************************************************)
(* The shape of an upload                                                  *)
(***************************************************************************)
SameItem(d, e) == d.type = e.type /\ d.key = e.key
Twin(d, e) == SameItem(d, e) /\ d.index = e.index /\ d.body = e.body

\* The pieces of an item in order, one item after the other.
Chunked(c) ==
  /\ \A p, q \in 1 .. Len(c) : p < q /\ SameItem(c[p], c[q]) => c[p].index < c[q].index
  /\ \A p, q, r \in 1 .. Len(c) : p < r /\ r < q /\ SameItem(c[p], c[q]) => SameItem(c[p], c[r])

\* The same with copies, which are close together; maps come first, summaries
\* last.
Ordered(c) ==
  /\ \A p, q \in 1 .. Len(c) : p < q =>
       /\ c[q].type = "map" => c[p].type = "map"
       /\ c[p].type = "summary" => c[q].type = "summary"
       /\ SameItem(c[p], c[q]) => c[p].index <= c[q].index
       /\ Twin(c[p], c[q]) => q <= p + 2
  /\ \A p, q, r \in 1 .. Len(c) : p < r /\ r < q /\ SameItem(c[p], c[q]) => SameItem(c[p], c[r])

Apart(a, b) == \A p \in 1 .. Len(a), q \in 1 .. Len(b) : ~SameItem(a[p], b[q])

LEMMA Concat ==
  ASSUME NEW a \in Seq(Datagram), NEW b \in Seq(Datagram)
  PROVE  /\ a \o b \in Seq(Datagram) /\ Len(a \o b) = Len(a) + Len(b)
         /\ Len(a) \in Nat /\ Len(b) \in Nat
         /\ \A k \in 1 .. Len(a \o b) :
              \/ k \in 1 .. Len(a) /\ (a \o b)[k] = a[k]
              \/ /\ k > Len(a) /\ k - Len(a) \in 1 .. Len(b)
                 /\ (a \o b)[k] = b[k - Len(a)]
<1>1. a \o b \in Seq(Datagram) /\ Len(a \o b) = Len(a) + Len(b) BY ConcatProperties
<1>2. \A k \in 1 .. Len(a) + Len(b) :
        (a \o b)[k] = IF k <= Len(a) THEN a[k] ELSE b[k - Len(a)]
  BY ConcatProperties
<1>3. \A k \in 1 .. Len(a) + Len(b) : k > Len(a) => k - Len(a) \in 1 .. Len(b) OBVIOUS
<1> QED BY <1>1, <1>2, <1>3

LEMMA DatagramIndex == \A d \in Datagram : d.index \in Nat
BY DEF Datagram, MapChunk, TextChunk, Summary

LEMMA ChunkedJoined ==
  ASSUME NEW a \in Seq(Datagram), NEW b \in Seq(Datagram), Chunked(a), Chunked(b), Apart(a, b)
  PROVE  Chunked(a \o b)
<1> DEFINE c == a \o b
           n == Len(a)
<1>1. /\ n \in Nat /\ Len(b) \in Nat /\ Len(c) = n + Len(b)
      /\ \A k \in 1 .. Len(c) : \/ k \in 1 .. n /\ c[k] = a[k]
                                \/ k > n /\ k - n \in 1 .. Len(b) /\ c[k] = b[k - n]
  BY Concat
<1> HIDE DEF c, n
<1>2. ASSUME NEW p \in 1 .. Len(c), NEW q \in 1 .. Len(c), p < q, SameItem(c[p], c[q])
      PROVE  /\ c[p].index < c[q].index
             /\ \A r \in 1 .. Len(c) : p < r /\ r < q => SameItem(c[p], c[r])
  <2>1. CASE q <= n
    <3>1. /\ p \in 1 .. n /\ q \in 1 .. n /\ c[p] = a[p] /\ c[q] = a[q]
          /\ \A r \in 1 .. Len(c) : r < q => r \in 1 .. n /\ c[r] = a[r]
      BY <1>1, <1>2, <2>1
    <3> QED BY <1>2, <3>1 DEF Chunked, n
  <2>2. CASE p > n
    <3>1. /\ p - n \in 1 .. Len(b) /\ q - n \in 1 .. Len(b) /\ p - n < q - n
          /\ c[p] = b[p - n] /\ c[q] = b[q - n]
          /\ \A r \in 1 .. Len(c) : p < r => r - n \in 1 .. Len(b) /\ c[r] = b[r - n] /\ p - n < r - n
      BY <1>1, <1>2, <2>2
    <3>2. c[p].index < c[q].index BY <1>2, <3>1 DEF Chunked
    <3>3. ASSUME NEW r \in 1 .. Len(c), p < r, r < q PROVE SameItem(c[p], c[r])
      <4>1. r - n \in 1 .. Len(b) /\ c[r] = b[r - n] /\ p - n < r - n /\ r - n < q - n
        BY <1>1, <3>1, <3>3
      <4> QED BY <1>2, <3>1, <4>1 DEF Chunked
    <3> QED BY <3>2, <3>3
  <2>3. CASE p <= n /\ q > n
    <3>1. p \in 1 .. n /\ c[p] = a[p] /\ q - n \in 1 .. Len(b) /\ c[q] = b[q - n]
      BY <1>1, <2>3
    <3> QED BY <1>2, <3>1 DEF Apart, n
  <2> QED BY <1>1, <2>1, <2>2, <2>3
<1>3. Chunked(c) BY <1>2 DEF Chunked
<1> QED BY <1>3 DEF c

LEMMA OrderedJoined ==
  ASSUME NEW a \in Seq(Datagram), NEW b \in Seq(Datagram), Ordered(a), Ordered(b), Apart(a, b),
         \A p \in 1 .. Len(a) : a[p].type # "summary",
         \A p \in 1 .. Len(b) : b[p].type # "map"
  PROVE  Ordered(a \o b)
<1> DEFINE c == a \o b
           n == Len(a)
<1>1. /\ n \in Nat /\ Len(b) \in Nat /\ Len(c) = n + Len(b)
      /\ \A k \in 1 .. Len(c) : \/ k \in 1 .. n /\ c[k] = a[k]
                                \/ k > n /\ k - n \in 1 .. Len(b) /\ c[k] = b[k - n]
  BY Concat
<1> HIDE DEF c, n
<1>2. ASSUME NEW p \in 1 .. Len(c), NEW q \in 1 .. Len(c), p < q
      PROVE  /\ c[q].type = "map" => c[p].type = "map"
             /\ c[p].type = "summary" => c[q].type = "summary"
             /\ SameItem(c[p], c[q]) => c[p].index <= c[q].index
             /\ Twin(c[p], c[q]) => q <= p + 2
             /\ \A r \in 1 .. Len(c) : p < r /\ r < q /\ SameItem(c[p], c[q]) => SameItem(c[p], c[r])
  <2>1. CASE q <= n
    <3>1. /\ p \in 1 .. n /\ q \in 1 .. n /\ c[p] = a[p] /\ c[q] = a[q]
          /\ \A r \in 1 .. Len(c) : r < q => r \in 1 .. n /\ c[r] = a[r]
      BY <1>1, <1>2, <2>1
    <3>2. /\ c[q].type = "map" => c[p].type = "map"
          /\ c[p].type = "summary" => c[q].type = "summary"
          /\ SameItem(c[p], c[q]) => c[p].index <= c[q].index
          /\ Twin(c[p], c[q]) => q <= p + 2
      BY <1>2, <3>1 DEF Ordered, n
    <3>3. ASSUME NEW r \in 1 .. Len(c), p < r, r < q, SameItem(c[p], c[q])
          PROVE  SameItem(c[p], c[r])
      <4>1. r \in 1 .. n /\ c[r] = a[r] BY <3>1, <3>3
      <4> QED BY <3>1, <3>3, <4>1 DEF Ordered, n
    <3> QED BY <3>2, <3>3
  <2>2. CASE p > n
    <3>1. /\ p - n \in 1 .. Len(b) /\ q - n \in 1 .. Len(b) /\ p - n < q - n
          /\ c[p] = b[p - n] /\ c[q] = b[q - n]
          /\ \A r \in 1 .. Len(c) : p < r => r - n \in 1 .. Len(b) /\ c[r] = b[r - n] /\ p - n < r - n
      <4>1. /\ p - n \in 1 .. Len(b) /\ c[p] = b[p - n]
            /\ q - n \in 1 .. Len(b) /\ c[q] = b[q - n] /\ p - n < q - n
        BY <1>1, <1>2, <2>2
      <4>2. ASSUME NEW r \in 1 .. Len(c), p < r
            PROVE  r - n \in 1 .. Len(b) /\ c[r] = b[r - n] /\ p - n < r - n
        <5>1. r > n BY <1>1, <2>2, <4>2
        <5>2. r - n \in 1 .. Len(b) /\ c[r] = b[r - n] BY <1>1, <5>1
        <5> QED BY <1>1, <4>2, <5>2
      <4> QED BY <4>1, <4>2
    <3>2. /\ c[q].type = "map" => c[p].type = "map"
          /\ c[p].type = "summary" => c[q].type = "summary"
          /\ SameItem(c[p], c[q]) => c[p].index <= c[q].index
          /\ Twin(c[p], c[q]) => q - n <= p - n + 2
      BY <3>1 DEF Ordered
    <3>3. ASSUME NEW r \in 1 .. Len(c), p < r, r < q, SameItem(c[p], c[q])
          PROVE  SameItem(c[p], c[r])
      <4>1. r - n \in 1 .. Len(b) /\ c[r] = b[r - n] /\ p - n < r - n /\ r - n < q - n
        BY <1>1, <3>1, <3>3
      <4> QED BY <3>1, <3>3, <4>1 DEF Ordered
    <3> QED BY <1>1, <3>2, <3>3
  <2>3. CASE p <= n /\ q > n
    <3>1. p \in 1 .. n /\ c[p] = a[p] /\ q - n \in 1 .. Len(b) /\ c[q] = b[q - n]
      BY <1>1, <2>3
    <3> QED BY <3>1 DEF Apart, Twin, n
  <2> QED BY <1>1, <2>1, <2>2, <2>3
<1>3. Ordered(c) BY <1>2 DEF Ordered
<1> QED BY <1>3 DEF c

OneType(c) ==
  \A p, q \in 1 .. Len(c) : c[p].type = c[q].type /\ c[p].type # "summary"

LEMMA OrderedCopies ==
  ASSUME NEW c \in Seq(Datagram), Chunked(c), OneType(c)
  PROVE  /\ Ordered(Repeated(c)) /\ Repeated(c) \in Seq(Datagram)
         /\ Len(Repeated(c)) = 2 * Len(c)
         /\ \A k \in 1 .. Len(Repeated(c)) :
              (k - 1) \div 2 + 1 \in 1 .. Len(c) /\ Repeated(c)[k] = c[(k - 1) \div 2 + 1]
<1> DEFINE L == Repeated(c)
           at(k) == (k - 1) \div 2 + 1
<1>1. /\ L \in Seq(Datagram) /\ Len(c) \in Nat /\ Len(L) = 2 * Len(c)
      /\ \A k \in 1 .. Len(L) : at(k) \in 1 .. Len(c) /\ L[k] = c[at(k)]
  <2>1. Len(c) \in Nat /\ 2 * Len(c) \in Nat OBVIOUS
  <2>2. \A k \in 1 .. 2 * Len(c) : at(k) \in 1 .. Len(c) BY <2>1
  <2>3. L = [k \in 1 .. 2 * Len(c) |-> c[at(k)]] BY DEF Repeated, Copies
  <2> HIDE DEF L, at
  <2>4. \A k \in 1 .. 2 * Len(c) : c[at(k)] \in Datagram BY <2>2
  <2> DEFINE n == 2 * Len(c)
  <2>5. n \in Nat /\ L = [k \in 1 .. n |-> c[at(k)]] /\ \A k \in 1 .. n : c[at(k)] \in Datagram
    BY <2>1, <2>3, <2>4
  <2>6. \A k \in 1 .. n : at(k) \in 1 .. Len(c) BY <2>2
  <2> HIDE DEF n
  <2>7. L \in Seq(Datagram) /\ Len(L) = n BY <2>5
  <2> QED BY <2>1, <2>5, <2>6, <2>7 DEF n
<1>2. \A p, q \in 1 .. Len(L) : p <= q => at(p) <= at(q) BY <1>1
<1>3. \A p, q \in 1 .. Len(L) : at(p) = at(q) => q <= p + 2 BY <1>1
<1>4. \A k \in 1 .. Len(c) : c[k].index \in Nat BY DatagramIndex
<1> HIDE DEF L, at
<1>5. ASSUME NEW p \in 1 .. Len(L), NEW q \in 1 .. Len(L), p < q
      PROVE  /\ L[p].type = L[q].type /\ L[p].type # "summary"
             /\ SameItem(L[p], L[q]) => L[p].index <= L[q].index
             /\ Twin(L[p], L[q]) => q <= p + 2
             /\ \A r \in 1 .. Len(L) : p < r /\ r < q /\ SameItem(L[p], L[q]) => SameItem(L[p], L[r])
  <2>1. /\ at(p) \in 1 .. Len(c) /\ at(q) \in 1 .. Len(c) /\ at(p) <= at(q)
        /\ L[p] = c[at(p)] /\ L[q] = c[at(q)]
    BY <1>1, <1>2, <1>5
  <2>2. CASE at(p) = at(q)
    <3>1. \A r \in 1 .. Len(L) : p < r /\ r < q => at(r) = at(p)
      <4>1. \A r \in 1 .. Len(L) : p < r /\ r < q => at(p) <= at(r) /\ at(r) <= at(q) /\ at(r) \in Int
        BY <1>1, <1>2
      <4> QED BY <2>1, <2>2, <4>1
    <3> QED BY <1>1, <1>3, <1>4, <2>1, <2>2, <3>1 DEF SameItem, OneType
  <2>3. CASE at(p) < at(q)
    <3>1. SameItem(L[p], L[q]) => L[p].index < L[q].index BY <2>1, <2>3 DEF Chunked
    <3>2. L[p].index \in Nat /\ L[q].index \in Nat BY <1>4, <2>1
    <3>3. ~Twin(L[p], L[q]) BY <3>1, <3>2 DEF Twin
    <3>4. ASSUME NEW r \in 1 .. Len(L), p < r, r < q, SameItem(L[p], L[q])
          PROVE  SameItem(L[p], L[r])
      <4>1. /\ at(r) \in 1 .. Len(c) /\ at(p) <= at(r) /\ at(r) <= at(q) /\ L[r] = c[at(r)]
        BY <1>1, <1>2, <3>4
      <4>2. CASE at(r) = at(p) BY <2>1, <4>1, <4>2 DEF SameItem
      <4>3. CASE at(r) = at(q) BY <2>1, <3>4, <4>1, <4>3 DEF SameItem
      <4>4. CASE at(p) < at(r) /\ at(r) < at(q)
        BY <2>1, <3>4, <4>1, <4>4 DEF Chunked
      <4> QED BY <2>1, <4>1, <4>2, <4>3, <4>4
    <3> QED BY <2>1, <3>1, <3>2, <3>3, <3>4 DEF OneType
  <2> QED BY <2>1, <2>2, <2>3
<1>6. Ordered(L) BY <1>5 DEF Ordered
<1> QED BY <1>1, <1>6 DEF L, at

\* Every item has all its pieces, numbered from 0, and they agree on how many.
Entire(c) ==
  /\ \A p, q \in 1 .. Len(c) : SameItem(c[p], c[q]) => Metadata(c[p]) = Metadata(c[q])
  /\ \A p \in 1 .. Len(c) :
       /\ c[p].index \in 0 .. c[p].count - 1
       /\ \A i \in 0 .. c[p].count - 1 :
            \E q \in 1 .. Len(c) : SameItem(c[q], c[p]) /\ c[q].index = i

Doubled(c) == \A p \in 1 .. Len(c) : \E q \in 1 .. Len(c) : q # p /\ c[q] = c[p]

LEMMA EntireCopies ==
  ASSUME NEW c \in Seq(Datagram), Chunked(c), Entire(c), OneType(c)
  PROVE  Entire(Repeated(c)) /\ Doubled(Repeated(c))
<1> DEFINE L == Repeated(c)
           at(k) == (k - 1) \div 2 + 1
<1>0. Len(c) \in Nat OBVIOUS
<1>1. /\ Len(L) = 2 * Len(c) /\ Len(c) \in Nat
      /\ \A k \in 1 .. Len(L) : at(k) \in 1 .. Len(c) /\ L[k] = c[at(k)]
  BY <1>0, OrderedCopies
<1>2. \A i \in 1 .. Len(c) : /\ 2 * i - 1 \in 1 .. Len(L) /\ 2 * i \in 1 .. Len(L)
                             /\ at(2 * i - 1) = i /\ at(2 * i) = i
  BY <1>1
<1> HIDE DEF L, at
<1>3. \A i \in 1 .. Len(c) : \E k \in 1 .. Len(L) : L[k] = c[i] BY <1>1, <1>2
<1>4. Entire(L)
  <2>0. \A i, h \in 1 .. Len(c) : SameItem(c[i], c[h]) => Metadata(c[i]) = Metadata(c[h])
    BY DEF Entire
  <2>1. \A p, q \in 1 .. Len(L) : SameItem(L[p], L[q]) => Metadata(L[p]) = Metadata(L[q])
    BY <1>1, <2>0
  <2>2. \A p \in 1 .. Len(L) : L[p].index \in 0 .. L[p].count - 1 BY <1>1 DEF Entire
  <2>3. ASSUME NEW p \in 1 .. Len(L), NEW i \in 0 .. L[p].count - 1
        PROVE  \E q \in 1 .. Len(L) : SameItem(L[q], L[p]) /\ L[q].index = i
    <3>1. PICK h \in 1 .. Len(c) : SameItem(c[h], L[p]) /\ c[h].index = i
      BY <1>1, <2>3 DEF Entire
    <3> QED BY <1>3, <3>1
  <2> QED BY <2>1, <2>2, <2>3 DEF Entire
<1>5. Doubled(L)
  <2> SUFFICES ASSUME NEW p \in 1 .. Len(L) PROVE \E q \in 1 .. Len(L) : q # p /\ L[q] = L[p]
    BY DEF Doubled
  <2>1. /\ at(p) \in 1 .. Len(c) /\ L[p] = c[at(p)]
        /\ 2 * at(p) - 1 \in 1 .. Len(L) /\ 2 * at(p) \in 1 .. Len(L)
        /\ L[2 * at(p) - 1] = c[at(p)] /\ L[2 * at(p)] = c[at(p)]
    BY <1>1, <1>2
  <2>2. 2 * at(p) - 1 # 2 * at(p) BY <2>1
  <2> QED BY <2>1, <2>2
<1> QED BY <1>4, <1>5 DEF L

LEMMA EntireJoined ==
  ASSUME NEW a \in Seq(Datagram), NEW b \in Seq(Datagram), Entire(a), Entire(b), Apart(a, b)
  PROVE  /\ Entire(a \o b) /\ (Doubled(a) /\ Doubled(b) => Doubled(a \o b))
         /\ \A p \in 1 .. Len(a) : p \in 1 .. Len(a \o b) /\ (a \o b)[p] = a[p]
         /\ \A p \in 1 .. Len(b) : Len(a) + p \in 1 .. Len(a \o b) /\ (a \o b)[Len(a) + p] = b[p]
<1> DEFINE c == a \o b
           n == Len(a)
<1>1. /\ n \in Nat /\ Len(b) \in Nat /\ Len(c) = n + Len(b)
      /\ \A k \in 1 .. Len(c) : \/ k \in 1 .. n /\ c[k] = a[k]
                                \/ k > n /\ k - n \in 1 .. Len(b) /\ c[k] = b[k - n]
  BY Concat
<1> HIDE DEF c, n
<1>2. \A p \in 1 .. n : p \in 1 .. Len(c) /\ c[p] = a[p] BY <1>1
<1>3. \A p \in 1 .. Len(b) : n + p \in 1 .. Len(c) /\ c[n + p] = b[p]
  <2>1. \A p \in 1 .. Len(b) : n + p \in 1 .. Len(c) /\ ~(n + p \in 1 .. n) /\ (n + p) - n = p
    BY <1>1
  <2> QED BY <1>1, <2>1
<1>4. \A k \in 1 .. Len(c) : (\E p \in 1 .. n : c[k] = a[p]) \/ \E p \in 1 .. Len(b) : c[k] = b[p]
  BY <1>1
<1>5. Entire(c)
  <2>0. \A d, e : SameItem(d, e) => SameItem(e, d) BY DEF SameItem
  <2>a. \A i, h \in 1 .. n : SameItem(a[i], a[h]) => Metadata(a[i]) = Metadata(a[h])
    BY DEF Entire, n
  <2>b. \A i, h \in 1 .. Len(b) : SameItem(b[i], b[h]) => Metadata(b[i]) = Metadata(b[h])
    BY DEF Entire
  <2>c. \A i \in 1 .. n, h \in 1 .. Len(b) : ~SameItem(a[i], b[h]) /\ ~SameItem(b[h], a[i])
    BY <2>0 DEF Apart, n
  <2>1. \A p, q \in 1 .. Len(c) : SameItem(c[p], c[q]) => Metadata(c[p]) = Metadata(c[q])
    BY <1>4, <2>a, <2>b, <2>c
  <2>d. /\ \A i \in 1 .. n : a[i].index \in 0 .. a[i].count - 1
        /\ \A i \in 1 .. Len(b) : b[i].index \in 0 .. b[i].count - 1
    BY DEF Entire, n
  <2>2. \A p \in 1 .. Len(c) : c[p].index \in 0 .. c[p].count - 1 BY <1>4, <2>d
  <2>3. ASSUME NEW p \in 1 .. Len(c), NEW i \in 0 .. c[p].count - 1
        PROVE  \E q \in 1 .. Len(c) : SameItem(c[q], c[p]) /\ c[q].index = i
    <3>1. CASE \E h \in 1 .. n : c[p] = a[h]
      <4>1. PICK h \in 1 .. n : SameItem(a[h], c[p]) /\ a[h].index = i BY <3>1 DEF Entire, n
      <4> QED BY <1>2, <4>1
    <3>2. CASE \E h \in 1 .. Len(b) : c[p] = b[h]
      <4>1. PICK h \in 1 .. Len(b) : SameItem(b[h], c[p]) /\ b[h].index = i BY <3>2 DEF Entire
      <4> QED BY <1>3, <4>1
    <3> QED BY <1>4, <3>1, <3>2
  <2> QED BY <2>1, <2>2, <2>3 DEF Entire
<1>6. ASSUME Doubled(a), Doubled(b), NEW p \in 1 .. Len(c)
      PROVE  \E q \in 1 .. Len(c) : q # p /\ c[q] = c[p]
  <2>1. CASE p \in 1 .. n /\ c[p] = a[p]
    <3>1. PICK q \in 1 .. n : q # p /\ a[q] = a[p] BY <1>6, <2>1 DEF Doubled, n
    <3> QED BY <1>2, <2>1, <3>1
  <2>2. CASE p > n /\ p - n \in 1 .. Len(b) /\ c[p] = b[p - n]
    <3>1. PICK q \in 1 .. Len(b) : q # p - n /\ b[q] = b[p - n] BY <1>6, <2>2 DEF Doubled
    <3>2. n + q # p BY <1>1, <2>2, <3>1
    <3> QED BY <1>3, <2>2, <3>1, <3>2
  <2> QED BY <1>1, <2>1, <2>2
<1>7. Doubled(a) /\ Doubled(b) => Doubled(c) BY <1>6 DEF Doubled
<1> QED BY <1>2, <1>3, <1>5, <1>7 DEF c, n

\* Shape of what is sent for one scan, part by part.
Shape(c) == c \in Seq(Datagram) /\ Ordered(c) /\ Entire(c) /\ Doubled(c)

\* The pieces of one item.
LEMMA OneItem ==
  ASSUME NEW c \in Seq(Datagram),
         \A p, q \in 1 .. Len(c) : SameItem(c[p], c[q]) /\ Metadata(c[p]) = Metadata(c[q]),
         \A p \in 1 .. Len(c) : c[p].index = p - 1 /\ c[p].count = Len(c)
  PROVE  Chunked(c) /\ Entire(c)
<1>0. Len(c) \in Nat OBVIOUS
<1>1. \A p, q \in 1 .. Len(c) : p < q => c[p].index < c[q].index BY <1>0
<1>2. Chunked(c) BY <1>1 DEF Chunked
<1>3. ASSUME NEW p \in 1 .. Len(c)
      PROVE  /\ c[p].index \in 0 .. c[p].count - 1
             /\ \A i \in 0 .. c[p].count - 1 :
                  \E q \in 1 .. Len(c) : SameItem(c[q], c[p]) /\ c[q].index = i
  <2>1. c[p].count = Len(c) /\ c[p].index \in 0 .. Len(c) - 1 BY <1>0
  <2>2. ASSUME NEW i \in 0 .. Len(c) - 1
        PROVE  \E q \in 1 .. Len(c) : SameItem(c[q], c[p]) /\ c[q].index = i
    <3>1. i + 1 \in 1 .. Len(c) /\ (i + 1) - 1 = i BY <1>0
    <3>2. c[i + 1].index = i BY <3>1
    <3> QED BY <3>1, <3>2
  <2> QED BY <2>1, <2>2
<1>4. Entire(c) BY <1>3 DEF Entire
<1> QED BY <1>2, <1>4

LEMMA MapShape ==
  ASSUME NEW s \in Nat
  PROVE  /\ Shape(MapUpload(s))
         /\ \A p \in 1 .. Len(MapUpload(s)) : MapUpload(s)[p].type = "map"
<1> DEFINE Map(kind) == [i \in 1 .. MapChunks |-> MapChunk(s, kind, i - 1)]
           h == Map("horizontal")
           v == Map("vertical")
<1>0. MapChunks \in Nat BY ReportAssumption
<1>1. ASSUME NEW kind \in MapKinds
      PROVE  /\ Map(kind) \in Seq(Datagram) /\ Len(Map(kind)) = MapChunks
             /\ \A p \in 1 .. MapChunks :
                  /\ Map(kind)[p].type = "map" /\ Map(kind)[p].key = <<s, kind>>
                  /\ Map(kind)[p].index = p - 1 /\ Map(kind)[p].count = MapChunks
                  /\ Metadata(Map(kind)[p]) = <<MapChunks, s>>
  <2>1. \A i \in Nat : MapChunk(s, kind, i) \in Datagram BY DEF Datagram
  <2>2. \A p \in 1 .. MapChunks : p - 1 \in Nat /\ MapChunk(s, kind, p - 1) \in Datagram
    BY <1>0, <2>1
  <2>3. Map(kind) \in Seq(Datagram) /\ Len(Map(kind)) = MapChunks BY <1>0, <2>2
  <2> QED BY <2>3 DEF MapChunk, Metadata
<1>2. /\ h \in Seq(Datagram) /\ Len(h) = MapChunks /\ v \in Seq(Datagram) /\ Len(v) = MapChunks
      /\ \A p \in 1 .. MapChunks : /\ h[p].type = "map" /\ h[p].key = <<s, "horizontal">>
                                   /\ h[p].index = p - 1 /\ h[p].count = MapChunks
                                   /\ Metadata(h[p]) = <<MapChunks, s>>
      /\ \A p \in 1 .. MapChunks : /\ v[p].type = "map" /\ v[p].key = <<s, "vertical">>
                                   /\ v[p].index = p - 1 /\ v[p].count = MapChunks
                                   /\ Metadata(v[p]) = <<MapChunks, s>>
  BY <1>1 DEF MapKinds
<1>3. MapUpload(s) = Repeated(h \o v) BY DEF MapUpload
<1> HIDE DEF h, v, Map
<1>4. Chunked(h) /\ Entire(h) /\ Chunked(v) /\ Entire(v)
  <2>1. \A p, q \in 1 .. Len(h) : SameItem(h[p], h[q]) /\ Metadata(h[p]) = Metadata(h[q])
    BY <1>2 DEF SameItem
  <2>2. \A p, q \in 1 .. Len(v) : SameItem(v[p], v[q]) /\ Metadata(v[p]) = Metadata(v[q])
    BY <1>2 DEF SameItem
  <2> QED BY <1>2, <2>1, <2>2, OneItem
<1>5. Apart(h, v) BY <1>2 DEF Apart, SameItem
<1> DEFINE c == h \o v
<1>6. c \in Seq(Datagram) /\ Chunked(c) /\ Entire(c)
  BY <1>2, <1>4, <1>5, Concat, ChunkedJoined, EntireJoined
<1>7. \A p \in 1 .. Len(c) : c[p].type = "map" BY <1>2, Concat
<1>8. MapUpload(s) = Repeated(c) BY <1>3
<1> HIDE DEF c
<1>9. Shape(Repeated(c))
  <2>1. OneType(c) BY <1>7 DEF OneType
  <2> QED BY <1>6, <2>1, OrderedCopies, EntireCopies DEF Shape
<1>10. \A k \in 1 .. Len(Repeated(c)) : Repeated(c)[k].type = "map"
  BY <1>6, <1>7, RepeatedChunks
<1> QED BY <1>8, <1>9, <1>10

LEMMA TextShape ==
  ASSUME NEW s \in Nat, NEW id \in Nat, NEW n \in Nat \ {0}
  PROVE  /\ Shape(TextUpload(s, id, n))
         /\ \A p \in 1 .. Len(TextUpload(s, id, n)) : TextUpload(s, id, n)[p].type = "text"
         /\ 1 \in 1 .. Len(TextUpload(s, id, n))
<1> DEFINE c == [i \in 1 .. n |-> TextChunk(s, id, n, i - 1)]
<1>1. /\ c \in Seq(Datagram) /\ Len(c) = n
      /\ \A p \in 1 .. n : /\ c[p].type = "text" /\ c[p].key = <<id>> /\ c[p].index = p - 1
                           /\ c[p].count = n /\ Metadata(c[p]) = <<n, 0>>
  <2>1. \A i \in Nat : TextChunk(s, id, n, i) \in Datagram BY DEF Datagram
  <2>2. \A p \in 1 .. n : p - 1 \in Nat /\ TextChunk(s, id, n, p - 1) \in Datagram BY <2>1
  <2>3. c \in Seq(Datagram) /\ Len(c) = n BY <2>2
  <2> QED BY <2>3 DEF TextChunk, Metadata
<1>2. TextUpload(s, id, n) = Repeated(c) BY DEF TextUpload
<1> HIDE DEF c
<1>3. Chunked(c) /\ Entire(c) /\ OneType(c)
  <2>1. \A p, q \in 1 .. Len(c) : SameItem(c[p], c[q]) /\ Metadata(c[p]) = Metadata(c[q])
    BY <1>1 DEF SameItem
  <2> QED BY <1>1, <2>1, OneItem DEF OneType
<1>4. Shape(Repeated(c)) BY <1>1, <1>3, OrderedCopies, EntireCopies DEF Shape
<1>5. \A k \in 1 .. Len(Repeated(c)) : Repeated(c)[k].type = "text"
  <2>1. \A p \in 1 .. Len(c) : c[p].type = "text" BY <1>1
  <2> QED BY <1>1, <2>1, RepeatedChunks
<1>6. Len(Repeated(c)) = 2 * n BY <1>1, <1>3, OrderedCopies
<1> QED BY <1>2, <1>4, <1>5, <1>6

LEMMA SummaryShape ==
  ASSUME NEW s \in Nat
  PROVE  /\ Shape(SummaryUpload(s))
         /\ \A p \in 1 .. Len(SummaryUpload(s)) : SummaryUpload(s)[p].type = "summary"
         /\ 1 \in 1 .. Len(SummaryUpload(s))
<1> DEFINE c == SummaryUpload(s)
<1>1. Summary(s) \in Datagram BY DEF Datagram
<1>2. /\ c \in Seq(Datagram) /\ Len(c) = 3 /\ \A p \in 1 .. 3 : c[p] = Summary(s)
  BY <1>1 DEF SummaryUpload
<1>3. Summary(s).type = "summary" /\ Summary(s).index = 0 /\ Summary(s).count = 1
  BY DEF Summary
<1> HIDE DEF c
<1>4. Ordered(c) BY <1>2, <1>3 DEF Ordered, SameItem
<1>5. Entire(c) BY <1>2, <1>3 DEF Entire, SameItem
<1>6. Doubled(c)
  <2> SUFFICES ASSUME NEW p \in 1 .. 3 PROVE \E q \in 1 .. 3 : q # p /\ c[q] = c[p]
    BY <1>2 DEF Doubled
  <2>1. CASE p = 1 BY <1>2, <2>1
  <2>2. CASE p # 1 BY <1>2, <2>2
  <2> QED BY <2>1, <2>2
<1>7. Shape(c) /\ (\A p \in 1 .. Len(c) : c[p].type = "summary") /\ 1 \in 1 .. Len(c)
  BY <1>2, <1>3, <1>4, <1>5, <1>6 DEF Shape
<1> QED BY <1>7 DEF c

\* Two parts, of other items each.
LEMMA ShapeJoined ==
  ASSUME NEW a \in Seq(Datagram), NEW b \in Seq(Datagram), Shape(a), Shape(b),
         \A p \in 1 .. Len(a), q \in 1 .. Len(b) : a[p].type # b[q].type,
         \A p \in 1 .. Len(a) : a[p].type # "summary",
         \A p \in 1 .. Len(b) : b[p].type # "map"
  PROVE  /\ Shape(a \o b)
         /\ \A p \in 1 .. Len(a) : p \in 1 .. Len(a \o b) /\ (a \o b)[p] = a[p]
         /\ \A p \in 1 .. Len(b) : Len(a) + p \in 1 .. Len(a \o b) /\ (a \o b)[Len(a) + p] = b[p]
<1>2. Apart(a, b) BY DEF Apart, SameItem
<1>3. a \o b \in Seq(Datagram) BY Concat
<1>4. Ordered(a \o b) BY <1>2, OrderedJoined DEF Shape
<1> QED BY <1>2, <1>3, <1>4, EntireJoined DEF Shape

\* All that Process puts into left for one scan.
WholeUpload(s, id, n, angle) ==
  (IF angle THEN MapUpload(s) ELSE <<>>) \o TextUpload(s, id, n) \o SummaryUpload(s)

UploadShaped(c, s, id) ==
  /\ Shape(c) /\ Of(c, s, id)
  /\ \E p \in 1 .. Len(c) : c[p].type = "text"
  /\ \E p \in 1 .. Len(c) : c[p].type = "summary"

LEMMA UploadShape ==
  ASSUME NEW s \in Nat, NEW id \in Nat, NEW n \in Nat \ {0}, NEW angle \in BOOLEAN
  PROVE  UploadShaped(WholeUpload(s, id, n, angle), s, id)
<1> DEFINE c == WholeUpload(s, id, n, angle)
           maps == IF angle THEN MapUpload(s) ELSE <<>>
           text == TextUpload(s, id, n)
           summaries == SummaryUpload(s)
           both == maps \o text
<1>1. /\ Shape(maps) /\ Of(maps, s, id)
      /\ \A p \in 1 .. Len(maps) : maps[p].type = "map"
  <2>1. CASE angle BY <2>1, MapShape, MapsOf
  <2>2. CASE ~angle
    <3>1. maps = <<>> BY <2>2
    <3>2. maps \in Seq(Datagram) /\ Len(maps) = 0
      <4> HIDE DEF maps
      <4> QED BY <3>1
    <3> QED BY <3>2 DEF Shape, Of, Ordered, Entire, Doubled
  <2> QED BY <2>1, <2>2
<1>2. /\ Shape(text) /\ Of(text, s, id) /\ 1 \in 1 .. Len(text)
      /\ \A p \in 1 .. Len(text) : text[p].type = "text"
  BY TextShape, TextOf
<1>3. /\ Shape(summaries) /\ Of(summaries, s, id) /\ 1 \in 1 .. Len(summaries)
      /\ \A p \in 1 .. Len(summaries) : summaries[p].type = "summary"
  BY SummaryShape, SummariesOf
<1>4. c = both \o summaries BY DEF WholeUpload
<1> HIDE DEF c, maps, text, summaries
<1>5. maps \in Seq(Datagram) /\ text \in Seq(Datagram) /\ summaries \in Seq(Datagram)
  BY <1>1, <1>2, <1>3 DEF Shape
<1>6. /\ Shape(both) /\ Len(maps) + 1 \in 1 .. Len(both) /\ both[Len(maps) + 1].type = "text"
  <2>1. /\ \A p \in 1 .. Len(maps), q \in 1 .. Len(text) : maps[p].type # text[q].type
        /\ \A p \in 1 .. Len(maps) : maps[p].type # "summary"
        /\ \A p \in 1 .. Len(text) : text[p].type # "map"
    BY <1>1, <1>2
  <2>2. /\ Shape(both)
        /\ \A p \in 1 .. Len(text) : Len(maps) + p \in 1 .. Len(both) /\ both[Len(maps) + p] = text[p]
    BY <1>1, <1>2, <1>5, <2>1, ShapeJoined
  <2> QED BY <1>2, <2>2
<1>7. Of(both, s, id) BY <1>1, <1>2, <1>5, JoinedOf
<1>8. \A p \in 1 .. Len(both) : both[p].type \in {"map", "text"}
  BY <1>1, <1>2, <1>5, Joined
<1> HIDE DEF both
<1>9. both \in Seq(Datagram) BY <1>6 DEF Shape
<1>10. /\ Shape(both \o summaries)
       /\ \A p \in 1 .. Len(both) : p \in 1 .. Len(both \o summaries) /\ (both \o summaries)[p] = both[p]
       /\ \A p \in 1 .. Len(summaries) : /\ Len(both) + p \in 1 .. Len(both \o summaries)
                                         /\ (both \o summaries)[Len(both) + p] = summaries[p]
  <2>1. /\ \A p \in 1 .. Len(both), q \in 1 .. Len(summaries) : both[p].type # summaries[q].type
        /\ \A p \in 1 .. Len(both) : both[p].type # "summary"
        /\ \A p \in 1 .. Len(summaries) : summaries[p].type # "map"
    BY <1>3, <1>8
  <2> QED BY <1>3, <1>5, <1>6, <1>9, <2>1, ShapeJoined
<1>11. Of(c, s, id)
  <2>1. Of(both \o summaries, s, id) BY <1>3, <1>5, <1>7, <1>9, JoinedOf
  <2> QED BY <1>4, <2>1
<1>12. /\ Len(maps) + 1 \in 1 .. Len(c) /\ c[Len(maps) + 1].type = "text"
       /\ Len(both) + 1 \in 1 .. Len(c) /\ c[Len(both) + 1].type = "summary"
  BY <1>3, <1>4, <1>6, <1>10
<1>13. Shape(c) BY <1>4, <1>10
<1>14. UploadShaped(c, s, id) BY <1>11, <1>12, <1>13 DEF UploadShaped
<1> QED BY <1>14 DEF c

-----------------------------------------------------------------------------
(***************************************************************************)
(* What a step moves                                                       *)
(***************************************************************************)
\* 1 when the board has been sending for all of this tick.
Spent == IF busy THEN 1 ELSE 0

OnTheRoad == Range(inbox) \union Range(left)

\* The board goes on to a later datagram, and the first may have arrived.
Moved(m) ==
  /\ m \in Nat /\ (left # <<>> => m >= 1)
  /\ left' \in Seq(Datagram)
  /\ \A q \in 1 .. Len(left') : q + m \in 1 .. Len(left) /\ left'[q] = left[q + m]
  /\ \/ UNCHANGED <<inbox, arrived>>
     \/ /\ left # <<>> /\ inbox' = Append(inbox, left[1])
        /\ arrived' = arrived \union {left[1]}
  /\ busy' = FALSE /\ UNCHANGED <<scan, hostVars, now>>

LEMMA Road ==
  ASSUME OnTheWay, NEW e
  PROVE  e \in OnTheRoad <=> \/ \E p \in 1 .. Len(inbox) : inbox[p] = e
                             \/ \E q \in 1 .. Len(left) : left[q] = e
<1>1. DOMAIN inbox = 1 .. Len(inbox) /\ DOMAIN left = 1 .. Len(left) BY DEF OnTheWay
<1> QED BY <1>1 DEF OnTheRoad, Range

LEMMA SentMoves ==
  ASSUME OnTheWay, Sent
  PROVE  Moved(1)
<1>1. left' = Tail(left) /\ left # <<>> /\ left \in Seq(Datagram) BY DEF Sent, OnTheWay
<1>2. /\ left' \in Seq(Datagram) /\ Len(left') = Len(left) - 1 /\ Len(left) \in Nat
      /\ \A k \in 1 .. Len(left') : left'[k] = left[k + 1]
  BY <1>1
<1>3. Head(left) = left[1] BY <1>1
<1>4. \/ UNCHANGED <<inbox, arrived>>
      \/ inbox' = Append(inbox, left[1]) /\ arrived' = arrived \union {left[1]}
  BY <1>3 DEF Sent, Transmit
<1> QED BY <1>1, <1>2, <1>4 DEF Moved, Sent

LEMMA FailureMoves ==
  ASSUME OnTheWay, SendFails
  PROVE  LET own == {i \in 1 .. Len(left) : left[i].type = left[1].type}
         IN Moved(Cardinality(own)) /\ Cardinality(own) \in Nat
<1> DEFINE own == {i \in 1 .. Len(left) : left[i].type = left[1].type}
           m == Cardinality(own)
<1>1. left \in Seq(Datagram) /\ left # <<>> /\ Head(left) = left[1] /\ Len(left) \in Nat
  BY DEF SendFails, OnTheWay
<1>2. m \in Nat /\ m >= 1
  <2>1. IsFiniteSet(1 .. Len(left)) BY <1>1, FS_Interval
  <2>2. own \subseteq 1 .. Len(left) /\ 1 \in own BY <1>1
  <2> HIDE DEF own
  <2>3. IsFiniteSet(own) BY <2>1, <2>2, FS_Subset
  <2>4. m \in Nat BY <2>3, FS_CardinalityType
  <2>5. m # 0 BY <2>2, <2>3, FS_EmptySet
  <2> QED BY <2>4, <2>5
<1>3. GivenUp = SubSeq(left, m + 1, Len(left)) BY <1>1 DEF GivenUp
<1>4. \/ UNCHANGED <<inbox, arrived>>
      \/ inbox' = Append(inbox, left[1]) /\ arrived' = arrived \union {left[1]}
  BY <1>1 DEF SendFails
<1> HIDE DEF m
<1>5. \A k \in m + 1 .. Len(left) : k \in 1 .. Len(left) /\ left[k] \in Datagram
  BY <1>1, <1>2
<1>6. /\ GivenUp \in Seq(Datagram)
      /\ Len(GivenUp) = IF m + 1 <= Len(left) THEN Len(left) - (m + 1) + 1 ELSE 0
      /\ \A k \in 1 .. Len(left) - (m + 1) + 1 : GivenUp[k] = left[(m + 1) + k - 1]
  BY <1>1, <1>2, <1>3, <1>5, SubSeqProperties
<1>7. \A q \in 1 .. Len(GivenUp) : q + m \in 1 .. Len(left) /\ GivenUp[q] = left[q + m]
  <2>1. ASSUME NEW q \in 1 .. Len(GivenUp) PROVE q + m \in 1 .. Len(left) /\ GivenUp[q] = left[q + m]
    <3>1. q \in 1 .. Len(left) - (m + 1) + 1 /\ (m + 1) + q - 1 = q + m BY <1>1, <1>2, <1>6
    <3> QED BY <1>1, <1>2, <1>6, <3>1
  <2> QED BY <2>1
<1>8. Moved(m) BY <1>1, <1>2, <1>4, <1>6, <1>7 DEF Moved, SendFails
<1> QED BY <1>2, <1>8 DEF m

LEMMA RebootMoves ==
  ASSUME OnTheWay, Reboot
  PROVE  Moved(Len(left))
<1>1. left' = <<>> /\ left \in Seq(Datagram) BY DEF Reboot, OnTheWay
<1>2. Len(left) \in Nat /\ (left # <<>> => Len(left) >= 1) BY <1>1
<1>3. left' \in Seq(Datagram) /\ Len(left') = 0 BY <1>1
<1> QED BY <1>2, <1>3 DEF Moved, Reboot

\* What is in the socket, and what else can have arrived, after such a step.
LEMMA MovedInbox ==
  ASSUME OnTheWay, NEW m, Moved(m)
  PROVE  /\ inbox' \in Seq(Datagram) /\ Len(inbox) \in Nat /\ Len(inbox') \in Nat
         /\ Len(left) \in Nat /\ Len(left') \in Nat
         /\ \A p \in 1 .. Len(inbox) : p \in 1 .. Len(inbox') /\ inbox'[p] = inbox[p]
         /\ \A p \in 1 .. Len(inbox') :
              \/ p \in 1 .. Len(inbox)
              \/ /\ p = Len(inbox) + 1 /\ m >= 1 /\ 1 \in 1 .. Len(left) /\ inbox'[p] = left[1]
                 /\ inbox' = Append(inbox, left[1]) /\ arrived' = arrived \union {left[1]}
<1>0. inbox \in Seq(Datagram) /\ left \in Seq(Datagram) /\ left' \in Seq(Datagram)
  BY DEF OnTheWay, Moved
<1>1. CASE UNCHANGED <<inbox, arrived>> BY <1>0, <1>1
<1>2. CASE /\ left # <<>> /\ inbox' = Append(inbox, left[1])
           /\ arrived' = arrived \union {left[1]}
  <2>1. 1 \in 1 .. Len(left) /\ left[1] \in Datagram /\ m >= 1 BY <1>0, <1>2 DEF Moved
  <2>2. /\ inbox' \in Seq(Datagram) /\ Len(inbox') = Len(inbox) + 1 /\ Len(inbox) \in Nat
        /\ inbox'[Len(inbox) + 1] = left[1]
        /\ \A i \in 1 .. Len(inbox) : inbox'[i] = inbox[i]
    BY <1>0, <1>2, <2>1
  <2> QED BY <1>0, <1>2, <2>1, <2>2
<1> QED BY <1>1, <1>2 DEF Moved

LEMMA RoadShrinks ==
  ASSUME OnTheWay, OnTheWay', NEW m, Moved(m)
  PROVE  OnTheRoad' \subseteq OnTheRoad
<1> SUFFICES ASSUME NEW e \in OnTheRoad' PROVE e \in OnTheRoad OBVIOUS
<1>1. \/ \E p \in 1 .. Len(inbox') : inbox'[p] = e
      \/ \E q \in 1 .. Len(left') : left'[q] = e
  <2>1. DOMAIN inbox' = 1 .. Len(inbox') /\ DOMAIN left' = 1 .. Len(left') BY DEF OnTheWay
  <2> QED BY <2>1 DEF OnTheRoad, Range
<1>2. CASE \E p \in 1 .. Len(inbox') : inbox'[p] = e BY <1>2, MovedInbox, Road
<1>3. CASE \E q \in 1 .. Len(left') : left'[q] = e BY <1>3, Road DEF Moved
<1> QED BY <1>1, <1>2, <1>3

\* The host takes the first datagram out of its socket.
LEMMA Routed ==
  ASSUME OnTheWay, Route
  PROVE  /\ inbox' \in Seq(Datagram) /\ Len(inbox) \in Nat /\ Len(inbox) >= 1
         /\ Len(inbox') = Len(inbox) - 1
         /\ \A p \in 1 .. Len(inbox') : p + 1 \in 1 .. Len(inbox) /\ inbox'[p] = inbox[p + 1]
         /\ Head(inbox) = inbox[1] /\ inbox[1] \in Datagram /\ Genuine(inbox[1])
         /\ UNCHANGED <<boardVars, left, busy, scan, arrived, count, now>>
<1>1. inbox \in Seq(Datagram) /\ inbox # <<>> /\ inbox' = Tail(inbox) BY DEF OnTheWay, Route
<1>2. /\ inbox' \in Seq(Datagram) /\ Len(inbox) \in Nat /\ Len(inbox) >= 1
      /\ Len(inbox') = Len(inbox) - 1
      /\ \A p \in 1 .. Len(inbox') : inbox'[p] = inbox[p + 1]
  BY <1>1
<1>3. Head(inbox) = inbox[1] /\ inbox[1] \in Datagram /\ Genuine(inbox[1])
  BY <1>1, <1>2 DEF OnTheWay
<1> QED BY <1>2, <1>3 DEF Route, boardVars

LEMMA RoutedRoad ==
  ASSUME OnTheWay, OnTheWay', Route
  PROVE  /\ OnTheRoad' \subseteq OnTheRoad /\ inbox[1] \in OnTheRoad
         /\ OnTheRoad \subseteq OnTheRoad' \union {inbox[1]}
         /\ \A e \in Range(inbox) : e = inbox[1] \/ e \in Range(inbox')
<1>1. /\ DOMAIN inbox' = 1 .. Len(inbox') /\ DOMAIN left' = 1 .. Len(left')
      /\ DOMAIN inbox = 1 .. Len(inbox) /\ DOMAIN left = 1 .. Len(left)
  BY DEF OnTheWay
<1>2. \A p \in 1 .. Len(inbox) : p = 1 \/ (p - 1 \in 1 .. Len(inbox') /\ inbox'[p - 1] = inbox[p])
  BY Routed
<1>3. Range(inbox') \subseteq Range(inbox) /\ Range(left') = Range(left) /\ inbox[1] \in Range(inbox)
  <2>1. \A p \in 1 .. Len(inbox') : p + 1 \in 1 .. Len(inbox) /\ inbox'[p] = inbox[p + 1]
    BY Routed
  <2>2. Range(inbox') \subseteq Range(inbox) BY <1>1, <2>1 DEF Range
  <2>3. left' = left BY Routed
  <2>4. 1 \in 1 .. Len(inbox) BY Routed
  <2> QED BY <1>1, <2>2, <2>3, <2>4 DEF Range
<1>4. \A e \in Range(inbox) : e = inbox[1] \/ e \in Range(inbox') BY <1>1, <1>2 DEF Range
<1> QED BY <1>3, <1>4 DEF OnTheRoad

-----------------------------------------------------------------------------
(***************************************************************************)
(* What the host makes of a chunk                                          *)
(***************************************************************************)
\* Completed, and not yet forgotten.
Finished(type, key) ==
  /\ key \in DOMAIN assembler[type].completed
  /\ now - assembler[type].completed[key] < Expiry

\* Gathered, and not yet given up.
Gathers(type, key) ==
  /\ key \in DOMAIN assembler[type].partial
  /\ now - assembler[type].partial[key].updated_at < Expiry

Old(d) == Gathered(Unexpired(assembler[d.type]), d)
Pieces(d) == With(Old(d), d.index, d.body)

LEMMA OldPieces ==
  ASSUME NEW d
  PROVE  \/ /\ Gathers(d.type, d.key)
            /\ assembler[d.type].partial[d.key].metadata = Metadata(d)
            /\ Old(d) = assembler[d.type].partial[d.key].pieces
         \/ /\ DOMAIN Old(d) = {}
            /\ ~(/\ Gathers(d.type, d.key)
                 /\ assembler[d.type].partial[d.key].metadata = Metadata(d))
BY DEF Old, Gathered, Unexpired, Restrict, Gathers, Nothing

LEMMA NewPieces ==
  ASSUME NEW d
  PROVE  /\ DOMAIN Pieces(d) = DOMAIN Old(d) \union {d.index}
         /\ Pieces(d)[d.index] = d.body
         /\ \A i \in DOMAIN Old(d) : i # d.index => Pieces(d)[i] = Old(d)[i]
BY DEF Pieces, With

\* The four things that can happen to d's report or map.
Dropped(d) ==
  /\ Finished(d.type, d.key)
  /\ UNCHANGED <<shown, last>>
  /\ DOMAIN assembler'[d.type].completed \subseteq DOMAIN assembler[d.type].completed
  /\ d.key \in DOMAIN assembler'[d.type].partial =>
       /\ d.key \in DOMAIN assembler[d.type].partial
       /\ assembler'[d.type].partial[d.key] = assembler[d.type].partial[d.key]

Held(d, pieces) ==
  /\ ~Finished(d.type, d.key)
  /\ d.key \in DOMAIN assembler'[d.type].partial
  /\ assembler'[d.type].partial[d.key] =
       [metadata |-> Metadata(d), updated_at |-> now, pieces |-> pieces]
  /\ d.key \notin DOMAIN assembler'[d.type].completed
  /\ DOMAIN assembler'[d.type].completed \subseteq DOMAIN assembler[d.type].completed
  /\ UNCHANGED <<shown, last>>

Finishes(d) ==
  /\ ~Finished(d.type, d.key)
  /\ d.index \notin DOMAIN Old(d)
  /\ Cardinality(DOMAIN Pieces(d)) = d.count
  /\ d.key \notin DOMAIN assembler'[d.type].partial
  /\ d.key \in DOMAIN assembler'[d.type].completed
  /\ assembler'[d.type].completed[d.key] = now
  /\ Show(d, Pieces(d))
  /\ last' = IF d.type = "text" THEN NoSummary ELSE last

\* Everything else the assemblers remember is kept or forgotten as it was.
Others(d) ==
  /\ DOMAIN assembler' = Uploads
  /\ \A type \in Uploads : type # d.type => assembler'[type] = assembler[type]
  /\ \A k \in DOMAIN assembler'[d.type].completed :
       \/ k = d.key /\ assembler'[d.type].completed[k] = now
       \/ /\ k \in DOMAIN assembler[d.type].completed
          /\ assembler'[d.type].completed[k] = assembler[d.type].completed[k]
  /\ \A k : Finished(d.type, k) =>
       /\ k \in DOMAIN assembler'[d.type].completed
       /\ assembler'[d.type].completed[k] = assembler[d.type].completed[k]
  /\ \A k \in DOMAIN assembler'[d.type].partial : k # d.key =>
       /\ k \in DOMAIN assembler[d.type].partial
       /\ assembler'[d.type].partial[k] = assembler[d.type].partial[k]
  /\ \A k : k # d.key /\ Gathers(d.type, k) =>
       /\ k \in DOMAIN assembler'[d.type].partial
       /\ assembler'[d.type].partial[k] = assembler[d.type].partial[k]

LEMMA Added ==
  ASSUME DOMAIN assembler = Uploads, NEW d, d.type \in Uploads, AddChunk(d)
  PROVE  /\ Others(d)
         /\ \/ Dropped(d)
            \/ d.index \in DOMAIN Old(d) /\ Held(d, Old(d))
            \/ /\ d.index \notin DOMAIN Old(d) /\ Cardinality(DOMAIN Pieces(d)) < d.count
               /\ Held(d, Pieces(d))
            \/ Finishes(d)
<1> DEFINE A == assembler[d.type]
           a == Unexpired(A)
           b == assembler'[d.type]
<1>1. /\ \A k : k \in DOMAIN a.partial <=> Gathers(d.type, k)
      /\ \A k \in DOMAIN a.partial : k \in DOMAIN A.partial /\ a.partial[k] = A.partial[k]
      /\ \A k : k \in DOMAIN a.completed <=> Finished(d.type, k)
      /\ \A k \in DOMAIN a.completed : k \in DOMAIN A.completed /\ a.completed[k] = A.completed[k]
  BY DEF Unexpired, Restrict, Gathers, Finished
<1>2. a = [partial |-> a.partial, completed |-> a.completed] BY DEF Unexpired
<1>3. \A x : Remember(d, x) => /\ DOMAIN assembler' = Uploads /\ b = x
                               /\ \A type \in Uploads : type # d.type => assembler'[type] = assembler[type]
  BY DEF Remember
<1>4. Old(d) = Gathered(a, d) /\ Pieces(d) = With(Gathered(a, d), d.index, d.body)
  BY DEF Old, Pieces
<1> HIDE DEF a
<1>5. CASE d.key \in DOMAIN a.completed /\ Remember(d, a) /\ UNCHANGED <<shown, last>>
  <2>1. b = a BY <1>3, <1>5
  <2>2. Dropped(d) BY <1>1, <1>5, <2>1 DEF Dropped
  <2>3. Others(d) BY <1>1, <1>3, <1>5, <2>1 DEF Others
  <2> QED BY <2>2, <2>3
<1>6. ASSUME NEW pieces, d.key \notin DOMAIN a.completed, Remember(d, Keep(a, d, pieces)),
             UNCHANGED <<shown, last>>
      PROVE  Others(d) /\ Held(d, pieces)
  <2> DEFINE e == [metadata |-> Metadata(d), updated_at |-> now, pieces |-> pieces]
  <2>1. b = Keep(a, d, pieces) BY <1>3, <1>6
  <2>2. b.partial = With(a.partial, d.key, e) /\ b.completed = a.completed
    BY <1>2, <2>1 DEF Keep
  <2> HIDE DEF b
  <2>3. /\ DOMAIN b.partial = DOMAIN a.partial \union {d.key} /\ b.partial[d.key] = e
        /\ \A k \in DOMAIN a.partial : k # d.key => b.partial[k] = a.partial[k]
    BY <2>2 DEF With
  <2>4. Held(d, pieces) BY <1>1, <1>6, <2>2, <2>3 DEF Held, b
  <2>5. Others(d) BY <1>1, <1>3, <1>6, <2>2, <2>3 DEF Others, b
  <2> QED BY <2>4, <2>5
<1>7. ASSUME d.key \notin DOMAIN a.completed, d.index \notin DOMAIN Old(d),
             Cardinality(DOMAIN Pieces(d)) = d.count, Remember(d, Complete(a, d)),
             Show(d, Pieces(d)), last' = IF d.type = "text" THEN NoSummary ELSE last
      PROVE  Others(d) /\ Finishes(d)
  <2>1. b = Complete(a, d) BY <1>3, <1>7
  <2>2. b.partial = Without(a.partial, d.key) /\ b.completed = With(a.completed, d.key, now)
    BY <1>2, <2>1 DEF Complete
  <2> HIDE DEF b
  <2>3. /\ DOMAIN b.partial = DOMAIN a.partial \ {d.key}
        /\ \A k \in DOMAIN b.partial : b.partial[k] = a.partial[k]
    BY <2>2 DEF Without, Restrict
  <2>4. /\ DOMAIN b.completed = DOMAIN a.completed \union {d.key} /\ b.completed[d.key] = now
        /\ \A k \in DOMAIN a.completed : k # d.key => b.completed[k] = a.completed[k]
    BY <2>2 DEF With
  <2>5. Finishes(d) BY <1>1, <1>7, <2>3, <2>4 DEF Finishes, b
  <2>6. Others(d) BY <1>1, <1>3, <1>7, <2>3, <2>4 DEF Others, b
  <2> QED BY <2>5, <2>6
<1> QED BY <1>4, <1>5, <1>6, <1>7 DEF AddChunk, a

-----------------------------------------------------------------------------
(***************************************************************************)
(* Nothing is shown twice: the invariant                                   *)
(***************************************************************************)
Clocks ==
  /\ now \in Nat /\ busy \in BOOLEAN /\ last \in [scan_id : Nat, seen : Nat]
  /\ \A type \in Uploads :
       /\ \A key \in DOMAIN assembler[type].partial :
            assembler[type].partial[key].updated_at \in Nat
       /\ \A key \in DOMAIN assembler[type].completed : assembler[type].completed[key] \in Nat

\* Scans follow one another, a scan's summaries come last, pieces come in order.
Before(d, e) ==
  \/ d.body < e.body
  \/ /\ d.body = e.body
     /\ d.type = "summary" => e.type = "summary"
     /\ SameItem(d, e) => d.index <= e.index

InOrder ==
  /\ \A p, q \in 1 .. Len(left) : p < q => Before(left[p], left[q])
  /\ \A p, q \in 1 .. Len(inbox) : p < q => Before(inbox[p], inbox[q])
  /\ \A p \in 1 .. Len(inbox), q \in 1 .. Len(left) : Before(inbox[p], left[q])

\* The copies of a datagram that were sent leave at most two to send.
CopiesClose ==
  /\ \A p, q \in 1 .. Len(left) : Twin(left[p], left[q]) => q <= p + 2
  /\ \A p \in 1 .. Len(inbox), q \in 1 .. Len(left) : Twin(inbox[p], left[q]) => q <= 2

\* A copy of what was handled at stamp arrives within two ticks.
Recent(stamp, e) ==
  /\ stamp <= now
  /\ \A p \in 1 .. Len(inbox) : Twin(inbox[p], e) => now <= stamp + 2
  /\ \A q \in 1 .. Len(left) : Twin(left[q], e) => now + q <= stamp + 2 + Spent

\* What is still to come is later than what an assembler holds, or a copy of it.
Past ==
  \A type \in Uploads : \A key \in DOMAIN assembler[type].partial :
    \A i \in DOMAIN assembler[type].partial[key].pieces :
      /\ assembler[type].partial[key].pieces[i] \in 1 .. scan
      /\ \A e \in OnTheRoad : e.type = type /\ e.key = key =>
           \/ assembler[type].partial[key].pieces[i] < e.body
           \/ assembler[type].partial[key].pieces[i] = e.body /\ i <= e.index

\* The filter still holds a summary that was shown when a copy of it arrives.
SummaryPast(x) ==
  /\ x.key[1] \in 1 .. scan
  /\ \A e \in OnTheRoad :
       /\ x.key[1] < e.body \/ (x.key[1] = e.body /\ e.type = "summary")
       /\ e.body = x.key[1] => last.scan_id = e.body /\ Recent(last.seen, e)

Has(pieces, i, v) == i \in DOMAIN pieces /\ pieces[i] = v

\* Piece i of x will not be seen again.
Gone(x, i) ==
  /\ \A e \in OnTheRoad : SameItem(e, x) /\ e.index = i => e.body # x.pieces[i]
  /\ x.key \in DOMAIN assembler[x.type].partial =>
       ~Has(assembler[x.type].partial[x.key].pieces, i, x.pieces[i])

\* As long as there are copies of x on the road, it is known to be completed.
Remembered(x) ==
  \A e \in OnTheRoad :
    SameItem(e, x) /\ Has(x.pieces, e.index, e.body) =>
      /\ x.key \in DOMAIN assembler[x.type].completed
      /\ Recent(assembler[x.type].completed[x.key], e)

ChunkPast(x) ==
  /\ x.type \in Uploads
  /\ \A i \in DOMAIN x.pieces : x.pieces[i] \in 1 .. scan
  /\ \/ \E i \in DOMAIN x.pieces : Gone(x, i)
     \/ Remembered(x)

ShownPast ==
  \A k \in 1 .. Len(shown) :
    IF shown[k].type = "summary" THEN SummaryPast(shown[k]) ELSE ChunkPast(shown[k])

OnceInv == Clocks /\ InOrder /\ CopiesClose /\ Past /\ ShownPast /\ ShownOnce

-----------------------------------------------------------------------------
(***************************************************************************)
(* The line between board and host                                         *)
(***************************************************************************)
LEMMA DatagramFields ==
  ASSUME NEW d \in Datagram
  PROVE  /\ d.index \in Nat /\ d.body \in Nat /\ d.count \in Nat
         /\ d.type = "summary" => d.key = <<d.body>> /\ d.index = 0
BY ReportAssumption DEF Datagram, MapChunk, TextChunk, Summary

LEMMA OnTheRoadGenuine ==
  ASSUME OnTheWay, NEW e \in OnTheRoad
  PROVE  e \in Datagram /\ Genuine(e) /\ e.body \in 1 .. scan
<1>1. e \in Datagram /\ Genuine(e) BY Road DEF OnTheWay
<1> QED BY <1>1 DEF Genuine, GenuineAfter

\* What Process puts before the host is new.
LEMMA NewUpload ==
  ASSUME Numbered, NEW n \in 1 .. MaxChunks, NEW angle \in BOOLEAN, Process(n, angle)
  PROVE  /\ Shape(left') /\ left' \in Seq(Datagram) /\ Of(left', scan + 1, report_id + 1)
         /\ \E p \in 1 .. Len(left') : left'[p].type = "text"
         /\ \E p \in 1 .. Len(left') : left'[p].type = "summary"
         /\ scan' = scan + 1 /\ scan + 1 \in Nat /\ left = <<>> /\ busy' = FALSE
         /\ report_id' = report_id + 1
         /\ UNCHANGED <<hostVars, inbox, arrived, count, now>>
<1>1. /\ scan + 1 \in Nat /\ report_id + 1 \in Nat /\ report_id' = report_id + 1
      /\ n \in Nat \ {0}
  BY ReportAssumption DEF Numbered, Process, NextReport
<1>2. left' = WholeUpload(scan + 1, report_id + 1, n, angle)
  BY <1>1 DEF Process, WholeUpload
<1>3. UploadShaped(left', scan + 1, report_id + 1) BY <1>1, <1>2, UploadShape
<1> QED BY <1>1, <1>3 DEF Process, Shape, UploadShaped

LEMMA NewRoad ==
  ASSUME IInv, OnTheWay', NEW n \in 1 .. MaxChunks, NEW angle \in BOOLEAN, Process(n, angle),
         NEW e \in OnTheRoad'
  PROVE  e \in OnTheRoad \/ e.body = scan + 1
<1>1. DOMAIN inbox' = 1 .. Len(inbox') /\ DOMAIN left' = 1 .. Len(left') BY DEF OnTheWay
<1>2. e \in Range(inbox)' \/ e \in Range(left)' BY DEF OnTheRoad
<1>3. inbox' = inbox /\ Of(left', scan + 1, report_id + 1) BY NewUpload DEF IInv
<1> QED BY <1>1, <1>2, <1>3 DEF Range, Of, OnTheRoad

LEMMA NewLine ==
  ASSUME IInv, InOrder, CopiesClose, NEW n \in 1 .. MaxChunks, NEW angle \in BOOLEAN,
         Process(n, angle)
  PROVE  InOrder' /\ CopiesClose'
<1>1. /\ Ordered(left') /\ left' \in Seq(Datagram) /\ Of(left', scan + 1, report_id + 1)
      /\ inbox' = inbox
  BY NewUpload DEF IInv, Shape
<1>2. /\ \A p \in 1 .. Len(inbox) : inbox[p].body \in 1 .. scan
      /\ scan \in Nat
  BY DEF IInv, OnTheWay, Numbered, Genuine, GenuineAfter
<1>3. \A p, q \in 1 .. Len(left') : p < q => Before(left'[p], left'[q])
  BY <1>1 DEF Ordered, Of, Before
<1>4. \A p \in 1 .. Len(inbox), q \in 1 .. Len(left') : inbox[p].body < left'[q].body
  BY <1>1, <1>2 DEF Of
<1>5. InOrder' BY <1>1, <1>3, <1>4 DEF InOrder, Before
<1>6. \A p, q \in 1 .. Len(left') : Twin(left'[p], left'[q]) => q <= p + 2
  <2> SUFFICES ASSUME NEW p \in 1 .. Len(left'), NEW q \in 1 .. Len(left'), Twin(left'[p], left'[q])
               PROVE  q <= p + 2
    OBVIOUS
  <2>1. CASE p < q BY <1>1, <2>1 DEF Ordered
  <2>2. CASE ~(p < q) BY <1>1, <2>2
  <2> QED BY <2>1, <2>2
<1>7. \A p \in 1 .. Len(inbox), q \in 1 .. Len(left') : ~Twin(inbox[p], left'[q])
  BY <1>1, <1>2 DEF Of, Twin
<1>8. CopiesClose' BY <1>1, <1>6, <1>7 DEF CopiesClose
<1> QED BY <1>5, <1>8

LEMMA MovedLine ==
  ASSUME OnTheWay, InOrder, CopiesClose, NEW m, Moved(m)
  PROVE  InOrder' /\ CopiesClose'
<1>1. m \in Nat /\ \A q \in 1 .. Len(left') : /\ q + m \in 1 .. Len(left) /\ m >= 1
                                              /\ left'[q] = left[q + m]
  <2>1. left \in Seq(Datagram) BY DEF OnTheWay
  <2>2. \A k \in 1 .. Len(left) : left # <<>> BY <2>1
  <2> QED BY <2>2 DEF Moved
<1>2. /\ Len(inbox) \in Nat /\ Len(inbox') \in Nat /\ Len(left) \in Nat /\ Len(left') \in Nat
      /\ \A p \in 1 .. Len(inbox) : inbox'[p] = inbox[p]
      /\ \A p \in 1 .. Len(inbox') :
           \/ p \in 1 .. Len(inbox)
           \/ p = Len(inbox) + 1 /\ 1 \in 1 .. Len(left) /\ inbox'[p] = left[1]
  BY MovedInbox
<1>3. \A p, q \in 1 .. Len(left') : p < q => Before(left'[p], left'[q])
  <2> SUFFICES ASSUME NEW p \in 1 .. Len(left'), NEW q \in 1 .. Len(left'), p < q
               PROVE  Before(left'[p], left'[q])
    OBVIOUS
  <2>1. p + m < q + m BY <1>1
  <2> QED BY <1>1, <2>1 DEF InOrder
<1>4. ASSUME NEW p \in 1 .. Len(inbox'), NEW q \in 1 .. Len(inbox'), p < q
      PROVE  Before(inbox'[p], inbox'[q])
  <2>1. p \in 1 .. Len(inbox) BY <1>2, <1>4
  <2>2. CASE q \in 1 .. Len(inbox) BY <1>2, <1>4, <2>1, <2>2 DEF InOrder
  <2>3. CASE 1 \in 1 .. Len(left) /\ inbox'[q] = left[1] BY <1>2, <2>1, <2>3 DEF InOrder
  <2> QED BY <1>2, <2>2, <2>3
<1>5. ASSUME NEW p \in 1 .. Len(inbox'), NEW q \in 1 .. Len(left')
      PROVE  Before(inbox'[p], left'[q])
  <2>1. CASE p \in 1 .. Len(inbox) BY <1>1, <1>2, <2>1 DEF InOrder
  <2>2. CASE 1 \in 1 .. Len(left) /\ inbox'[p] = left[1]
    <3>1. 1 < q + m BY <1>1
    <3> QED BY <1>1, <2>2, <3>1 DEF InOrder
  <2> QED BY <1>2, <2>1, <2>2
<1>6. InOrder' BY <1>3, <1>4, <1>5 DEF InOrder
<1>7. \A p, q \in 1 .. Len(left') : Twin(left'[p], left'[q]) => q <= p + 2
  <2> SUFFICES ASSUME NEW p \in 1 .. Len(left'), NEW q \in 1 .. Len(left'), Twin(left'[p], left'[q])
               PROVE  q <= p + 2
    OBVIOUS
  <2>1. q + m <= (p + m) + 2 BY <1>1 DEF CopiesClose
  <2> QED BY <1>1, <2>1
<1>8. ASSUME NEW p \in 1 .. Len(inbox'), NEW q \in 1 .. Len(left'), Twin(inbox'[p], left'[q])
      PROVE  q <= 2
  <2>1. CASE p \in 1 .. Len(inbox)
    <3>1. q + m <= 2 BY <1>1, <1>2, <1>8, <2>1 DEF CopiesClose
    <3> QED BY <1>1, <3>1
  <2>2. CASE 1 \in 1 .. Len(left) /\ inbox'[p] = left[1]
    <3>1. q + m <= 1 + 2 BY <1>1, <1>8, <2>2 DEF CopiesClose
    <3> QED BY <1>1, <3>1
  <2> QED BY <1>2, <2>1, <2>2
<1>9. CopiesClose' BY <1>7, <1>8 DEF CopiesClose
<1> QED BY <1>6, <1>9

LEMMA RoutedLine ==
  ASSUME OnTheWay, InOrder, CopiesClose, Route
  PROVE  /\ InOrder' /\ CopiesClose'
         /\ \A e \in OnTheRoad' : Before(inbox[1], e)
<1>1. /\ Len(inbox) \in Nat /\ Len(inbox) >= 1 /\ Len(inbox') = Len(inbox) - 1 /\ left' = left
      /\ \A p \in 1 .. Len(inbox') : p + 1 \in 1 .. Len(inbox) /\ inbox'[p] = inbox[p + 1]
      /\ inbox' \in Seq(Datagram)
  BY Routed
<1>2. ASSUME NEW p \in 1 .. Len(inbox'), NEW q \in 1 .. Len(inbox'), p < q
      PROVE  Before(inbox'[p], inbox'[q])
  <2>1. p + 1 < q + 1 BY <1>1, <1>2
  <2> QED BY <1>1, <2>1 DEF InOrder
<1>3. InOrder' BY <1>1, <1>2 DEF InOrder
<1>4. CopiesClose' BY <1>1 DEF CopiesClose
<1>5. ASSUME NEW e \in OnTheRoad' PROVE Before(inbox[1], e)
  <2>1. DOMAIN inbox' = 1 .. Len(inbox') /\ DOMAIN left' = 1 .. Len(left')
    BY <1>1 DEF OnTheWay
  <2>2. (\E p \in 1 .. Len(inbox') : inbox'[p] = e) \/ \E q \in 1 .. Len(left') : left'[q] = e
    BY <2>1, <1>5 DEF OnTheRoad, Range
  <2>3. CASE \E p \in 1 .. Len(inbox') : inbox'[p] = e
    <3>1. PICK p \in 1 .. Len(inbox') : inbox'[p] = e BY <2>3
    <3>2. 1 \in 1 .. Len(inbox) /\ p + 1 \in 1 .. Len(inbox) /\ 1 < p + 1 /\ inbox[p + 1] = e
      BY <1>1, <3>1
    <3> QED BY <3>2 DEF InOrder
  <2>4. CASE \E q \in 1 .. Len(left') : left'[q] = e
    <3>1. 1 \in 1 .. Len(inbox) BY <1>1
    <3> QED BY <1>1, <2>4, <3>1 DEF InOrder
  <2> QED BY <2>2, <2>3, <2>4
<1> QED BY <1>3, <1>4, <1>5

-----------------------------------------------------------------------------
(***************************************************************************)
(* The time a copy can take                                                *)
(***************************************************************************)
LEMMA RecentMoved ==
  ASSUME OnTheWay, now \in Nat, NEW stamp \in Nat, NEW e, Recent(stamp, e), NEW m, Moved(m)
  PROVE  Recent(stamp, e)'
<1>1. /\ m \in Nat /\ now' = now /\ Spent' = 0
      /\ \A q \in 1 .. Len(left') : q + m \in 1 .. Len(left) /\ left'[q] = left[q + m]
  BY DEF Moved, Spent
<1>2. Spent \in {0, 1} BY DEF Spent
<1>3. ASSUME NEW p \in 1 .. Len(inbox'), Twin(inbox'[p], e) PROVE now <= stamp + 2
  <2>1. CASE p \in 1 .. Len(inbox) BY <1>3, <2>1, MovedInbox DEF Recent
  <2>2. CASE 1 \in 1 .. Len(left) /\ inbox'[p] = left[1]
    <3>1. now + 1 <= stamp + 2 + Spent BY <1>3, <2>2 DEF Recent
    <3> QED BY <1>2, <3>1
  <2> QED BY <2>1, <2>2, MovedInbox
<1>4. ASSUME NEW q \in 1 .. Len(left'), Twin(left'[q], e) PROVE now + q <= stamp + 2
  <2>1. q + m \in 1 .. Len(left) /\ now + (q + m) <= stamp + 2 + Spent
    BY <1>1, <1>4 DEF Recent
  <2>2. m >= 1 BY <2>1 DEF Moved, OnTheWay
  <2> QED BY <1>1, <1>2, <2>1, <2>2
<1>5. stamp <= now BY DEF Recent
<1>6. \A q \in 1 .. Len(left') : Twin(left'[q], e) => now' + q <= stamp + 2 + Spent'
  BY <1>1, <1>4
<1> QED BY <1>1, <1>3, <1>5, <1>6 DEF Recent

LEMMA RecentRouted ==
  ASSUME OnTheWay, Route, NEW stamp, NEW e, Recent(stamp, e)
  PROVE  Recent(stamp, e)'
BY Routed DEF Recent, Spent

LEMMA RecentTick ==
  ASSUME OnTheWay, Clocks, Tick, NEW stamp \in Nat, NEW e, Recent(stamp, e)
  PROVE  Recent(stamp, e)'
<1>1. /\ now' = now + 1 /\ now \in Nat /\ inbox' = <<>> /\ left' = left /\ Spent' = 1
      /\ left # <<>> => Spent = 0
  BY DEF Tick, Clocks, Spent
<1>2. \A q \in 1 .. Len(left) : left # <<>> BY DEF OnTheWay
<1>3. \A q \in 1 .. Len(left') : Twin(left'[q], e) => now' + q <= stamp + 2 + Spent'
  BY <1>1, <1>2 DEF Recent
<1>4. stamp <= now' BY <1>1 DEF Recent
<1>5. Len(inbox') = 0 BY <1>1
<1> QED BY <1>1, <1>3, <1>4, <1>5 DEF Recent

\* What is handled now: its copies come within two more datagrams.
LEMMA RecentNow ==
  ASSUME OnTheWay, Clocks, CopiesClose, Route, NEW e, Twin(inbox[1], e)
  PROVE  Recent(now, e)'
<1>1. /\ now' = now /\ now \in Nat /\ left' = left /\ 1 \in 1 .. Len(inbox)
      /\ Spent' = Spent /\ Spent \in {0, 1}
  BY Routed DEF Clocks, Spent
<1>2. ASSUME NEW q \in 1 .. Len(left), Twin(left[q], e) PROVE q <= 2
  <2>1. Twin(inbox[1], left[q]) BY <1>2 DEF Twin, SameItem
  <2> QED BY <1>1, <2>1 DEF CopiesClose
<1>3. \A q \in 1 .. Len(left') : Twin(left'[q], e) => now' + q <= now + 2 + Spent'
  BY <1>1, <1>2
<1>4. Len(inbox') \in Nat BY Routed
<1> QED BY <1>1, <1>3, <1>4 DEF Recent

\* Process puts no copy of what is on the road before the host.
LEMMA RecentProcessed ==
  ASSUME IInv, NEW n \in 1 .. MaxChunks, NEW angle \in BOOLEAN, Process(n, angle),
         NEW stamp, NEW e \in OnTheRoad, Recent(stamp, e)
  PROVE  Recent(stamp, e)'
<1>1. e.body # scan + 1 BY OnTheRoadGenuine DEF IInv, Numbered
<1>2. /\ Of(left', scan + 1, report_id + 1) /\ now' = now /\ inbox' = inbox BY NewUpload DEF IInv
<1>3. \A q \in 1 .. Len(left') : ~Twin(left'[q], e) BY <1>1, <1>2 DEF Of, Twin
<1> QED BY <1>2, <1>3 DEF Recent

\* While a copy is on the road, the stamp has not expired.
LEMMA RecentInTime ==
  ASSUME OnTheWay, Clocks, NEW stamp \in Nat, NEW e \in OnTheRoad, Recent(stamp, e)
  PROVE  stamp <= now /\ now <= stamp + 2
<1>1. Twin(e, e) BY DEF Twin, SameItem
<1>2. Spent \in {0, 1} BY DEF Spent
<1>3. CASE \E p \in 1 .. Len(inbox) : inbox[p] = e BY <1>1, <1>3 DEF Recent
<1>4. CASE \E q \in 1 .. Len(left) : left[q] = e
  <2>1. PICK q \in 1 .. Len(left) : left[q] = e BY <1>4
  <2>2. now + q <= stamp + 2 + Spent /\ q >= 1 BY <1>1, <2>1 DEF Recent, OnTheWay
  <2> QED BY <1>2, <2>2 DEF Recent, Clocks
<1> QED BY <1>3, <1>4, Road

-----------------------------------------------------------------------------
(***************************************************************************)
(* Nothing is shown twice: the steps                                       *)
(***************************************************************************)
\* What an entry of shown says of the next state, for the entry by itself.
LEMMA PastOf ==
  ASSUME NEW k, NEW x, shown'[k] = x
  PROVE  /\ ChunkPast(x)' => ChunkPast(shown[k])'
         /\ SummaryPast(x)' => SummaryPast(shown[k])'
<1>1. ChunkPast(x)' => ChunkPast(shown[k])'
  BY DEF ChunkPast, Gone, Remembered, Has, Recent, SameItem
<1>2. SummaryPast(x)' => SummaryPast(shown[k])'
  BY DEF SummaryPast, Recent
<1> QED BY <1>1, <1>2

\* Only what Process sends is new on the road.
NothingOld == \A e \in OnTheRoad' : e \in OnTheRoad \/ e.body = scan + 1

StampsStay ==
  \A stamp \in Nat, e \in OnTheRoad : Recent(stamp, e) => Recent(stamp, e)'

LEMMA PastRests ==
  ASSUME Numbered, Past, UNCHANGED assembler, scan' \in {scan, scan + 1}, NothingOld
  PROVE  Past'
<1>1. scan \in Nat /\ 1 .. scan \subseteq 1 .. scan' BY DEF Numbered
<1> QED BY <1>1 DEF Past, NothingOld

LEMMA GoneRests ==
  ASSUME Numbered, NEW x, NEW i, Gone(x, i), x.pieces[i] \in 1 .. scan, UNCHANGED assembler,
         NothingOld
  PROVE  Gone(x, i)'
BY DEF Gone, Has, Numbered, NothingOld, SameItem

LEMMA RememberedRests ==
  ASSUME Numbered, Clocks, NEW x, x.type \in Uploads,
         \A i \in DOMAIN x.pieces : x.pieces[i] \in 1 .. scan,
         Remembered(x), UNCHANGED assembler, NothingOld, StampsStay
  PROVE  Remembered(x)'
<1> SUFFICES ASSUME NEW e \in OnTheRoad', SameItem(e, x), Has(x.pieces, e.index, e.body)
             PROVE  /\ x.key \in DOMAIN assembler[x.type].completed
                    /\ Recent(assembler[x.type].completed[x.key], e)'
  BY DEF Remembered
<1>1. e.body \in 1 .. scan BY DEF Has
<1>2. e \in OnTheRoad BY <1>1 DEF NothingOld, Numbered
<1>3. /\ x.key \in DOMAIN assembler[x.type].completed
      /\ Recent(assembler[x.type].completed[x.key], e)
  BY <1>2 DEF Remembered
<1>4. assembler[x.type].completed[x.key] \in Nat BY <1>3 DEF Clocks
<1>5. \A stamp \in Nat : Recent(stamp, e) => Recent(stamp, e)' BY <1>2 DEF StampsStay
<1> QED BY <1>3, <1>4, <1>5 DEF Recent

LEMMA ChunkRests ==
  ASSUME Numbered, Clocks, NEW x, ChunkPast(x), UNCHANGED assembler, scan' \in {scan, scan + 1},
         NothingOld, StampsStay
  PROVE  ChunkPast(x)'
<1>1. scan \in Nat /\ 1 .. scan \subseteq 1 .. scan' BY DEF Numbered
<1>2. CASE \E i \in DOMAIN x.pieces : Gone(x, i)
  <2>1. PICK i \in DOMAIN x.pieces : Gone(x, i) BY <1>2
  <2>2. Gone(x, i)' BY <2>1, GoneRests DEF ChunkPast
  <2> QED BY <1>1, <2>2 DEF ChunkPast
<1>3. CASE Remembered(x)
  <2>1. Remembered(x)' BY <1>3, RememberedRests DEF ChunkPast
  <2> QED BY <1>1, <2>1 DEF ChunkPast
<1> QED BY <1>2, <1>3 DEF ChunkPast

LEMMA SummaryRests ==
  ASSUME Numbered, Clocks, NEW x, SummaryPast(x), UNCHANGED last, scan' \in {scan, scan + 1},
         NothingOld, StampsStay
  PROVE  SummaryPast(x)'
<1>1. scan \in Nat /\ 1 .. scan \subseteq 1 .. scan' BY DEF Numbered
<1>2. x.key[1] \in 1 .. scan /\ last.seen \in Nat BY DEF SummaryPast, Clocks
<1>3. ASSUME NEW e \in OnTheRoad'
      PROVE  /\ x.key[1] < e.body \/ (x.key[1] = e.body /\ e.type = "summary")
             /\ e.body = x.key[1] => last'.scan_id = e.body /\ Recent(last.seen, e)'
  <2>1. CASE e.body = scan + 1 BY <1>1, <1>2, <2>1
  <2>2. CASE e \in OnTheRoad
    <3>1. \A stamp \in Nat : Recent(stamp, e) => Recent(stamp, e)' BY <2>2 DEF StampsStay
    <3>2. Recent(last.seen, e) => Recent(last.seen, e)' BY <1>2, <3>1 DEF Recent
    <3> QED BY <2>2, <3>2 DEF SummaryPast
  <2> QED BY <2>1, <2>2 DEF NothingOld
<1> QED BY <1>1, <1>2, <1>3 DEF SummaryPast

\* A step that leaves the host alone.
LEMMA HostRests ==
  ASSUME Numbered, OnceInv, UNCHANGED hostVars, scan' \in {scan, scan + 1},
         NothingOld, StampsStay
  PROVE  Past' /\ ShownPast' /\ ShownOnce'
<1>1. UNCHANGED <<assembler, last, shown>> BY DEF hostVars
<1>2. Past' BY <1>1, PastRests DEF OnceInv
<1>3. ASSUME NEW k \in 1 .. Len(shown')
      PROVE  IF shown'[k].type = "summary" THEN SummaryPast(shown[k])' ELSE ChunkPast(shown[k])'
  <2> DEFINE x == shown[k]
  <2>1. /\ shown'[k] = x
        /\ IF x.type = "summary" THEN SummaryPast(x) ELSE ChunkPast(x)
    BY <1>1, <1>3 DEF OnceInv, ShownPast
  <2>2. PICK y : y = x OBVIOUS
  <2>3. IF y.type = "summary" THEN SummaryPast(y) ELSE ChunkPast(y) BY <2>1, <2>2
  <2>4. IF y.type = "summary" THEN SummaryPast(y)' ELSE ChunkPast(y)'
    BY <1>1, <2>3, ChunkRests, SummaryRests DEF OnceInv
  <2> QED BY <2>1, <2>2, <2>4, PastOf
<1>4. ShownPast' BY <1>3 DEF ShownPast
<1>5. ShownOnce' BY <1>1 DEF OnceInv, ShownOnce
<1> QED BY <1>2, <1>4, <1>5

LEMMA InitOnce == Init => OnceInv
<1> SUFFICES ASSUME Init PROVE OnceInv OBVIOUS
<1>1. left = <<>> /\ inbox = <<>> /\ shown = <<>> BY DEF Init
<1>2. 1 .. Len(left) = {} /\ 1 .. Len(inbox) = {} /\ 1 .. Len(shown) = {} BY <1>1
<1>3. Clocks BY DEF Init, Clocks, Nothing, NoSummary, Uploads
<1>4. InOrder /\ CopiesClose /\ ShownPast /\ ShownOnce
  BY <1>2 DEF InOrder, CopiesClose, ShownPast, ShownOnce
<1>5. Past BY DEF Init, Past, Nothing, Uploads
<1> QED BY <1>3, <1>4, <1>5 DEF OnceInv

LEMMA MovedOnce ==
  ASSUME IInv, IInv', OnceInv, NEW m, Moved(m)
  PROVE  OnceInv'
<1>0. OnTheWay /\ OnTheWay' /\ Numbered BY DEF IInv
<1>1. UNCHANGED <<hostVars, assembler, last, now, scan>> /\ busy' \in BOOLEAN
  BY DEF Moved, hostVars
<1>2. Clocks' BY <1>1 DEF OnceInv, Clocks
<1>3. InOrder' /\ CopiesClose' BY <1>0, MovedLine DEF OnceInv
<1>4. NothingOld BY <1>0, RoadShrinks DEF NothingOld
<1>5. StampsStay BY <1>0, RecentMoved DEF StampsStay, OnceInv, Clocks
<1>6. Past' /\ ShownPast' /\ ShownOnce' BY <1>0, <1>1, <1>4, <1>5, HostRests
<1> QED BY <1>2, <1>3, <1>6 DEF OnceInv

LEMMA TickOnce ==
  ASSUME IInv, IInv', OnceInv, Tick
  PROVE  OnceInv'
<1>0. OnTheWay /\ OnTheWay' /\ Numbered BY DEF IInv
<1>1. /\ UNCHANGED <<hostVars, assembler, last, scan, left, inbox>> /\ busy' \in BOOLEAN
      /\ now' = now + 1
  BY DEF Tick, hostVars
<1>2. Clocks' BY <1>1 DEF OnceInv, Clocks
<1>3. InOrder' /\ CopiesClose' BY <1>1 DEF OnceInv, InOrder, CopiesClose
<1>4. NothingOld BY <1>1 DEF NothingOld, OnTheRoad
<1>5. StampsStay BY <1>0, RecentTick DEF StampsStay, OnceInv
<1>6. Past' /\ ShownPast' /\ ShownOnce' BY <1>0, <1>1, <1>4, <1>5, HostRests
<1> QED BY <1>2, <1>3, <1>6 DEF OnceInv

LEMMA ProcessOnce ==
  ASSUME IInv, IInv', OnceInv, NEW n \in 1 .. MaxChunks, NEW angle \in BOOLEAN, Process(n, angle)
  PROVE  OnceInv'
<1>0. OnTheWay /\ OnTheWay' /\ Numbered BY DEF IInv
<1>1. /\ UNCHANGED <<hostVars, assembler, last, now>> /\ busy' \in BOOLEAN /\ scan' = scan + 1
  BY DEF Process, hostVars
<1>2. Clocks' BY <1>1 DEF OnceInv, Clocks
<1>3. InOrder' /\ CopiesClose' BY NewLine DEF OnceInv
<1>4. NothingOld BY <1>0, NewRoad DEF NothingOld
<1>5. StampsStay BY RecentProcessed DEF StampsStay
<1>6. Past' /\ ShownPast' /\ ShownOnce' BY <1>0, <1>1, <1>4, <1>5, HostRests
<1> QED BY <1>2, <1>3, <1>6 DEF OnceInv

-----------------------------------------------------------------------------
LEMMA RouteRests ==
  ASSUME IInv, IInv', Route
  PROVE  NothingOld /\ StampsStay /\ scan' = scan
<1>0. OnTheWay /\ OnTheWay' BY DEF IInv
<1>1. NothingOld BY <1>0, RoutedRoad DEF NothingOld
<1>2. StampsStay BY <1>0, RecentRouted DEF StampsStay
<1> QED BY <1>0, <1>1, <1>2, Routed

\* Something more is shown, unlike all that was.
LEMMA ShownMore ==
  ASSUME Displayed, ShownOnce, NEW x, shown' = Append(shown, x),
         \A k \in 1 .. Len(shown) : shown[k] # x
  PROVE  /\ ShownOnce'
         /\ Len(shown) \in Nat /\ Len(shown') = Len(shown) + 1 /\ shown'[Len(shown) + 1] = x
         /\ \A k \in 1 .. Len(shown) : shown'[k] = shown[k]
<1>1. PICK S : shown \in Seq(S) BY DEF Displayed
<1>2. shown \in Seq(S \union {x}) BY <1>1
<1>3. /\ Len(shown) \in Nat /\ Len(shown') = Len(shown) + 1 /\ shown'[Len(shown) + 1] = x
      /\ \A k \in 1 .. Len(shown) : shown'[k] = shown[k]
  BY <1>2
<1>4. ShownOnce'
  <2> SUFFICES ASSUME NEW k \in 1 .. Len(shown'), NEW j \in 1 .. Len(shown'), k # j
               PROVE  shown'[k] # shown'[j]
    BY DEF ShownOnce
  <2> QED BY <1>3 DEF ShownOnce
<1> QED BY <1>3, <1>4

LEMMA SummaryOnce ==
  ASSUME Window > 2, IInv, IInv', OnceInv, Route, inbox[1].type = "summary", TakeSummary(inbox[1])
  PROVE  OnceInv'
<1> DEFINE d == inbox[1]
<1>0. /\ OnTheWay /\ OnTheWay' /\ Numbered /\ Displayed /\ NothingOld /\ StampsStay
      /\ scan' = scan /\ d \in OnTheRoad
  BY RouteRests, RoutedRoad DEF IInv
<1>1. /\ d \in Datagram /\ Genuine(d) /\ d.type = "summary" /\ d.key = <<d.body>>
      /\ d.key[1] = d.body /\ d.index = 0 /\ d.body \in 1 .. scan
      /\ UNCHANGED <<left, busy, now>>
  BY <1>0, Routed, DatagramFields DEF Genuine, GenuineAfter
<1>2. /\ last' = [scan_id |-> d.body, seen |-> now] /\ UNCHANGED assembler
      /\ IF IsRepeat(d) THEN UNCHANGED shown ELSE Show(d, With(Nothing, 0, d.body))
  BY <1>1 DEF TakeSummary
<1>3. \A e \in OnTheRoad' : Before(d, e) BY <1>0, RoutedLine DEF OnceInv
<1>4. Clocks' BY <1>0, <1>1, <1>2 DEF OnceInv, Clocks, Numbered
<1>5. InOrder' /\ CopiesClose' BY <1>0, RoutedLine DEF OnceInv
<1>6. Past' BY <1>0, <1>2, PastRests DEF OnceInv
<1> HIDE DEF d
<1>7. ASSUME NEW x, x.key[1] \in 1 .. scan, x.key[1] <= d.body
      PROVE  SummaryPast(x)'
  <2> SUFFICES ASSUME NEW e \in OnTheRoad'
               PROVE  /\ x.key[1] < e.body \/ (x.key[1] = e.body /\ e.type = "summary")
                      /\ e.body = x.key[1] => last'.scan_id = e.body /\ Recent(last.seen, e)'
    BY <1>0, <1>7 DEF SummaryPast
  <2>1. e \in OnTheRoad /\ e \in Datagram /\ e.body \in Nat /\ scan \in Nat
    BY <1>0, RoutedRoad, OnTheRoadGenuine, DatagramFields DEF Numbered
  <2>2. d.body < e.body \/ (d.body = e.body /\ e.type = "summary") BY <1>1, <1>3 DEF Before
  <2>3. ASSUME e.body = x.key[1] PROVE last'.scan_id = e.body /\ Recent(last.seen, e)'
    <3>1. d.body = e.body /\ e.type = "summary" BY <1>1, <1>7, <2>1, <2>2, <2>3
    <3>2. Twin(d, e) BY <1>1, <2>1, <3>1, DatagramFields DEF Twin, SameItem
    <3>3. Recent(now, e)' BY <1>0, <3>2, RecentNow DEF d, OnceInv
    <3>4. now' = now /\ last'.seen = now BY <1>1, <1>2
    <3> QED BY <1>2, <3>1, <3>3, <3>4 DEF Recent
  <2> QED BY <1>1, <1>7, <2>1, <2>2, <2>3
<1>8. \A k \in 1 .. Len(shown) : shown[k].type = "summary" =>
        /\ shown[k].key[1] \in 1 .. scan /\ shown[k].key[1] <= d.body
        /\ shown[k].key[1] = d.body => IsRepeat(d)
  <2> SUFFICES ASSUME NEW k \in 1 .. Len(shown), shown[k].type = "summary"
               PROVE  /\ shown[k].key[1] \in 1 .. scan /\ shown[k].key[1] <= d.body
                      /\ shown[k].key[1] = d.body => IsRepeat(d)
    OBVIOUS
  <2>1. SummaryPast(shown[k]) BY DEF OnceInv, ShownPast
  <2>2. /\ shown[k].key[1] \in 1 .. scan /\ shown[k].key[1] <= d.body
        /\ shown[k].key[1] = d.body => last.scan_id = d.body /\ Recent(last.seen, d)
    BY <1>0, <1>1, <2>1 DEF SummaryPast
  <2>3. ASSUME shown[k].key[1] = d.body PROVE IsRepeat(d)
    <3>1. last.seen \in Nat /\ now \in Nat /\ last.scan_id = d.body BY <2>2, <2>3 DEF OnceInv, Clocks
    <3>2. last.seen <= now /\ now <= last.seen + 2
      BY <1>0, <2>2, <2>3, <3>1, RecentInTime DEF OnceInv
    <3>3. Window \in Nat BY ReportAssumption
    <3>4. now - last.seen < Window BY <3>1, <3>2, <3>3
    <3> QED BY <1>1, <3>1, <3>4 DEF IsRepeat
  <2> QED BY <2>2, <2>3
<1>9. ASSUME NEW k \in 1 .. Len(shown)
      PROVE  \A x : x = shown[k] => IF x.type = "summary" THEN SummaryPast(x)' ELSE ChunkPast(x)'
  <2>1. IF shown[k].type = "summary" THEN SummaryPast(shown[k]) ELSE ChunkPast(shown[k])
    BY DEF OnceInv, ShownPast
  <2>2. ASSUME NEW x, x = shown[k] PROVE IF x.type = "summary" THEN SummaryPast(x)' ELSE ChunkPast(x)'
    <3>1. CASE x.type = "summary" BY <1>7, <1>8, <2>2, <3>1
    <3>2. CASE x.type # "summary"
      <4>1. ChunkPast(x) BY <2>1, <2>2, <3>2
      <4>2. ChunkPast(x)' BY <1>0, <1>2, <4>1, ChunkRests DEF OnceInv
      <4> QED BY <3>2, <4>2
    <3> QED BY <3>1, <3>2
  <2> QED BY <2>2
<1>10. CASE UNCHANGED shown
  <2>1. ASSUME NEW k \in 1 .. Len(shown')
        PROVE  IF shown'[k].type = "summary" THEN SummaryPast(shown[k])' ELSE ChunkPast(shown[k])'
    <3>1. k \in 1 .. Len(shown) /\ shown'[k] = shown[k] BY <1>10
    <3>2. PICK y : y = shown[k] OBVIOUS
    <3>3. IF y.type = "summary" THEN SummaryPast(y)' ELSE ChunkPast(y)' BY <1>9, <3>1, <3>2
    <3>4. shown'[k] = y BY <3>1, <3>2
    <3> QED BY <3>3, <3>4, PastOf
  <2>2. ShownPast' BY <2>1 DEF ShownPast
  <2>3. ShownOnce' BY <1>10 DEF OnceInv, ShownOnce
  <2> QED BY <1>4, <1>5, <1>6, <2>2, <2>3 DEF OnceInv
<1>11. CASE ~IsRepeat(d)
  <2>1. PICK x : x = [type |-> d.type, key |-> d.key, pieces |-> With(Nothing, 0, d.body)]
    OBVIOUS
  <2>2. x.type = "summary" /\ x.key[1] = d.body BY <1>1, <2>1
  <2>3. shown' = Append(shown, x) BY <1>2, <1>11, <2>1 DEF Show
  <2>4. \A k \in 1 .. Len(shown) : shown[k] # x BY <1>8, <1>11, <2>2
  <2>5. /\ ShownOnce'
        /\ Len(shown) \in Nat /\ Len(shown') = Len(shown) + 1 /\ shown'[Len(shown) + 1] = x
        /\ \A k \in 1 .. Len(shown) : shown'[k] = shown[k]
    BY <1>0, <2>3, <2>4, ShownMore DEF OnceInv
  <2>6. SummaryPast(x)' BY <1>0, <1>1, <1>7, <2>2 DEF Numbered
  <2>7. ASSUME NEW k \in 1 .. Len(shown')
        PROVE  IF shown'[k].type = "summary" THEN SummaryPast(shown[k])' ELSE ChunkPast(shown[k])'
    <3>1. PICK y : y = shown'[k] OBVIOUS
    <3>2. CASE k \in 1 .. Len(shown)
      <4>1. y = shown[k] BY <2>5, <3>1, <3>2
      <4>2. IF y.type = "summary" THEN SummaryPast(y)' ELSE ChunkPast(y)' BY <1>9, <3>2, <4>1
      <4> QED BY <3>1, <4>2, PastOf
    <3>3. CASE k = Len(shown) + 1
      <4>1. shown'[k] = x BY <2>5, <3>3
      <4> QED BY <2>2, <2>6, <4>1, PastOf
    <3> QED BY <2>5, <3>2, <3>3
  <2>8. ShownPast' BY <2>7 DEF ShownPast
  <2> QED BY <1>4, <1>5, <1>6, <2>5, <2>8 DEF OnceInv
<1> QED BY <1>2, <1>10, <1>11

\* What is in an assembler after a chunk: what was there, and the chunk.
LEMMA FromWhat ==
  ASSUME DOMAIN assembler = Uploads, NEW d, d.type \in Uploads, AddChunk(d),
         NEW type \in Uploads, NEW key, NEW i,
         key \in DOMAIN assembler'[type].partial,
         i \in DOMAIN assembler'[type].partial[key].pieces
  PROVE  \/ /\ key \in DOMAIN assembler[type].partial
            /\ i \in DOMAIN assembler[type].partial[key].pieces
            /\ assembler'[type].partial[key].pieces[i] = assembler[type].partial[key].pieces[i]
         \/ /\ type = d.type /\ key = d.key /\ i = d.index
            /\ assembler'[type].partial[key].pieces[i] = d.body
<1>1. CASE type # d.type \/ key # d.key BY <1>1, Added DEF Others
<1>2. CASE type = d.type /\ key = d.key
  <2>1. CASE Dropped(d) BY <1>2, <2>1 DEF Dropped
  <2>2. CASE d.index \in DOMAIN Old(d) /\ Held(d, Old(d))
    <3>1. assembler'[type].partial[key].pieces = Old(d) BY <1>2, <2>2 DEF Held
    <3>2. i \in DOMAIN Old(d) BY <3>1
    <3> QED BY <1>2, <3>1, <3>2, OldPieces DEF Gathers
  <2>3. CASE Held(d, Pieces(d))
    <3>1. assembler'[type].partial[key].pieces = Pieces(d) BY <1>2, <2>3 DEF Held
    <3>2. CASE i = d.index BY <1>2, <3>1, <3>2, NewPieces
    <3>3. CASE i # d.index
      <4>1. i \in DOMAIN Old(d) /\ Pieces(d)[i] = Old(d)[i] BY <3>1, <3>3, NewPieces
      <4> QED BY <1>2, <3>1, <4>1, OldPieces DEF Gathers
    <3> QED BY <3>2, <3>3
  <2>4. CASE Finishes(d) BY <1>2, <2>4 DEF Finishes
  <2> QED BY <2>1, <2>2, <2>3, <2>4, Added
<1> QED BY <1>1, <1>2

\* The same of the pieces that are put together.
LEMMA PiecesFrom ==
  ASSUME NEW d, NEW i \in DOMAIN Pieces(d)
  PROVE  \/ i = d.index /\ Pieces(d)[i] = d.body
         \/ /\ i # d.index /\ i \in DOMAIN Old(d) /\ Pieces(d)[i] = Old(d)[i]
            /\ d.key \in DOMAIN assembler[d.type].partial
            /\ Has(assembler[d.type].partial[d.key].pieces, i, Pieces(d)[i])
<1>1. CASE i = d.index BY <1>1, NewPieces
<1>2. CASE i # d.index
  <2>1. i \in DOMAIN Old(d) /\ Pieces(d)[i] = Old(d)[i] BY <1>2, NewPieces
  <2> QED BY <1>2, <2>1, OldPieces DEF Gathers, Has
<1> QED BY <1>1, <1>2

LEMMA ChunkClocks ==
  ASSUME Clocks, DOMAIN assembler = Uploads, NEW d, d.type \in Uploads, AddChunk(d),
         UNCHANGED <<busy, now>>
  PROVE  Clocks'
<1>1. Others(d) BY Added
<1>2. now \in Nat BY DEF Clocks
<1>3. last' \in [scan_id : Nat, seen : Nat]
  <2>1. last' \in {last, NoSummary} BY Added DEF Dropped, Held, Finishes
  <2> QED BY <2>1 DEF Clocks, NoSummary
<1>4. ASSUME NEW type \in Uploads, NEW key \in DOMAIN assembler'[type].partial
      PROVE  assembler'[type].partial[key].updated_at \in Nat
  <2>1. CASE type # d.type \/ key # d.key BY <1>1, <1>4, <2>1 DEF Others, Clocks
  <2>2. CASE type = d.type /\ key = d.key
    <3>1. CASE Dropped(d) BY <1>4, <2>2, <3>1 DEF Dropped, Clocks
    <3>2. ASSUME NEW pieces, Held(d, pieces) PROVE assembler'[type].partial[key].updated_at \in Nat
      BY <1>2, <2>2, <3>2 DEF Held
    <3>3. CASE Finishes(d) BY <1>4, <2>2, <3>3 DEF Finishes
    <3> QED BY <3>1, <3>2, <3>3, Added
  <2> QED BY <2>1, <2>2
<1>5. ASSUME NEW type \in Uploads, NEW key \in DOMAIN assembler'[type].completed
      PROVE  assembler'[type].completed[key] \in Nat
  BY <1>1, <1>2, <1>5 DEF Others, Clocks
<1> QED BY <1>2, <1>3, <1>4, <1>5 DEF Clocks

LEMMA ChunkOnce ==
  ASSUME Expiry > 2, IInv, IInv', OnceInv, Route, inbox[1].type \in Uploads, AddChunk(inbox[1])
  PROVE  OnceInv'
<1> DEFINE d == inbox[1]
<1>0. /\ OnTheWay /\ OnTheWay' /\ Numbered /\ Displayed /\ NothingOld /\ StampsStay
      /\ scan' = scan /\ d \in OnTheRoad /\ DOMAIN assembler = Uploads
      /\ OnTheRoad' \subseteq OnTheRoad
      /\ Clocks /\ CopiesClose /\ Past /\ ShownPast /\ ShownOnce
  BY RouteRests, RoutedRoad DEF IInv, Memory, OnceInv
<1>1. /\ d \in Datagram /\ d.index \in Nat /\ d.type \in Uploads /\ d.type # "summary"
      /\ d.body \in 1 .. scan /\ d.body \in Nat /\ UNCHANGED <<left, busy, now>>
  BY <1>0, Routed, DatagramFields, OnTheRoadGenuine DEF Uploads
<1>2. \A e \in OnTheRoad' : Before(d, e) BY <1>0, RoutedLine DEF OnceInv
<1>3. \A e \in OnTheRoad : e.index \in Nat /\ e.body \in Nat
  BY <1>0, OnTheRoadGenuine, DatagramFields
<1>4. InOrder' /\ CopiesClose' BY <1>0, RoutedLine DEF OnceInv
<1>5. \A e : Twin(d, e) => Recent(now, e)' BY <1>0, RecentNow
<1>6. /\ AddChunk(d) /\ now \in Nat /\ scan \in Nat /\ Expiry \in Nat
      /\ \A stamp \in Nat, e \in OnTheRoad : Recent(stamp, e) => now - stamp < Expiry
  <2>1. Expiry \in Nat BY ReportAssumption
  <2>2. now \in Nat /\ scan \in Nat BY <1>0 DEF Clocks, Numbered
  <2>3. \A stamp \in Nat, e \in OnTheRoad : Recent(stamp, e) => now - stamp < Expiry
    BY <1>0, <2>1, <2>2, RecentInTime
  <2> QED BY <2>1, <2>2, <2>3
<1> HIDE DEF d
<1>7. Others(d) BY <1>0, <1>1, <1>6, Added
<1>8. Clocks' BY <1>0, <1>1, <1>6, ChunkClocks
<1>9. Past'
  <2> SUFFICES ASSUME NEW type \in Uploads, NEW key \in DOMAIN assembler'[type].partial,
                      NEW i \in DOMAIN assembler'[type].partial[key].pieces
               PROVE  /\ assembler'[type].partial[key].pieces[i] \in 1 .. scan
                      /\ \A e \in OnTheRoad' : e.type = type /\ e.key = key =>
                           \/ assembler'[type].partial[key].pieces[i] < e.body
                           \/ assembler'[type].partial[key].pieces[i] = e.body /\ i <= e.index
    BY <1>0 DEF Past
  <2>1. CASE /\ key \in DOMAIN assembler[type].partial
             /\ i \in DOMAIN assembler[type].partial[key].pieces
             /\ assembler'[type].partial[key].pieces[i] = assembler[type].partial[key].pieces[i]
    BY <1>0, <2>1 DEF Past
  <2>2. CASE /\ type = d.type /\ key = d.key /\ i = d.index
             /\ assembler'[type].partial[key].pieces[i] = d.body
    BY <1>1, <1>2, <2>2 DEF Before, SameItem
  <2> QED BY <1>0, <1>1, <1>6, <2>1, <2>2, FromWhat
\* Entries of shown that were there.
<1>10. ASSUME NEW x, SummaryPast(x) PROVE SummaryPast(x)'
  <2>1. CASE UNCHANGED last BY <1>0, <1>10, <2>1, SummaryRests
  <2>2. CASE last' # last
    <3>1. x.key[1] < d.body BY <1>0, <1>1, <1>10 DEF SummaryPast
    <3>2. ASSUME NEW e \in OnTheRoad' PROVE x.key[1] < e.body
      <4>1. d.body <= e.body /\ e.body \in Nat BY <1>0, <1>1, <1>2, <1>3, <3>2 DEF Before
      <4>2. x.key[1] \in Nat BY <1>6, <1>10 DEF SummaryPast
      <4> QED BY <1>1, <3>1, <4>1, <4>2
    <3>3. x.key[1] \in 1 .. scan BY <1>10 DEF SummaryPast
    <3>4. \A e \in OnTheRoad' : e.body # x.key[1] BY <1>3, <1>0, <3>2, <3>3
    <3> QED BY <1>0, <3>2, <3>3, <3>4 DEF SummaryPast
  <2> QED BY <2>1, <2>2
<1>11. ASSUME NEW x, ChunkPast(x) PROVE ChunkPast(x)'
  <2>1. ASSUME NEW i \in DOMAIN x.pieces, Gone(x, i) PROVE Gone(x, i)'
    <3>1. \A e \in OnTheRoad' : SameItem(e, x) /\ e.index = i => e.body # x.pieces[i]
      BY <1>0, <2>1 DEF Gone
    <3>2. ASSUME x.key \in DOMAIN assembler'[x.type].partial,
                 Has(assembler'[x.type].partial[x.key].pieces, i, x.pieces[i])
          PROVE  FALSE
      <4>1. x.type \in Uploads BY <1>11 DEF ChunkPast
      <4>2. \/ /\ x.key \in DOMAIN assembler[x.type].partial
               /\ Has(assembler[x.type].partial[x.key].pieces, i, x.pieces[i])
            \/ SameItem(d, x) /\ i = d.index /\ x.pieces[i] = d.body
        <5>1. /\ i \in DOMAIN assembler'[x.type].partial[x.key].pieces
              /\ assembler'[x.type].partial[x.key].pieces[i] = x.pieces[i]
          BY <3>2 DEF Has
        <5>2. \A type \in Uploads : \A key \in DOMAIN assembler'[type].partial :
                \A h \in DOMAIN assembler'[type].partial[key].pieces :
                  \/ /\ key \in DOMAIN assembler[type].partial
                     /\ h \in DOMAIN assembler[type].partial[key].pieces
                     /\ assembler'[type].partial[key].pieces[h] =
                          assembler[type].partial[key].pieces[h]
                  \/ /\ type = d.type /\ key = d.key /\ h = d.index
                     /\ assembler'[type].partial[key].pieces[h] = d.body
          BY <1>0, <1>1, <1>6, FromWhat
        <5>3. \/ /\ x.key \in DOMAIN assembler[x.type].partial
                 /\ i \in DOMAIN assembler[x.type].partial[x.key].pieces
                 /\ assembler'[x.type].partial[x.key].pieces[i] =
                      assembler[x.type].partial[x.key].pieces[i]
              \/ /\ x.type = d.type /\ x.key = d.key /\ i = d.index
                 /\ assembler'[x.type].partial[x.key].pieces[i] = d.body
          BY <3>2, <4>1, <5>1, <5>2
        <5> QED BY <5>1, <5>3 DEF Has, SameItem
      <4>3. CASE /\ x.key \in DOMAIN assembler[x.type].partial
                 /\ Has(assembler[x.type].partial[x.key].pieces, i, x.pieces[i])
        BY <2>1, <4>3 DEF Gone
      <4>4. CASE SameItem(d, x) /\ i = d.index /\ x.pieces[i] = d.body
        <5>1. \A e \in OnTheRoad : SameItem(e, x) /\ e.index = i => e.body # x.pieces[i]
          BY <2>1 DEF Gone
        <5> QED BY <1>0, <4>4, <5>1
      <4> QED BY <4>2, <4>3, <4>4
    <3> QED BY <3>1, <3>2 DEF Gone
  <2>2. ASSUME Remembered(x) PROVE Remembered(x)'
    <3> SUFFICES ASSUME NEW e \in OnTheRoad', SameItem(e, x), Has(x.pieces, e.index, e.body)
                 PROVE  /\ x.key \in DOMAIN assembler'[x.type].completed
                        /\ Recent(assembler[x.type].completed[x.key], e)'
      BY DEF Remembered
    <3> DEFINE stamp == assembler[x.type].completed[x.key]
    <3>1. /\ e \in OnTheRoad /\ x.key \in DOMAIN assembler[x.type].completed
          /\ Recent(stamp, e) /\ x.type \in Uploads
      BY <1>0, <1>11, <2>2 DEF Remembered, ChunkPast
    <3>2. stamp \in Nat /\ now - stamp < Expiry BY <1>0, <1>6, <3>1 DEF Clocks
    <3>3. x.type = d.type => Finished(d.type, x.key) BY <3>1, <3>2 DEF Finished
    <3>4. /\ x.key \in DOMAIN assembler'[x.type].completed
          /\ assembler'[x.type].completed[x.key] = stamp
      BY <1>7, <3>1, <3>3 DEF Others
    <3>5. \A s \in Nat : Recent(s, e) => Recent(s, e)' BY <1>0, <3>1 DEF StampsStay
    <3> QED BY <3>1, <3>2, <3>4, <3>5 DEF Recent
  <2> QED BY <1>0, <1>11, <2>1, <2>2 DEF ChunkPast
<1>12. ASSUME NEW k \in 1 .. Len(shown)
       PROVE  \A x : x = shown[k] => IF x.type = "summary" THEN SummaryPast(x)' ELSE ChunkPast(x)'
  <2>1. IF shown[k].type = "summary" THEN SummaryPast(shown[k]) ELSE ChunkPast(shown[k])
    BY <1>0 DEF ShownPast
  <2> QED BY <1>10, <1>11, <2>1
<1>13. CASE UNCHANGED shown
  <2>1. ASSUME NEW k \in 1 .. Len(shown')
        PROVE  IF shown'[k].type = "summary" THEN SummaryPast(shown[k])' ELSE ChunkPast(shown[k])'
    <3>1. k \in 1 .. Len(shown) /\ shown'[k] = shown[k] BY <1>13
    <3>2. PICK y : y = shown[k] OBVIOUS
    <3>3. IF y.type = "summary" THEN SummaryPast(y)' ELSE ChunkPast(y)' BY <1>12, <3>1, <3>2
    <3>4. shown'[k] = y BY <3>1, <3>2
    <3> QED BY <3>3, <3>4, PastOf
  <2>2. ShownPast' BY <2>1 DEF ShownPast
  <2>3. ShownOnce' BY <1>0, <1>13 DEF ShownOnce
  <2> QED BY <1>4, <1>8, <1>9, <2>2, <2>3 DEF OnceInv
\* What is completed now.
<1>14. CASE Finishes(d)
  <2>1. PICK x : x = [type |-> d.type, key |-> d.key, pieces |-> Pieces(d)] OBVIOUS
  <2>2. x.type = d.type /\ x.key = d.key /\ x.pieces = Pieces(d) BY <2>1
  <2>3. shown' = Append(shown, x) BY <1>14, <2>1 DEF Finishes, Show
  <2>4. Has(x.pieces, d.index, d.body) BY <2>2, NewPieces DEF Has
  <2>5. SameItem(d, x) BY <2>2 DEF SameItem
  <2>6. ASSUME NEW k \in 1 .. Len(shown), shown[k] = x PROVE FALSE
    <3>1. ChunkPast(x) BY <1>0, <1>1, <2>2, <2>6 DEF ShownPast
    <3>2. CASE Remembered(x)
      <4>1. /\ x.key \in DOMAIN assembler[x.type].completed
            /\ Recent(assembler[x.type].completed[x.key], d)
        BY <1>0, <2>4, <2>5, <3>2 DEF Remembered
      <4>2. assembler[x.type].completed[x.key] \in Nat BY <1>0, <1>1, <2>2, <4>1 DEF Clocks
      <4>3. Finished(d.type, d.key) BY <1>0, <1>6, <2>2, <4>1, <4>2 DEF Finished
      <4> QED BY <1>14, <4>3 DEF Finishes
    <3>3. ASSUME NEW i \in DOMAIN x.pieces, Gone(x, i) PROVE FALSE
      <4>1. CASE i = d.index BY <1>0, <2>4, <2>5, <3>3, <4>1 DEF Gone, Has
      <4>2. CASE i # d.index
        <5>1. /\ d.key \in DOMAIN assembler[d.type].partial
              /\ Has(assembler[d.type].partial[d.key].pieces, i, x.pieces[i])
          BY <2>2, <3>3, <4>2, PiecesFrom
        <5> QED BY <2>2, <3>3, <5>1 DEF Gone
      <4> QED BY <4>1, <4>2
    <3> QED BY <3>1, <3>2, <3>3 DEF ChunkPast
  <2>7. /\ ShownOnce'
        /\ Len(shown) \in Nat /\ Len(shown') = Len(shown) + 1 /\ shown'[Len(shown) + 1] = x
        /\ \A k \in 1 .. Len(shown) : shown'[k] = shown[k]
    BY <1>0, <2>3, <2>6, ShownMore
  <2>8. ChunkPast(x)'
    <3>1. \A i \in DOMAIN x.pieces : x.pieces[i] \in 1 .. scan
      <4>1. ASSUME NEW i \in DOMAIN x.pieces PROVE x.pieces[i] \in 1 .. scan
        <5>1. CASE i = d.index BY <1>1, <2>4, <5>1 DEF Has
        <5>2. CASE i # d.index
          <6>1. /\ d.key \in DOMAIN assembler[d.type].partial
                /\ Has(assembler[d.type].partial[d.key].pieces, i, x.pieces[i])
            BY <2>2, <4>1, <5>2, PiecesFrom
          <6> QED BY <1>0, <1>1, <6>1 DEF Past, Has
        <5> QED BY <5>1, <5>2
      <4> QED BY <4>1
    <3>2. CASE \E i \in DOMAIN Old(d) : TRUE
      <4>1. PICK i \in DOMAIN Old(d) : TRUE BY <3>2
      <4>2. i # d.index BY <1>14 DEF Finishes
      <4>3. /\ i \in DOMAIN x.pieces
            /\ d.key \in DOMAIN assembler[d.type].partial
            /\ Has(assembler[d.type].partial[d.key].pieces, i, x.pieces[i])
        BY <2>2, <4>1, <4>2, NewPieces, PiecesFrom
      <4>4. ASSUME NEW e \in OnTheRoad', SameItem(e, x), e.index = i PROVE e.body # x.pieces[i]
        <5>1. e \in OnTheRoad /\ SameItem(d, e) BY <1>0, <2>2, <4>4 DEF SameItem
        <5>2. x.pieces[i] < d.body \/ (x.pieces[i] = d.body /\ i <= d.index)
          BY <1>0, <1>1, <4>3 DEF Past, Has
        <5>3. d.body < e.body \/ (d.body = e.body /\ d.index <= i)
          BY <1>2, <4>4, <5>1 DEF Before
        <5>4. i \in Nat /\ e.body \in Nat BY <1>3, <4>4, <5>1
        <5>5. x.pieces[i] \in Nat BY <1>6, <3>1, <4>3
        <5> QED BY <1>1, <4>2, <5>2, <5>3, <5>4, <5>5
      <4>5. x.key \notin DOMAIN assembler'[x.type].partial BY <1>14, <2>2 DEF Finishes
      <4>6. Gone(x, i)' BY <4>4, <4>5 DEF Gone
      <4> QED BY <1>0, <1>1, <2>2, <3>1, <4>3, <4>6 DEF ChunkPast
    <3>3. CASE DOMAIN Old(d) = {}
      <4>1. DOMAIN x.pieces = {d.index} BY <2>2, <3>3, NewPieces
      <4>2. /\ x.key \in DOMAIN assembler'[x.type].completed
            /\ assembler'[x.type].completed[x.key] = now
        BY <1>14, <2>2 DEF Finishes
      <4>3. ASSUME NEW e \in OnTheRoad', SameItem(e, x), Has(x.pieces, e.index, e.body)
            PROVE  Recent(assembler[x.type].completed[x.key], e)'
        <5>1. Twin(d, e) BY <2>4, <2>5, <4>1, <4>3 DEF Has, Twin, SameItem
        <5>2. Recent(now, e)' BY <1>5, <5>1
        <5>3. assembler'[x.type].completed[x.key] = now' BY <1>1, <4>2
        <5> QED BY <5>2, <5>3 DEF Recent
      <4>4. Remembered(x)' BY <4>2, <4>3 DEF Remembered
      <4> QED BY <1>0, <1>1, <2>2, <3>1, <4>4 DEF ChunkPast
    <3> QED BY <3>2, <3>3
  <2>9. ASSUME NEW k \in 1 .. Len(shown')
        PROVE  IF shown'[k].type = "summary" THEN SummaryPast(shown[k])' ELSE ChunkPast(shown[k])'
    <3>1. PICK y : y = shown'[k] OBVIOUS
    <3>2. CASE k \in 1 .. Len(shown)
      <4>1. y = shown[k] BY <2>7, <3>1, <3>2
      <4>2. IF y.type = "summary" THEN SummaryPast(y)' ELSE ChunkPast(y)' BY <1>12, <3>2, <4>1
      <4> QED BY <3>1, <4>2, PastOf
    <3>3. CASE k = Len(shown) + 1
      <4>1. shown'[k] = x BY <2>7, <3>3
      <4> QED BY <1>1, <2>2, <2>8, <4>1, PastOf
    <3> QED BY <2>7, <3>2, <3>3
  <2>10. ShownPast' BY <2>9 DEF ShownPast
  <2> QED BY <1>4, <1>8, <1>9, <2>7, <2>10 DEF OnceInv
<1>15. UNCHANGED shown \/ Finishes(d)
  BY <1>0, <1>1, <1>6, Added DEF Dropped, Held
<1> QED BY <1>13, <1>14, <1>15

-----------------------------------------------------------------------------
LEMMA StutterOnce ==
  ASSUME OnceInv, UNCHANGED vars
  PROVE  OnceInv'
<1>1. UNCHANGED <<scan, left, busy, inbox, assembler, last, shown, now>>
  BY DEF vars, boardVars, hostVars
<1>2. Clocks' BY <1>1 DEF OnceInv, Clocks
<1>3. InOrder' /\ CopiesClose' BY <1>1 DEF OnceInv, InOrder, CopiesClose
<1>4. OnTheRoad' = OnTheRoad BY <1>1 DEF OnTheRoad
<1>5. Past' BY <1>1, <1>4 DEF OnceInv, Past
<1>6. ShownOnce' BY <1>1 DEF OnceInv, ShownOnce
<1>7. ShownPast'
  <2>1. \A stamp, e : Recent(stamp, e)' <=> Recent(stamp, e) BY <1>1 DEF Recent, Spent
  <2>2. ASSUME NEW x, SummaryPast(x) PROVE SummaryPast(x)'
    BY <1>1, <1>4, <2>2 DEF SummaryPast, Recent, Spent
  <2>3. ASSUME NEW x, ChunkPast(x) PROVE ChunkPast(x)'
    BY <1>1, <1>4, <2>3 DEF ChunkPast, Gone, Remembered, Has, Recent, Spent
  <2>4. ASSUME NEW k \in 1 .. Len(shown')
        PROVE  IF shown'[k].type = "summary" THEN SummaryPast(shown[k])' ELSE ChunkPast(shown[k])'
    <3>1. k \in 1 .. Len(shown) /\ shown'[k] = shown[k] BY <1>1
    <3>2. PICK y : y = shown[k] OBVIOUS
    <3>3. IF y.type = "summary" THEN SummaryPast(y)' ELSE ChunkPast(y)'
      BY <2>2, <2>3, <3>1, <3>2 DEF OnceInv, ShownPast
    <3>4. shown'[k] = y BY <3>1, <3>2
    <3> QED BY <3>3, <3>4, PastOf
  <2> QED BY <2>4 DEF ShownPast
<1> QED BY <1>2, <1>3, <1>5, <1>6, <1>7 DEF OnceInv

LEMMA NextOnce ==
  ASSUME Window > 2, Expiry > 2, IInv, IInv', OnceInv, [Next]_vars
  PROVE  OnceInv'
<1>0. OnTheWay BY DEF IInv
<1>1. CASE \E n \in 1 .. MaxChunks, angle \in BOOLEAN : Process(n, angle) BY <1>1, ProcessOnce
<1>2. CASE Sent BY <1>0, <1>2, SentMoves, MovedOnce
<1>3. CASE SendFails BY <1>0, <1>3, FailureMoves, MovedOnce
<1>4. CASE Reboot BY <1>0, <1>4, RebootMoves, MovedOnce
<1>5. CASE Route
  <2>1. Head(inbox) = inbox[1] /\ inbox[1] \in Datagram BY <1>0, <1>5, Routed
  <2>2. \/ inbox[1].type = "summary" /\ TakeSummary(inbox[1])
        \/ inbox[1].type \in Uploads /\ AddChunk(inbox[1])
    BY <1>5, <2>1, DatagramShape DEF Route
  <2> QED BY <1>5, <2>2, SummaryOnce, ChunkOnce
<1>6. CASE Tick BY <1>6, TickOnce
<1>7. CASE UNCHANGED vars BY <1>7, StutterOnce
<1> QED BY <1>1, <1>2, <1>3, <1>4, <1>5, <1>6, <1>7 DEF Next

\* Nothing is shown twice, when the windows outlast the copies: two ticks.
THEOREM NothingTwice ==
  ASSUME Window > 2, Expiry > 2
  PROVE  Spec => []ShownOnce
<1>1. Init => IInv /\ OnceInv BY InitIInv, InitOnce
<1>2. IInv /\ OnceInv /\ [Next]_vars => IInv' /\ OnceInv' BY NextIInv, NextOnce
<1>3. IInv /\ OnceInv => ShownOnce BY DEF OnceInv
<1> QED BY <1>1, <1>2, <1>3, PTL DEF Spec

-----------------------------------------------------------------------------
(***************************************************************************)
(* What arrives is shown: the invariant                                    *)
(***************************************************************************)
\* The items, and the kinds of item, one after the other.
Grouped ==
  /\ \A p, q, r \in 1 .. Len(left) :
       p < q /\ q < r /\ SameItem(left[p], left[r]) => SameItem(left[p], left[q])
  /\ \A p, q \in 1 .. Len(left) : p < q =>
       /\ left[q].type = "map" => left[p].type = "map"
       /\ left[p].type = "summary" => left[q].type = "summary"

\* What was begun and is not over goes on with the next datagram.
Begun ==
  \A d \in arrived : Clear(d.type) /\ (\E e \in Range(left) : SameItem(d, e)) =>
    SameItem(d, left[1])

Sendable == arrived \union Range(left)

Uniform ==
  /\ \A d \in arrived : d \in Datagram /\ Genuine(d)
  /\ Range(inbox) \subseteq arrived
  /\ \A d \in Sendable : d.index \in 0 .. d.count - 1
  /\ \A d, e \in Sendable : SameItem(d, e) /\ Clear(d.type) => Metadata(d) = Metadata(e)

LineInv == Grouped /\ Begun /\ Uniform

\* No result is forgotten that was not shown.
ShownEntry(type, key, v) ==
  \E k \in 1 .. Len(shown) :
    /\ shown[k].type = type /\ shown[k].key = key
    /\ \A i \in DOMAIN shown[k].pieces : shown[k].pieces[i] = v

SummariesShown ==
  /\ last.scan_id # 0 => ShownEntry("summary", <<last.scan_id>>, last.scan_id)
  /\ \A d \in arrived : d.type = "summary" => d \in Range(inbox) \/ ShownOf(d)

CompletedShown ==
  \A type \in Uploads : \A key \in DOMAIN assembler[type].completed :
    /\ key \notin DOMAIN assembler[type].partial
    /\ Clear(type) => ShownEntry(type, key, key[1])

\* An assembler holds some, never all of the pieces of an item that has begun to arrive.
PartOf(entry, e) ==
  /\ entry.metadata = Metadata(e)
  /\ DOMAIN entry.pieces \subseteq 0 .. e.count - 1
  /\ DOMAIN entry.pieces # 0 .. e.count - 1

PartialOK ==
  \A type \in Uploads : Clear(type) => \A key \in DOMAIN assembler[type].partial :
    \E e \in arrived : e.type = type /\ e.key = key /\ PartOf(assembler[type].partial[key], e)

InBox(type, key) == \E e \in Range(inbox) : e.type = type /\ e.key = key
ToCome(type, key) == \E e \in Range(left) : e.type = type /\ e.key = key

\* A losing link is the only reason for what is begun to wait.
OnTime ==
  \A type \in Uploads : Clear(type) => \A key \in DOMAIN assembler[type].partial :
    /\ assembler[type].partial[key].updated_at <= now
    /\ InBox(type, key) => now <= assembler[type].partial[key].updated_at + count.lost + 1
    /\ ~InBox(type, key) /\ ToCome(type, key) =>
         now <= assembler[type].partial[key].updated_at + count.lost + Spent

\* Too few losses to outlast the assemblers' patience.
Few == count.lost + 1 < Expiry

InPartial(d) ==
  /\ d.key \in DOMAIN assembler[d.type].partial
  /\ d.index \in DOMAIN assembler[d.type].partial[d.key].pieces

Comes(d) == \E e \in OnTheRoad : SameItem(d, e)

Gathering ==
  Few => \A d \in arrived : d.type \in Uploads /\ Clear(d.type) /\ ~ShownOf(d) =>
    IF Comes(d) THEN d \in Range(inbox) \/ InPartial(d) ELSE ~ArrivedWhole(d)

GatherInv == LineInv /\ SummariesShown /\ CompletedShown /\ PartialOK /\ OnTime /\ Gathering

-----------------------------------------------------------------------------
(***************************************************************************)
(* The line                                                                *)
(***************************************************************************)
LEMMA ClearStays ==
  ASSUME Numbered, Numbered', count'.reboots >= count.reboots, NEW type, Clear(type)'
  PROVE  Clear(type)
BY DEF Numbered, Clear

LEMMA RangeLeft ==
  ASSUME OnTheWay
  PROVE  /\ \A e : e \in Range(left) <=> \E q \in 1 .. Len(left) : left[q] = e
         /\ \A e : e \in Range(inbox) <=> \E q \in 1 .. Len(inbox) : inbox[q] = e
<1>1. DOMAIN inbox = 1 .. Len(inbox) /\ DOMAIN left = 1 .. Len(left) BY DEF OnTheWay
<1> QED BY <1>1 DEF Range

LEMMA RangeLeftNext ==
  ASSUME OnTheWay'
  PROVE  /\ \A e : e \in Range(left)' <=> \E q \in 1 .. Len(left') : left'[q] = e
         /\ \A e : e \in Range(inbox)' <=> \E q \in 1 .. Len(inbox') : inbox'[q] = e
<1>1. DOMAIN inbox' = 1 .. Len(inbox') /\ DOMAIN left' = 1 .. Len(left') BY DEF OnTheWay
<1> QED BY <1>1 DEF Range

\* What can still have been sent, of those that were genuine, is so.
LEMMA ArrivedGenuine ==
  ASSUME Numbered, Numbered', scan' >= scan, count'.reboots >= count.reboots, OnTheWay,
         \A d \in arrived : d \in Datagram /\ Genuine(d), arrived' \subseteq Sendable
  PROVE  \A d \in arrived' : d \in Datagram /\ Genuine(d)'
<1>1. \A d \in Sendable : d \in Datagram /\ Genuine(d) BY RangeLeft DEF Sendable, OnTheWay
<1>2. \A d : Genuine(d) => GenuineAfter(d, scan', count'.reboots) BY GenuineStays
<1> QED BY <1>1, <1>2 DEF Genuine

LEMMA MovedGather ==
  ASSUME IInv, IInv', LineInv, NEW m, Moved(m), count'.reboots >= count.reboots
  PROVE  /\ LineInv' /\ Sendable' \subseteq Sendable
         /\ arrived \subseteq arrived' /\ Range(inbox) \subseteq Range(inbox)'
         /\ \A e \in arrived' : e \in arrived \/ (e \in Range(inbox)' /\ e \in Range(left))
<1>0. Numbered /\ Numbered' /\ OnTheWay /\ OnTheWay' BY DEF IInv
<1>1. /\ m \in Nat /\ scan' = scan
      /\ \A q \in 1 .. Len(left') : /\ q + m \in 1 .. Len(left) /\ m >= 1 /\ left'[q] = left[q + m]
                                    /\ 1 \in 1 .. Len(left)
  <2>1. left \in Seq(Datagram) BY <1>0 DEF OnTheWay
  <2>2. \A k \in 1 .. Len(left) : left # <<>> /\ 1 \in 1 .. Len(left) BY <2>1
  <2> QED BY <2>2 DEF Moved
<1>2. Range(left)' \subseteq Range(left) BY <1>0, <1>1, RangeLeft, RangeLeftNext
<1>3. Range(inbox) \subseteq Range(inbox)' BY <1>0, MovedInbox, RangeLeft, RangeLeftNext
<1>4. /\ arrived \subseteq arrived'
      /\ \A e \in arrived' : e \in arrived \/ (e \in Range(inbox)' /\ e = left[1] /\ e \in Range(left))
  <2>1. CASE UNCHANGED <<inbox, arrived>> BY <2>1
  <2>2. CASE left # <<>> /\ inbox' = Append(inbox, left[1]) /\ arrived' = arrived \union {left[1]}
    <3>1. left \in Seq(Datagram) /\ inbox \in Seq(Datagram) BY <1>0 DEF OnTheWay
    <3>2. 1 \in 1 .. Len(left) /\ left[1] \in Datagram BY <2>2, <3>1
    <3>3. Len(inbox) + 1 \in 1 .. Len(inbox') /\ inbox'[Len(inbox) + 1] = left[1]
      BY <2>2, <3>1, <3>2
    <3>4. left[1] \in Range(inbox)' /\ left[1] \in Range(left)
      BY <1>0, <3>2, <3>3, RangeLeft, RangeLeftNext
    <3> QED BY <2>2, <3>4
  <2> QED BY <2>1, <2>2 DEF Moved
<1>5. Sendable' \subseteq Sendable BY <1>2, <1>4 DEF Sendable
<1>6. Range(inbox)' \subseteq arrived'
  <2> SUFFICES ASSUME NEW e \in Range(inbox)' PROVE e \in arrived' OBVIOUS
  <2>1. PICK p \in 1 .. Len(inbox') : inbox'[p] = e BY <1>0, RangeLeftNext
  <2>2. CASE p \in 1 .. Len(inbox)
    <3>1. e \in Range(inbox) BY <1>0, <2>1, <2>2, MovedInbox, RangeLeft
    <3> QED BY <1>4, <3>1 DEF LineInv, Uniform
  <2>3. CASE inbox'[p] = left[1] /\ arrived' = arrived \union {left[1]} BY <2>1, <2>3
  <2> QED BY <1>0, <2>2, <2>3, MovedInbox
<1>7. \A type : Clear(type)' => Clear(type) BY <1>0, ClearStays
<1>8. Uniform'
  <2>1. \A d \in arrived' : d \in Datagram /\ Genuine(d)'
    <3>1. arrived' \subseteq Sendable BY <1>4 DEF Sendable
    <3>2. scan' >= scan BY <1>0, <1>1 DEF Numbered
    <3> QED BY <1>0, <3>1, <3>2, ArrivedGenuine DEF LineInv, Uniform
  <2>2. /\ \A d \in Sendable : d.index \in 0 .. d.count - 1
        /\ \A d, e \in Sendable : SameItem(d, e) /\ Clear(d.type) => Metadata(d) = Metadata(e)
    BY DEF LineInv, Uniform
  <2>3. \A d, e \in Sendable' : SameItem(d, e) /\ Clear(d.type)' => Metadata(d) = Metadata(e)
    BY <1>5, <1>7, <2>2
  <2>4. \A d \in Sendable' : d.index \in 0 .. d.count - 1 BY <1>5, <2>2
  <2> QED BY <1>6, <2>1, <2>3, <2>4 DEF Uniform
<1>9. Grouped'
  <2>1. ASSUME NEW p \in 1 .. Len(left'), NEW q \in 1 .. Len(left'), NEW r \in 1 .. Len(left'),
               p < q, q < r, SameItem(left'[p], left'[r])
        PROVE  SameItem(left'[p], left'[q])
    <3>1. p + m < q + m /\ q + m < r + m BY <1>1, <2>1
    <3>2. /\ p + m \in 1 .. Len(left) /\ q + m \in 1 .. Len(left) /\ r + m \in 1 .. Len(left)
          /\ left'[p] = left[p + m] /\ left'[q] = left[q + m] /\ left'[r] = left[r + m]
      BY <1>1
    <3>3. SameItem(left[p + m], left[r + m]) BY <2>1, <3>2
    <3>4. SameItem(left[p + m], left[q + m]) BY <3>1, <3>2, <3>3 DEF LineInv, Grouped
    <3> QED BY <3>2, <3>4
  <2>2. ASSUME NEW p \in 1 .. Len(left'), NEW q \in 1 .. Len(left'), p < q
        PROVE  /\ left'[q].type = "map" => left'[p].type = "map"
               /\ left'[p].type = "summary" => left'[q].type = "summary"
    <3>1. p + m < q + m BY <1>1, <2>2
    <3>2. /\ p + m \in 1 .. Len(left) /\ q + m \in 1 .. Len(left)
          /\ left'[p] = left[p + m] /\ left'[q] = left[q + m]
      BY <1>1
    <3>3. /\ left[q + m].type = "map" => left[p + m].type = "map"
          /\ left[p + m].type = "summary" => left[q + m].type = "summary"
      BY <3>1, <3>2 DEF LineInv, Grouped
    <3> QED BY <3>2, <3>3
  <2> QED BY <2>1, <2>2 DEF Grouped
<1>10. Begun'
  <2> SUFFICES ASSUME NEW d \in arrived', Clear(d.type)', NEW e \in Range(left)', SameItem(d, e)
               PROVE  SameItem(d, left'[1])
    BY DEF Begun
  <2>1. PICK q \in 1 .. Len(left') : left'[q] = e BY <1>0, RangeLeftNext
  <2>2. SameItem(d, left[1])
    <3>1. CASE d \in arrived
      <4>1. e \in Range(left) /\ Clear(d.type) BY <1>2, <1>7
      <4> QED BY <3>1, <4>1 DEF LineInv, Begun
    <3>2. CASE d = left[1] BY <3>2 DEF SameItem
    <3> QED BY <1>4, <3>1, <3>2
  <2>3. 1 \in 1 .. Len(left') /\ left'[1] = left[1 + m] /\ 1 + m \in 1 .. Len(left)
    <3>1. 1 \in 1 .. Len(left') BY <1>0, <2>1 DEF OnTheWay
    <3> QED BY <1>1, <3>1
  <2>4. CASE q = 1 BY <2>1, <2>4
  <2>5. CASE q # 1
    <3>1. /\ 1 \in 1 .. Len(left) /\ q + m \in 1 .. Len(left) /\ 1 < 1 + m /\ 1 + m < q + m
          /\ left[q + m] = e
      BY <1>1, <2>1, <2>5
    <3>2. SameItem(left[1], left[q + m]) BY <2>2, <3>1 DEF SameItem
    <3>3. SameItem(left[1], left[1 + m]) BY <2>3, <3>1, <3>2 DEF LineInv, Grouped
    <3> QED BY <2>2, <2>3, <3>3 DEF SameItem
  <2> QED BY <2>4, <2>5
<1> QED BY <1>3, <1>4, <1>5, <1>8, <1>9, <1>10 DEF LineInv

\* The items of a new scan are new.
LEMMA NewItems ==
  ASSUME IInv, NEW n \in 1 .. MaxChunks, NEW angle \in BOOLEAN, Process(n, angle),
         \A d \in arrived : Genuine(d),
         NEW d \in arrived, Clear(d.type), NEW q \in 1 .. Len(left')
  PROVE  ~SameItem(d, left'[q])
<1>0. Numbered BY DEF IInv
<1>1. /\ d.body \in 1 .. scan /\ d.key[1] = d.body
  BY <1>0 DEF Genuine, GenuineAfter, Clear, Numbered
<1>2. Of(left', scan + 1, report_id + 1) BY <1>0, NewUpload
<1>3. d.type = "text" => report_id = scan BY <1>0 DEF Numbered, Clear
<1>4. SameItem(d, left'[q]) => left'[q].key[1] = scan + 1 BY <1>2, <1>3 DEF Of, SameItem
<1>5. scan \in Nat BY <1>0 DEF Numbered
<1> QED BY <1>1, <1>4, <1>5 DEF SameItem

LEMMA ProcessGather ==
  ASSUME IInv, IInv', LineInv, NEW n \in 1 .. MaxChunks, NEW angle \in BOOLEAN, Process(n, angle)
  PROVE  LineInv'
<1>0. Numbered /\ Numbered' /\ OnTheWay /\ OnTheWay' BY DEF IInv
<1>1. /\ Shape(left') /\ Ordered(left') /\ Entire(left') /\ left' \in Seq(Datagram)
      /\ UNCHANGED <<inbox, arrived, count>> /\ scan' = scan + 1 /\ left = <<>>
  BY <1>0, NewUpload DEF Shape
<1>2. \A type : Clear(type)' <=> Clear(type) BY <1>1 DEF Clear
<1>3. \A d \in arrived : Genuine(d) BY DEF LineInv, Uniform
<1>4. \A d \in arrived, e \in Range(left)' : Clear(d.type) => ~SameItem(d, e)
  BY <1>0, <1>3, NewItems, RangeLeftNext
<1>5. Grouped' BY <1>1 DEF Ordered, Grouped
<1>6. Begun' BY <1>1, <1>2, <1>4 DEF Begun
<1>7. Uniform'
  <2>1. \A d \in arrived' : d \in Datagram /\ Genuine(d)'
    <3>1. arrived' \subseteq Sendable BY <1>1 DEF Sendable
    <3>2. scan' >= scan /\ count'.reboots >= count.reboots BY <1>0, <1>1 DEF Numbered
    <3> QED BY <1>0, <3>1, <3>2, ArrivedGenuine DEF LineInv, Uniform
  <2>2. Range(inbox)' \subseteq arrived'
    <3>1. Range(inbox)' = Range(inbox) BY <1>1
    <3> QED BY <1>1, <3>1 DEF LineInv, Uniform
  <2>3. \A d \in Sendable' : d \in arrived \/ d \in Range(left)' BY <1>1 DEF Sendable
  <2>4. /\ \A d \in arrived : d.index \in 0 .. d.count - 1
        /\ \A d, e \in arrived : SameItem(d, e) /\ Clear(d.type) => Metadata(d) = Metadata(e)
    BY DEF LineInv, Uniform, Sendable
  <2>5. \A d \in Range(left)' : d.index \in 0 .. d.count - 1
    BY <1>0, <1>1, RangeLeftNext DEF Entire
  <2>6. \A d, e \in Range(left)' : SameItem(d, e) => Metadata(d) = Metadata(e)
    BY <1>0, <1>1, RangeLeftNext DEF Entire
  <2>7. \A d, e \in Sendable' : SameItem(d, e) /\ Clear(d.type)' => Metadata(d) = Metadata(e)
    <3> SUFFICES ASSUME NEW d \in Sendable', NEW e \in Sendable', SameItem(d, e), Clear(d.type)
                 PROVE  Metadata(d) = Metadata(e)
      BY <1>2
    <3>1. CASE d \in arrived /\ e \in Range(left)' BY <1>4, <3>1
    <3>2. CASE e \in arrived /\ d \in Range(left)'
      <4>1. SameItem(e, d) /\ Clear(e.type) BY DEF SameItem
      <4> QED BY <1>4, <3>2, <4>1
    <3> QED BY <2>3, <2>4, <2>6, <3>1, <3>2
  <2>8. \A d \in Sendable' : d.index \in 0 .. d.count - 1 BY <2>3, <2>4, <2>5
  <2> QED BY <2>1, <2>2, <2>7, <2>8 DEF Uniform
<1> QED BY <1>5, <1>6, <1>7 DEF LineInv

LEMMA LineRests ==
  ASSUME LineInv, UNCHANGED <<left, arrived, count, scan>>, Range(inbox)' \subseteq Range(inbox)
  PROVE  LineInv'
<1>1. Grouped' BY DEF LineInv, Grouped
<1>2. Begun' BY DEF LineInv, Begun, Clear
<1>3. Sendable' = Sendable BY DEF Sendable
<1>4. Uniform' BY <1>3 DEF LineInv, Uniform, Genuine, Clear
<1> QED BY <1>1, <1>2, <1>4 DEF LineInv

-----------------------------------------------------------------------------
(***************************************************************************)
(* What is shown stays so                                                  *)
(***************************************************************************)
ShownKept == \A k \in 1 .. Len(shown) : k \in 1 .. Len(shown') /\ shown'[k] = shown[k]

LEMMA KeptIsShown ==
  ASSUME ShownKept
  PROVE  /\ \A d : ShownOf(d) => ShownOf(d)'
         /\ \A type, key, v : ShownEntry(type, key, v) => ShownEntry(type, key, v)'
<1>1. ASSUME NEW d, ShownOf(d) PROVE ShownOf(d)' BY <1>1 DEF ShownKept, ShownOf
<1>2. ASSUME NEW type, NEW key, NEW v, ShownEntry(type, key, v) PROVE ShownEntry(type, key, v)'
  BY <1>2 DEF ShownKept, ShownEntry
<1> QED BY <1>1, <1>2

\* Showing d with pieces that are all v.
LEMMA ShowsEntry ==
  ASSUME Displayed, NEW d, NEW pieces, Show(d, pieces)
  PROVE  /\ ShownKept
         /\ \A v : (\A i \in DOMAIN pieces : pieces[i] = v) => ShownEntry(d.type, d.key, v)'
<1> DEFINE x == [type |-> d.type, key |-> d.key, pieces |-> pieces]
<1>1. PICK S : shown \in Seq(S) BY DEF Displayed
<1>2. shown' = Append(shown, x) BY DEF Show
<1>3. x.type = d.type /\ x.key = d.key /\ x.pieces = pieces OBVIOUS
<1> HIDE DEF x
<1>4. shown \in Seq(S \union {x}) BY <1>1
<1>5. /\ Len(shown) \in Nat /\ Len(shown') = Len(shown) + 1 /\ shown'[Len(shown) + 1] = x
      /\ \A k \in 1 .. Len(shown) : shown'[k] = shown[k]
  BY <1>2, <1>4
<1>6. ShownKept BY <1>5 DEF ShownKept
<1>7. ASSUME NEW v, \A i \in DOMAIN pieces : pieces[i] = v
      PROVE  ShownEntry(d.type, d.key, v)'
  <2>1. Len(shown) + 1 \in 1 .. Len(shown') /\ shown'[Len(shown) + 1] = x BY <1>5
  <2> QED BY <1>3, <1>7, <2>1 DEF ShownEntry
<1> QED BY <1>6, <1>7

LEMMA EntryIsShown ==
  ASSUME NEW d
  PROVE  /\ ShownOf(d) <=> ShownEntry(d.type, d.key, d.body)
         /\ ShownOf(d)' <=> ShownEntry(d.type, d.key, d.body)'
BY DEF ShownOf, ShownEntry

\* As long as the identifier names it, an item is of one scan.
LEMMA SiblingsShown ==
  ASSUME NEW d, NEW e, SameItem(d, e), d.body = e.body
  PROVE  (ShownOf(d) <=> ShownOf(e)) /\ (ShownOf(d)' <=> ShownOf(e)')
BY DEF ShownOf, SameItem

LEMMA OneBody ==
  ASSUME Numbered, NEW d, Genuine(d), Clear(d.type)
  PROVE  d.key[1] = d.body /\ d.body \in 1 .. scan
BY DEF Numbered, Genuine, GenuineAfter, Clear

Entries == SummariesShown /\ CompletedShown /\ PartialOK

LEMMA EntriesRest ==
  ASSUME Entries, UNCHANGED hostVars, arrived \subseteq arrived',
         \A e \in arrived' : e \in arrived \/ e \in Range(inbox)',
         Range(inbox) \subseteq Range(inbox)', \A type : Clear(type)' => Clear(type)
  PROVE  Entries'
<1>1. UNCHANGED <<assembler, last, shown>> BY DEF hostVars
<1>2. /\ \A d : ShownOf(d) => ShownOf(d)'
      /\ \A type, key, v : ShownEntry(type, key, v) => ShownEntry(type, key, v)'
  <2>1. ShownKept BY <1>1 DEF ShownKept
  <2> QED BY <2>1, KeptIsShown
<1>3. SummariesShown'
  <2>1. last'.scan_id # 0 => ShownEntry("summary", <<last.scan_id>>, last.scan_id)'
    <3>1. last.scan_id # 0 => ShownEntry("summary", <<last.scan_id>>, last.scan_id)
      BY DEF Entries, SummariesShown
    <3> QED BY <1>1, <3>1 DEF ShownEntry
  <2>2. \A d \in arrived' : d.type = "summary" => d \in Range(inbox)' \/ ShownOf(d)'
    BY <1>2 DEF Entries, SummariesShown
  <2> QED BY <2>1, <2>2 DEF SummariesShown
<1>4. CompletedShown'
  <2> SUFFICES ASSUME NEW type \in Uploads, NEW key \in DOMAIN assembler'[type].completed
               PROVE  /\ key \notin DOMAIN assembler'[type].partial
                      /\ Clear(type)' => ShownEntry(type, key, key[1])'
    BY DEF CompletedShown
  <2>1. /\ key \notin DOMAIN assembler[type].partial
        /\ Clear(type) => ShownEntry(type, key, key[1])
    BY <1>1 DEF Entries, CompletedShown
  <2> QED BY <1>1, <1>2, <2>1
<1>5. PartialOK' BY <1>1 DEF Entries, PartialOK
<1> QED BY <1>3, <1>4, <1>5 DEF Entries

-----------------------------------------------------------------------------
LEMMA SummaryEntries ==
  ASSUME IInv, IInv', LineInv, Entries, Route, NEW d, d = inbox[1], d.type = "summary",
         TakeSummary(d)
  PROVE  Entries' /\ ShownKept /\ UNCHANGED assembler
<1>0. Numbered /\ OnTheWay /\ OnTheWay' /\ Displayed BY DEF IInv
<1>1. /\ d \in Datagram /\ Genuine(d) /\ UNCHANGED <<arrived, count, now>>
      /\ \A e \in Range(inbox) : e = d \/ e \in Range(inbox)'
  BY <1>0, Routed, RoutedRoad
<1>2. /\ d.type = "summary" /\ d.key = <<d.body>> /\ d.key[1] = d.body /\ d.body \in Nat
      /\ d.body \in 1 .. scan
  BY <1>1, DatagramFields DEF Genuine, GenuineAfter
<1>3. /\ last' = [scan_id |-> d.body, seen |-> now] /\ UNCHANGED assembler
      /\ IF IsRepeat(d) THEN UNCHANGED shown ELSE Show(d, With(Nothing, 0, d.body))
  BY <1>2 DEF TakeSummary
<1>4. ShownKept /\ ShownEntry(d.type, d.key, d.body)'
  <2>1. CASE IsRepeat(d)
    <3>1. d.body = last.scan_id BY <1>2, <2>1 DEF IsRepeat
    <3>2. d.body # 0 BY <1>2
    <3>3. ShownEntry(d.type, d.key, d.body) BY <1>2, <3>1, <3>2 DEF Entries, SummariesShown
    <3>4. ShownKept BY <1>3, <2>1 DEF ShownKept
    <3> QED BY <3>3, <3>4, KeptIsShown
  <2>2. CASE ~IsRepeat(d)
    <3> DEFINE pieces == With(Nothing, 0, d.body)
    <3>1. \A i \in DOMAIN pieces : pieces[i] = d.body BY DEF With, Nothing
    <3>2. Show(d, pieces) BY <1>3, <2>2
    <3> HIDE DEF pieces
    <3> QED BY <1>0, <3>1, <3>2, ShowsEntry
  <2> QED BY <2>1, <2>2
<1>5. SummariesShown'
  <2>1. last'.scan_id = d.body BY <1>3
  <2>2. ShownEntry("summary", <<last.scan_id>>, last.scan_id)'
    BY <1>2, <1>4, <2>1 DEF ShownEntry
  <2>3. ASSUME NEW e \in arrived', e.type = "summary" PROVE e \in Range(inbox)' \/ ShownOf(e)'
    <3>1. e \in Range(inbox) \/ ShownOf(e) BY <1>1, <2>3 DEF Entries, SummariesShown
    <3>2. CASE e = d BY <1>4, <3>2, EntryIsShown
    <3>3. CASE ShownOf(e) BY <1>4, <3>3, KeptIsShown
    <3> QED BY <1>1, <3>1, <3>2, <3>3
  <2> QED BY <2>2, <2>3 DEF SummariesShown
<1>6. CompletedShown'
  <2> SUFFICES ASSUME NEW type \in Uploads, NEW key \in DOMAIN assembler'[type].completed
               PROVE  /\ key \notin DOMAIN assembler'[type].partial
                      /\ Clear(type)' => ShownEntry(type, key, key[1])'
    BY DEF CompletedShown
  <2>1. /\ key \notin DOMAIN assembler[type].partial
        /\ Clear(type) => ShownEntry(type, key, key[1])
    BY <1>3 DEF Entries, CompletedShown
  <2> QED BY <1>1, <1>3, <1>4, <2>1, KeptIsShown DEF Clear
<1>7. PartialOK' BY <1>1, <1>3 DEF Entries, PartialOK, Clear
<1> QED BY <1>3, <1>4, <1>5, <1>6, <1>7 DEF Entries

\* The pieces put together are all of the scan that the identifier names.
LEMMA PiecesOfOne ==
  ASSUME Numbered, Memory, NEW d, d.type \in Uploads, Genuine(d), Clear(d.type)
  PROVE  \A i \in DOMAIN Pieces(d) : Pieces(d)[i] = d.body
<1> SUFFICES ASSUME NEW i \in DOMAIN Pieces(d) PROVE Pieces(d)[i] = d.body OBVIOUS
<1>1. d.key[1] = d.body BY OneBody
<1>2. CASE i = d.index BY <1>2, NewPieces
<1>3. CASE i # d.index
  <2>1. /\ d.key \in DOMAIN assembler[d.type].partial
        /\ Has(assembler[d.type].partial[d.key].pieces, i, Pieces(d)[i])
    BY <1>3, PiecesFrom
  <2> QED BY <1>1, <2>1 DEF Memory, Filed, Has
<1> QED BY <1>2, <1>3

\* What an assembler has of d's item fits d.
LEMMA OldFits ==
  ASSUME LineInv, PartialOK, NEW d \in arrived, d.type \in Uploads, Clear(d.type)
  PROVE  DOMAIN Old(d) \subseteq 0 .. d.count - 1
<1>1. CASE DOMAIN Old(d) = {} BY <1>1
<1>2. CASE /\ d.key \in DOMAIN assembler[d.type].partial
           /\ Old(d) = assembler[d.type].partial[d.key].pieces
  <2>1. PICK e \in arrived : /\ e.type = d.type /\ e.key = d.key
                             /\ PartOf(assembler[d.type].partial[d.key], e)
    BY <1>2 DEF PartialOK
  <2>2. Metadata(d) = Metadata(e) BY <2>1 DEF LineInv, Uniform, Sendable, SameItem
  <2>3. d.count = e.count BY <2>2 DEF Metadata
  <2> QED BY <1>2, <2>1, <2>3 DEF PartOf
<1> QED BY <1>1, <1>2, OldPieces DEF Gathers

LEMMA ChunkEntries ==
  ASSUME IInv, IInv', LineInv, Entries, Route, NEW d, d = inbox[1], d.type \in Uploads,
         AddChunk(d)
  PROVE  /\ Entries' /\ ShownKept
         /\ Dropped(d) => /\ d.key \notin DOMAIN assembler'[d.type].partial
                          /\ Clear(d.type) => ShownOf(d)'
         /\ Finishes(d) /\ Clear(d.type) => ShownOf(d)'
<1>0. Numbered /\ OnTheWay /\ OnTheWay' /\ Displayed /\ Memory /\ DOMAIN assembler = Uploads
  BY DEF IInv, Memory
<1>1. /\ d \in Datagram /\ Genuine(d) /\ UNCHANGED <<arrived, count, now>>
      /\ \A e \in Range(inbox) : e = d \/ e \in Range(inbox)'
      /\ d \in Range(inbox) /\ d \in arrived
  <2>1. d \in Datagram /\ Genuine(d) /\ UNCHANGED <<arrived, count, now>> /\ 1 \in 1 .. Len(inbox)
    BY <1>0, Routed
  <2>2. d \in Range(inbox) BY <1>0, <2>1, RangeLeft
  <2> QED BY <1>0, <2>1, <2>2, RoutedRoad DEF LineInv, Uniform
<1>2. d.type \in Uploads /\ d.type # "summary" /\ d.index \in 0 .. d.count - 1 /\ d.count \in Nat
  BY <1>1, DatagramFields DEF Uploads, LineInv, Uniform, Sendable
<1>3. /\ Others(d)
      /\ \/ Dropped(d)
         \/ d.index \in DOMAIN Old(d) /\ Held(d, Old(d))
         \/ /\ d.index \notin DOMAIN Old(d) /\ Cardinality(DOMAIN Pieces(d)) < d.count
            /\ Held(d, Pieces(d))
         \/ Finishes(d)
  BY <1>0, Added
<1>4. Clear(d.type) => \A i \in DOMAIN Pieces(d) : Pieces(d)[i] = d.body
  BY <1>0, <1>1, <1>2, PiecesOfOne
<1>5. Clear(d.type) => d.key[1] = d.body BY <1>0, <1>1, OneBody
<1>6. ShownKept /\ (Finishes(d) /\ Clear(d.type) => ShownEntry(d.type, d.key, d.body)')
  <2>1. CASE Finishes(d)
    <3>1. Show(d, Pieces(d)) BY <2>1 DEF Finishes
    <3> QED BY <1>0, <1>4, <3>1, ShowsEntry
  <2>2. CASE ~Finishes(d)
    <3>1. UNCHANGED shown BY <1>3, <2>2 DEF Dropped, Held
    <3> QED BY <2>2, <3>1 DEF ShownKept
  <2> QED BY <2>1, <2>2
<1>7. /\ \A e : ShownOf(e) => ShownOf(e)'
      /\ \A type, key, v : ShownEntry(type, key, v) => ShownEntry(type, key, v)'
  BY <1>6, KeptIsShown
<1>8. \A type : Clear(type)' <=> Clear(type) BY <1>1 DEF Clear
<1>9. SummariesShown'
  <2>1. last' \in {last, NoSummary} BY <1>3 DEF Dropped, Held, Finishes
  <2>2. last'.scan_id # 0 => last' = last BY <2>1 DEF NoSummary
  <2>3. last'.scan_id # 0 => ShownEntry("summary", <<last.scan_id>>, last.scan_id)'
    <3> SUFFICES ASSUME last'.scan_id # 0
                 PROVE  ShownEntry("summary", <<last.scan_id>>, last.scan_id)'
      OBVIOUS
    <3>1. last' = last BY <2>2
    <3>2. ShownEntry("summary", <<last.scan_id>>, last.scan_id)
      BY <3>1 DEF Entries, SummariesShown
    <3> QED BY <1>6, <3>1, <3>2 DEF ShownEntry, ShownKept
  <2>4. ASSUME NEW e \in arrived', e.type = "summary" PROVE e \in Range(inbox)' \/ ShownOf(e)'
    <3>1. e \in Range(inbox) \/ ShownOf(e) BY <1>1, <2>4 DEF Entries, SummariesShown
    <3>2. e # d BY <1>2, <2>4
    <3> QED BY <1>1, <1>7, <3>1, <3>2
  <2> QED BY <2>3, <2>4 DEF SummariesShown
<1>10. Dropped(d) => /\ d.key \notin DOMAIN assembler'[d.type].partial
                     /\ Clear(d.type) => ShownEntry(d.type, d.key, d.body)'
  <2> SUFFICES ASSUME Dropped(d)
               PROVE  /\ d.key \notin DOMAIN assembler'[d.type].partial
                      /\ Clear(d.type) => ShownEntry(d.type, d.key, d.body)'
    OBVIOUS
  <2>1. d.key \in DOMAIN assembler[d.type].completed BY DEF Dropped, Finished
  <2>2. /\ d.key \notin DOMAIN assembler[d.type].partial
        /\ Clear(d.type) => ShownEntry(d.type, d.key, d.key[1])
    BY <1>2, <2>1 DEF Entries, CompletedShown
  <2>3. d.key \notin DOMAIN assembler'[d.type].partial BY <2>2 DEF Dropped
  <2>4. Clear(d.type) => ShownEntry(d.type, d.key, d.body) BY <1>5, <2>2
  <2> QED BY <1>7, <2>3, <2>4
<1>11. CompletedShown'
  <2> SUFFICES ASSUME NEW type \in Uploads, NEW key \in DOMAIN assembler'[type].completed
               PROVE  /\ key \notin DOMAIN assembler'[type].partial
                      /\ Clear(type) => ShownEntry(type, key, key[1])'
    BY <1>8 DEF CompletedShown
  <2>1. CASE type # d.type \/ key # d.key
    <3>1. /\ key \in DOMAIN assembler[type].completed
          /\ key \in DOMAIN assembler'[type].partial => key \in DOMAIN assembler[type].partial
      BY <1>3, <2>1 DEF Others
    <3>2. /\ key \notin DOMAIN assembler[type].partial
          /\ Clear(type) => ShownEntry(type, key, key[1])
      BY <3>1 DEF Entries, CompletedShown
    <3> QED BY <1>7, <3>1, <3>2
  <2>2. CASE type = d.type /\ key = d.key
    <3>1. CASE Dropped(d)
      <4>1. Clear(type) => ShownEntry(type, key, key[1])' BY <1>5, <1>10, <2>2, <3>1
      <4> QED BY <1>10, <2>2, <3>1, <4>1
    <3>2. CASE Finishes(d)
      <4>1. Clear(type) => ShownEntry(type, key, key[1])' BY <1>5, <1>6, <2>2, <3>2
      <4>2. key \notin DOMAIN assembler'[type].partial BY <2>2, <3>2 DEF Finishes
      <4> QED BY <4>1, <4>2
    <3>3. ASSUME NEW pieces, Held(d, pieces) PROVE FALSE BY <2>2, <3>3 DEF Held
    <3> QED BY <1>3, <3>1, <3>2, <3>3
  <2> QED BY <2>1, <2>2
<1>12. PartialOK'
  <2> SUFFICES ASSUME NEW type \in Uploads, Clear(type), NEW key \in DOMAIN assembler'[type].partial
               PROVE  \E e \in arrived : /\ e.type = type /\ e.key = key
                                         /\ PartOf(assembler'[type].partial[key], e)
    BY <1>1, <1>8 DEF PartialOK
  <2>0. \A k \in DOMAIN assembler[type].partial :
          \E e \in arrived : e.type = type /\ e.key = k /\ PartOf(assembler[type].partial[k], e)
    BY DEF Entries, PartialOK
  <2>1. CASE type # d.type \/ key # d.key
    <3>1. /\ key \in DOMAIN assembler[type].partial
          /\ assembler'[type].partial[key] = assembler[type].partial[key]
      BY <1>3, <2>1 DEF Others
    <3> QED BY <2>0, <3>1
  <2>2. CASE type = d.type /\ key = d.key
    <3>1. CASE Dropped(d) BY <1>10, <2>2, <3>1
    <3>2. CASE d.index \in DOMAIN Old(d) /\ Held(d, Old(d))
      <4>1. /\ d.key \in DOMAIN assembler[d.type].partial
            /\ assembler[d.type].partial[d.key].metadata = Metadata(d)
            /\ Old(d) = assembler[d.type].partial[d.key].pieces
        BY <3>2, OldPieces DEF Gathers
      <4>2. PICK e \in arrived : /\ e.type = type /\ e.key = key
                                 /\ PartOf(assembler[type].partial[key], e)
        BY <2>0, <2>2, <4>1
      <4>3. /\ assembler'[type].partial[key].metadata = assembler[type].partial[key].metadata
            /\ assembler'[type].partial[key].pieces = assembler[type].partial[key].pieces
        <5>1. assembler'[d.type].partial[d.key] =
                [metadata |-> Metadata(d), updated_at |-> now, pieces |-> Old(d)]
          BY <3>2 DEF Held
        <5>2. /\ assembler'[d.type].partial[d.key].metadata = Metadata(d)
              /\ assembler'[d.type].partial[d.key].pieces = Old(d)
          BY <5>1
        <5> QED BY <2>2, <4>1, <5>2
      <4>4. PartOf(assembler'[type].partial[key], e) BY <4>2, <4>3 DEF PartOf
      <4> QED BY <4>2, <4>4
    <3>3. CASE Cardinality(DOMAIN Pieces(d)) < d.count /\ Held(d, Pieces(d))
      <4>1. /\ assembler'[type].partial[key].metadata = Metadata(d)
            /\ assembler'[type].partial[key].pieces = Pieces(d)
        BY <2>2, <3>3 DEF Held
      <4>2. DOMAIN Old(d) \subseteq 0 .. d.count - 1
        BY <1>1, <1>2, <2>2, OldFits DEF Entries
      <4>3. DOMAIN Pieces(d) \subseteq 0 .. d.count - 1
        <5>1. DOMAIN Pieces(d) = DOMAIN Old(d) \union {d.index} BY NewPieces
        <5> QED BY <1>2, <4>2, <5>1
      <4>4. Cardinality(0 .. d.count - 1) = d.count
        <5>1. 0 \in Int /\ d.count - 1 \in Int /\ ~(0 > d.count - 1)
              /\ (d.count - 1) - 0 + 1 = d.count
          BY <1>2
        <5> QED BY <5>1, FS_Interval
      <4>5. DOMAIN Pieces(d) # 0 .. d.count - 1 BY <1>2, <3>3, <4>4
      <4>6. PartOf(assembler'[type].partial[key], d) BY <4>1, <4>3, <4>5 DEF PartOf
      <4> QED BY <1>1, <2>2, <4>6
    <3>4. CASE Finishes(d) BY <2>2, <3>4 DEF Finishes
    <3> QED BY <1>3, <3>1, <3>2, <3>3, <3>4
  <2> QED BY <2>1, <2>2
<1>13. Entries' BY <1>9, <1>11, <1>12 DEF Entries
<1>14. /\ Dropped(d) /\ Clear(d.type) => ShownOf(d)'
       /\ Finishes(d) /\ Clear(d.type) => ShownOf(d)'
  BY <1>6, <1>10, EntryIsShown
<1> QED BY <1>6, <1>10, <1>13, <1>14

-----------------------------------------------------------------------------
(***************************************************************************)
(* The time an item takes                                                  *)
(***************************************************************************)
\* A sender that gives up leaves nothing of the kind it was sending.
LEMMA KindGivenUp ==
  ASSUME OnTheWay, Grouped, SendFails
  PROVE  \A q \in 1 .. Len(left') : left'[q].type # left[1].type
<1> DEFINE own == {i \in 1 .. Len(left) : left[i].type = left[1].type}
           m == Cardinality(own)
<1> SUFFICES ASSUME NEW q \in 1 .. Len(left'), left'[q].type = left[1].type PROVE FALSE
  OBVIOUS
<1>1. Moved(m) /\ m \in Nat BY FailureMoves
<1>2. /\ q + m \in 1 .. Len(left) /\ left[q + m].type = left[1].type
      /\ left \in Seq(Datagram) /\ q \in Nat /\ q >= 1 /\ Len(left) \in Nat
  BY <1>1 DEF Moved, OnTheWay
<1> HIDE DEF m
<1>3. 1 .. q + m \subseteq own
  <2> SUFFICES ASSUME NEW j \in 1 .. q + m PROVE j \in 1 .. Len(left) /\ left[j].type = left[1].type
    OBVIOUS
  <2>1. j \in 1 .. Len(left) /\ 1 \in 1 .. Len(left) BY <1>1, <1>2
  <2>2. left[j].type \in Uploads \union {"summary"} /\ left[1].type \in Uploads \union {"summary"}
    BY <1>2, <2>1, DatagramShape
  <2>3. CASE j = 1 \/ j = q + m BY <1>2, <2>1, <2>3
  <2>4. CASE 1 < j /\ j < q + m
    <3>1. /\ left[q + m].type = "map" => left[j].type = "map"
          /\ left[1].type = "summary" => left[j].type = "summary"
          /\ left[j].type = "map" => left[1].type = "map"
          /\ left[j].type = "summary" => left[q + m].type = "summary"
      BY <1>2, <2>1, <2>4 DEF Grouped
    <3> QED BY <1>2, <2>1, <2>2, <3>1 DEF Uploads
  <2> QED BY <1>1, <1>2, <2>3, <2>4
<1>4. IsFiniteSet(own)
  <2>1. IsFiniteSet(1 .. Len(left)) BY <1>2, FS_Interval
  <2>2. own \subseteq 1 .. Len(left) OBVIOUS
  <2> HIDE DEF own
  <2> QED BY <2>1, <2>2, FS_Subset
<1> HIDE DEF own
<1>5. Cardinality(1 .. q + m) <= Cardinality(own) BY <1>3, <1>4, FS_Subset
<1>6. Cardinality(1 .. q + m) = q + m
  <2>1. 1 \in Int /\ q + m \in Int /\ ~(1 > q + m) /\ (q + m) - 1 + 1 = q + m BY <1>1, <1>2
  <2> QED BY <2>1, FS_Interval
<1> QED BY <1>1, <1>2, <1>5, <1>6 DEF m

\* What is skipped of an item that goes on has arrived or is a loss.
Accounted ==
  \A e \in Range(left)' : SameItem(e, left[1]) =>
    left[1] \in Range(inbox)' \/ count'.lost >= count.lost + 1

LEMMA BoardMoves ==
  ASSUME Numbered, OnTheWay, OnTheWay', Grouped, Sent \/ SendFails \/ Reboot
  PROVE  /\ \E m : Moved(m)
         /\ Accounted /\ count'.lost >= count.lost /\ count'.reboots >= count.reboots
<1>1. CASE Sent
  <2>1. Moved(1) BY <1>1, SentMoves
  <2>2. count'.lost >= count.lost /\ count'.reboots >= count.reboots
    BY <1>1 DEF Sent, Transmit, Numbered
  <2>3. left[1] \in Range(inbox)' \/ count'.lost >= count.lost + 1
    <3>1. CASE inbox' = Append(inbox, Head(left))
      <4>1. /\ left \in Seq(Datagram) /\ inbox \in Seq(Datagram) /\ Head(left) = left[1]
            /\ left[1] \in Datagram
        BY <1>1 DEF Sent, OnTheWay
      <4>2. Len(inbox) + 1 \in 1 .. Len(inbox') /\ inbox'[Len(inbox) + 1] = left[1]
        BY <3>1, <4>1
      <4> QED BY <4>2, RangeLeftNext
    <3>2. CASE count' = [count EXCEPT !.lost = @ + 1] BY <3>2 DEF Numbered
    <3> QED BY <1>1, <3>1, <3>2 DEF Sent, Transmit
  <2> QED BY <2>1, <2>2, <2>3 DEF Accounted
<1>2. CASE SendFails
  <2>1. \E m : Moved(m) BY <1>2, FailureMoves
  <2>2. count'.lost = count.lost /\ count'.reboots = count.reboots /\ count.lost \in Nat
        /\ count.reboots \in Nat
    BY <1>2 DEF SendFails, Numbered
  <2>3. \A e \in Range(left)' : ~SameItem(e, left[1])
    BY <1>2, KindGivenUp, RangeLeftNext DEF SameItem
  <2> QED BY <2>1, <2>2, <2>3 DEF Accounted
<1>3. CASE Reboot
  <2>1. \E m : Moved(m) BY <1>3, RebootMoves
  <2>2. count'.lost = count.lost /\ count'.reboots = count.reboots + 1 /\ count.lost \in Nat
        /\ count.reboots \in Nat
    BY <1>3 DEF Reboot, Numbered
  <2>3. left' = <<>> BY <1>3 DEF Reboot
  <2>4. Range(left)' = {} BY <2>3 DEF Range
  <2> QED BY <2>1, <2>2, <2>4 DEF Accounted
<1> QED BY <1>1, <1>2, <1>3

LEMMA MovedOnTime ==
  ASSUME IInv, IInv', Clocks, LineInv, Entries, OnTime, NEW m, Moved(m),
         Accounted, count'.lost >= count.lost, count'.reboots >= count.reboots
  PROVE  OnTime'
<1>0. Numbered /\ Numbered' /\ OnTheWay /\ OnTheWay' BY DEF IInv
<1>1. /\ UNCHANGED <<assembler, now>> /\ Spent' = 0 /\ Spent \in {0, 1}
      /\ now \in Nat /\ count.lost \in Nat /\ count'.lost \in Nat
  BY <1>0 DEF Moved, hostVars, Spent, Clocks, Numbered
<1>2. /\ Range(inbox) \subseteq Range(inbox)' /\ Range(left)' \subseteq Range(left)
      /\ \A e \in Range(inbox)' : e \in Range(inbox) \/ e \in Range(left)
  <2>1. OnTheRoad' \subseteq OnTheRoad BY <1>0, RoadShrinks
  <2>2. Range(inbox) \subseteq Range(inbox)' BY MovedGather
  <2>3. Range(left)' \subseteq Range(left) BY <1>0, RangeLeft, RangeLeftNext DEF Moved
  <2> QED BY <2>1, <2>2, <2>3 DEF OnTheRoad
<1> SUFFICES ASSUME NEW type \in Uploads, Clear(type)', NEW key \in DOMAIN assembler'[type].partial
             PROVE  LET at == assembler'[type].partial[key].updated_at
                    IN /\ at <= now'
                       /\ InBox(type, key)' => now' <= at + count'.lost + 1
                       /\ ~InBox(type, key)' /\ ToCome(type, key)' => now' <= at + count'.lost + Spent'
  BY DEF OnTime
<1> DEFINE at == assembler[type].partial[key].updated_at
<1>3. /\ Clear(type) /\ key \in DOMAIN assembler[type].partial /\ at \in Nat
      /\ assembler'[type].partial[key].updated_at = at
  BY <1>0, <1>1, ClearStays DEF Clocks
<1>4. /\ at <= now
      /\ InBox(type, key) => now <= at + count.lost + 1
      /\ ~InBox(type, key) /\ ToCome(type, key) => now <= at + count.lost + Spent
  BY <1>3 DEF OnTime
<1> HIDE DEF at
<1>5. InBox(type, key)' => now <= at + count'.lost + 1
  <2>1. InBox(type, key)' => InBox(type, key) \/ ToCome(type, key)
    BY <1>2 DEF InBox, ToCome
  <2> QED BY <1>1, <1>3, <1>4, <2>1
<1>6. ASSUME ~InBox(type, key)', ToCome(type, key)' PROVE now <= at + count'.lost
  <2>1. PICK e \in Range(left)' : e.type = type /\ e.key = key BY <1>6 DEF ToCome
  <2>2. ~InBox(type, key) /\ ToCome(type, key) BY <1>2, <1>6, <2>1 DEF InBox, ToCome
  <2>3. PICK a \in arrived : a.type = type /\ a.key = key BY <1>3 DEF Entries, PartialOK
  <2>4. SameItem(a, e) /\ e \in Range(left) /\ Clear(a.type)
    BY <1>2, <1>3, <2>1, <2>3 DEF SameItem
  <2>5. SameItem(a, left[1]) BY <2>4 DEF LineInv, Begun
  <2>6. SameItem(e, left[1]) /\ left[1].type = type /\ left[1].key = key
    BY <2>1, <2>3, <2>5 DEF SameItem
  <2>7. left[1] \notin Range(inbox)' BY <1>6, <2>6 DEF InBox
  <2>8. count'.lost >= count.lost + 1 BY <2>1, <2>6, <2>7 DEF Accounted
  <2> QED BY <1>1, <1>3, <1>4, <2>2, <2>8
<1> QED BY <1>1, <1>3, <1>4, <1>5, <1>6

LEMMA ProcessOnTime ==
  ASSUME IInv, IInv', Clocks, LineInv, Entries, OnTime,
         NEW n \in 1 .. MaxChunks, NEW angle \in BOOLEAN, Process(n, angle)
  PROVE  OnTime'
<1>0. Numbered /\ OnTheWay /\ OnTheWay' BY DEF IInv
<1>1. UNCHANGED <<assembler, now, inbox, count>> /\ left = <<>>
  BY <1>0, NewUpload DEF hostVars
<1>2. ASSUME NEW type \in Uploads, Clear(type), NEW key \in DOMAIN assembler[type].partial
      PROVE  ~ToCome(type, key)'
  <2>1. PICK a \in arrived : a.type = type /\ a.key = key BY <1>2 DEF Entries, PartialOK
  <2>2. \A q \in 1 .. Len(left') : ~SameItem(a, left'[q])
    BY <1>2, <2>1, NewItems DEF LineInv, Uniform
  <2>3. \A e \in Range(left)' : ~SameItem(a, e) BY <1>0, <2>2, RangeLeftNext
  <2> QED BY <2>1, <2>3 DEF ToCome, SameItem
<1>3. \A type, key : InBox(type, key)' <=> InBox(type, key) BY <1>1 DEF InBox
<1>4. \A type : Clear(type)' <=> Clear(type) BY <1>1 DEF Clear
<1> QED BY <1>1, <1>2, <1>3, <1>4 DEF OnTime

LEMMA TickOnTime ==
  ASSUME IInv, IInv', Clocks, OnTime, Tick
  PROVE  OnTime'
<1>0. Numbered /\ OnTheWay BY DEF IInv
<1>1. /\ UNCHANGED <<assembler, left, inbox, count>> /\ now' = now + 1 /\ inbox = <<>>
      /\ Spent' = 1 /\ (left # <<>> => Spent = 0) /\ now \in Nat /\ count.lost \in Nat
  BY <1>0 DEF Tick, hostVars, Spent, Clocks, Numbered
<1>2. \A type, key : ~InBox(type, key) /\ ~InBox(type, key)'
  BY <1>1 DEF InBox, Range
<1>3. \A type, key : ToCome(type, key)' => ToCome(type, key) /\ Spent = 0
  <2>1. \A e \in Range(left) : left # <<>> BY DEF Range
  <2> QED BY <1>1, <2>1 DEF ToCome
<1>4. \A type : Clear(type)' <=> Clear(type) BY <1>1 DEF Clear
<1>5. \A type \in Uploads : \A key \in DOMAIN assembler[type].partial :
        assembler[type].partial[key].updated_at \in Nat
  BY DEF Clocks
<1> SUFFICES ASSUME NEW type \in Uploads, Clear(type), NEW key \in DOMAIN assembler[type].partial
             PROVE  /\ assembler[type].partial[key].updated_at <= now + 1
                    /\ ToCome(type, key)' =>
                         now + 1 <= assembler[type].partial[key].updated_at + count.lost + 1
  BY <1>1, <1>2, <1>4 DEF OnTime
<1>6. /\ assembler[type].partial[key].updated_at <= now
      /\ ToCome(type, key) => now <= assembler[type].partial[key].updated_at + count.lost + Spent
  BY <1>2 DEF OnTime
<1> QED BY <1>1, <1>3, <1>5, <1>6

\* A step of the host that changes no entry of the others.
LEMMA RouteOnTime ==
  ASSUME IInv, IInv', Clocks, LineInv, Entries, OnTime, Route, NEW d, d = inbox[1],
         \/ UNCHANGED assembler /\ d.type = "summary"
         \/ d.type \in Uploads /\ AddChunk(d)
  PROVE  OnTime'
<1>0. Numbered /\ OnTheWay /\ OnTheWay' /\ DOMAIN assembler = Uploads BY DEF IInv, Memory
<1>1. /\ UNCHANGED <<left, busy, arrived, count, now>> /\ Spent' = Spent /\ Spent \in {0, 1}
      /\ now \in Nat /\ count.lost \in Nat
      /\ Range(inbox)' \subseteq Range(inbox)
      /\ \A e \in Range(inbox) : e = d \/ e \in Range(inbox)'
  <2>1. UNCHANGED <<left, busy, arrived, count, now>> BY <1>0, Routed
  <2>2. \A e \in Range(inbox)' : e \in Range(inbox)
    <3>1. \A p \in 1 .. Len(inbox') : p + 1 \in 1 .. Len(inbox) /\ inbox'[p] = inbox[p + 1]
      BY <1>0, Routed
    <3> QED BY <1>0, <3>1, RangeLeft, RangeLeftNext
  <2> QED BY <1>0, <2>1, <2>2, RoutedRoad DEF Spent, Clocks, Numbered
<1>2. \A type : Clear(type)' <=> Clear(type) BY <1>1 DEF Clear
<1> SUFFICES ASSUME NEW type \in Uploads, Clear(type), NEW key \in DOMAIN assembler'[type].partial
             PROVE  LET at == assembler'[type].partial[key].updated_at
                    IN /\ at <= now
                       /\ InBox(type, key)' => now <= at + count.lost + 1
                       /\ ~InBox(type, key)' /\ ToCome(type, key)' => now <= at + count.lost + Spent
  BY <1>1, <1>2 DEF OnTime
<1>3. ASSUME key \in DOMAIN assembler[type].partial,
             assembler'[type].partial[key] = assembler[type].partial[key],
             type # d.type \/ key # d.key
      PROVE  LET at == assembler'[type].partial[key].updated_at
             IN /\ at <= now
                /\ InBox(type, key)' => now <= at + count.lost + 1
                /\ ~InBox(type, key)' /\ ToCome(type, key)' => now <= at + count.lost + Spent
  <2>1. InBox(type, key)' <=> InBox(type, key) BY <1>1, <1>3 DEF InBox
  <2>2. ToCome(type, key)' <=> ToCome(type, key) BY <1>1 DEF ToCome
  <2> QED BY <1>3, <2>1, <2>2 DEF OnTime
<1>4. CASE UNCHANGED assembler /\ d.type = "summary"
  BY <1>3, <1>4 DEF Uploads
<1>5. CASE d.type \in Uploads /\ AddChunk(d)
  <2>1. CASE type # d.type \/ key # d.key
    BY <1>0, <1>3, <1>5, <2>1, Added DEF Others
  <2>2. CASE type = d.type /\ key = d.key
    <3>1. ~Dropped(d) BY <1>5, <2>2, ChunkEntries
    <3>2. ~Finishes(d) BY <2>2 DEF Finishes
    <3>3. \E pieces : Held(d, pieces) BY <1>0, <1>5, <3>1, <3>2, Added
    <3>4. assembler'[type].partial[key].updated_at = now BY <2>2, <3>3 DEF Held
    <3> QED BY <1>1, <3>4
  <2> QED BY <2>1, <2>2
<1> QED BY <1>4, <1>5

-----------------------------------------------------------------------------
(***************************************************************************)
(* Nothing that arrived is forgotten                                       *)
(***************************************************************************)
\* What was still to come of an item and has arrived is in the socket or held.
Kept ==
  \A d \in arrived' :
    d.type \in Uploads /\ Clear(d.type)' /\ ~ShownOf(d)' /\ Comes(d) =>
      d \in Range(inbox)' \/ InPartial(d)'

\* What an assembler holds some of has not arrived whole, after a step.
LEMMA NotWhole ==
  ASSUME IInv', LineInv', PartialOK', NEW d \in arrived', d.type \in Uploads, Clear(d.type)',
         \A e \in arrived' : SameItem(d, e) => InPartial(e)'
  PROVE  ~ArrivedWhole(d)'
<1> DEFINE entry == assembler'[d.type].partial[d.key]
<1>1. SameItem(d, d) BY DEF SameItem
<1>2. d.key \in DOMAIN assembler'[d.type].partial BY <1>1 DEF InPartial
<1>3. PICK e \in arrived' : e.type = d.type /\ e.key = d.key /\ PartOf(entry, e)
  BY <1>2 DEF PartialOK
<1>4. Metadata(d) = Metadata(e)
  <2>1. d \in Sendable' /\ e \in Sendable' /\ SameItem(d, e) BY <1>3 DEF Sendable, SameItem
  <2> QED BY <2>1 DEF LineInv, Uniform
<1>5. d.count = e.count BY <1>4 DEF Metadata
<1>6. PICK i \in 0 .. d.count - 1 : i \notin DOMAIN entry.pieces BY <1>3, <1>5 DEF PartOf
<1>7. ASSUME NEW f \in arrived', f.type = d.type, f.key = d.key, f.index = i PROVE FALSE
  <2>1. InPartial(f)' BY <1>7 DEF SameItem
  <2>2. i \in DOMAIN entry.pieces BY <1>7, <2>1 DEF InPartial
  <2> QED BY <1>6, <2>2
<1> QED BY <1>6, <1>7 DEF ArrivedWhole

LEMMA GatherStep ==
  ASSUME IInv, IInv', LineInv', PartialOK', Gathering, count'.lost >= count.lost,
         \A type : Clear(type)' => Clear(type), ShownKept,
         \A d \in arrived' : Clear(d.type)' /\ Comes(d)' => Comes(d),
         \A d \in arrived' : d \in arrived \/ Comes(d),
         Few => Kept
  PROVE  Gathering'
<1>0. Numbered /\ Numbered' BY DEF IInv
<1> SUFFICES ASSUME Few', NEW d \in arrived', d.type \in Uploads, Clear(d.type)', ~ShownOf(d)'
             PROVE  IF Comes(d)' THEN d \in Range(inbox)' \/ InPartial(d)' ELSE ~ArrivedWhole(d)'
  BY DEF Gathering
<1>1. Few
  <2>1. Expiry \in Nat BY ReportAssumption
  <2> QED BY <1>0, <2>1 DEF Few, Numbered
<1>2. CASE Comes(d)
  <2>1. d \in Range(inbox)' \/ InPartial(d)' BY <1>1, <1>2 DEF Kept
  <2>2. CASE Comes(d)' BY <2>1, <2>2
  <2>3. CASE ~Comes(d)'
    <3>1. ASSUME NEW e \in arrived', SameItem(d, e) PROVE InPartial(e)'
      <4>1. Clear(e.type)' /\ e.type \in Uploads BY <3>1 DEF SameItem, Clear
      <4>2. /\ d.key[1] = d.body /\ e.key[1] = e.body
        <5>1. Genuine(d)' /\ Genuine(e)' BY DEF LineInv, Uniform
        <5> QED BY <1>0, <4>1, <5>1 DEF Genuine, GenuineAfter, Clear, Numbered
      <4>3. d.body = e.body BY <3>1, <4>2 DEF SameItem
      <4>4. ~ShownOf(e)' BY <3>1, <4>3, SiblingsShown
      <4>5. Comes(e) BY <1>2, <3>1 DEF Comes, SameItem
      <4>6. e \in Range(inbox)' \/ InPartial(e)' BY <1>1, <4>1, <4>4, <4>5 DEF Kept
      <4>7. e \notin Range(inbox)' BY <2>3, <3>1 DEF Comes, OnTheRoad
      <4> QED BY <4>6, <4>7
    <3>2. ~ArrivedWhole(d)' BY <3>1, NotWhole
    <3> QED BY <2>3, <3>2
  <2> QED BY <2>2, <2>3
<1>3. CASE ~Comes(d)
  <2>1. ~Comes(d)' /\ d \in arrived BY <1>3
  <2>2. ~ShownOf(d) BY KeptIsShown
  <2>3. ~ArrivedWhole(d) BY <1>1, <1>3, <2>1, <2>2 DEF Gathering
  <2>4. ASSUME ArrivedWhole(d)' PROVE ArrivedWhole(d)
    <3> SUFFICES ASSUME NEW i \in 0 .. d.count - 1
                 PROVE  \E e \in arrived : e.type = d.type /\ e.key = d.key /\ e.index = i
      BY DEF ArrivedWhole
    <3>1. PICK e \in arrived' : e.type = d.type /\ e.key = d.key /\ e.index = i
      BY <2>4 DEF ArrivedWhole
    <3>2. Comes(e) => Comes(d) BY <3>1 DEF Comes, SameItem
    <3> QED BY <1>3, <3>1, <3>2
  <2> QED BY <2>1, <2>3, <2>4
<1> QED BY <1>2, <1>3

\* Where the host does nothing, what was kept is kept.
LEMMA KeptRests ==
  ASSUME Gathering, UNCHANGED hostVars, Range(inbox) \subseteq Range(inbox)',
         \A type : Clear(type)' => Clear(type),
         \A e \in arrived' : e \in arrived \/ e \in Range(inbox)'
  PROVE  Few => Kept
<1>1. UNCHANGED <<assembler, shown>> BY DEF hostVars
<1> SUFFICES ASSUME Few, NEW d \in arrived', d.type \in Uploads, Clear(d.type)', ~ShownOf(d)',
                    Comes(d)
             PROVE  d \in Range(inbox)' \/ InPartial(d)'
  BY DEF Kept
<1>2. CASE d \in arrived
  <2>1. ~ShownOf(d) BY <1>1 DEF ShownOf
  <2>2. d \in Range(inbox) \/ InPartial(d) BY <1>2, <2>1 DEF Gathering
  <2> QED BY <1>1, <2>2 DEF InPartial
<1> QED BY <1>2

LEMMA MovedGathering ==
  ASSUME IInv, IInv', GatherInv, NEW m, Moved(m), count'.lost >= count.lost,
         count'.reboots >= count.reboots, LineInv', PartialOK'
  PROVE  Gathering'
<1>0. Numbered /\ Numbered' /\ OnTheWay /\ OnTheWay' BY DEF IInv
<1>1. /\ arrived \subseteq arrived' /\ Range(inbox) \subseteq Range(inbox)'
      /\ \A e \in arrived' : e \in arrived \/ (e \in Range(inbox)' /\ e \in Range(left))
  BY MovedGather DEF GatherInv
<1>2. \A type : Clear(type)' => Clear(type) BY <1>0, ClearStays
<1>3. UNCHANGED hostVars BY DEF Moved
<1>4. ShownKept BY <1>3 DEF hostVars, ShownKept
<1>5. OnTheRoad' \subseteq OnTheRoad BY <1>0, RoadShrinks
<1>6. \A d : Comes(d)' => Comes(d) BY <1>5 DEF Comes
<1>7. \A d \in arrived' : d \in arrived \/ Comes(d)
  BY <1>1 DEF Comes, OnTheRoad, SameItem
<1>8. Few => Kept BY <1>1, <1>2, <1>3, KeptRests DEF GatherInv
<1> QED BY <1>2, <1>4, <1>6, <1>7, <1>8, GatherStep DEF GatherInv

LEMMA ProcessGathering ==
  ASSUME IInv, IInv', GatherInv, NEW n \in 1 .. MaxChunks, NEW angle \in BOOLEAN,
         Process(n, angle), LineInv', PartialOK'
  PROVE  Gathering'
<1>0. Numbered /\ OnTheWay /\ OnTheWay' BY DEF IInv
<1>1. UNCHANGED <<hostVars, inbox, arrived, count>> /\ left = <<>> BY <1>0, NewUpload
<1>2. \A type : Clear(type)' <=> Clear(type) BY <1>1 DEF Clear
<1>3. ShownKept BY <1>1 DEF hostVars, ShownKept
<1>4. \A d \in arrived : Clear(d.type) /\ Comes(d)' => Comes(d)
  <2> SUFFICES ASSUME NEW d \in arrived, Clear(d.type), NEW e \in OnTheRoad', SameItem(d, e)
               PROVE  Comes(d)
    BY DEF Comes
  <2>1. \A q \in 1 .. Len(left') : ~SameItem(d, left'[q])
    BY NewItems DEF GatherInv, LineInv, Uniform
  <2>2. e \notin Range(left)' BY <1>0, <2>1, RangeLeftNext
  <2>3. e \in Range(inbox)' BY <2>2 DEF OnTheRoad
  <2>4. e \in Range(inbox) BY <1>1, <2>3 DEF Range
  <2> QED BY <2>4 DEF Comes, OnTheRoad
<1>5. Range(inbox)' = Range(inbox) BY <1>1
<1>6. Few => Kept BY <1>1, <1>2, <1>5, KeptRests DEF GatherInv
<1>7. count'.lost >= count.lost BY <1>0, <1>1 DEF Numbered
<1> QED BY <1>1, <1>2, <1>3, <1>4, <1>6, <1>7, GatherStep DEF GatherInv

LEMMA TickGathering ==
  ASSUME IInv, IInv', GatherInv, Tick, LineInv', PartialOK'
  PROVE  Gathering'
<1>0. Numbered BY DEF IInv
<1>1. UNCHANGED <<hostVars, inbox, left, arrived, count>> BY DEF Tick
<1>2. \A type : Clear(type)' <=> Clear(type) BY <1>1 DEF Clear
<1>3. ShownKept BY <1>1 DEF hostVars, ShownKept
<1>4. \A d : Comes(d)' => Comes(d) BY <1>1 DEF Comes, OnTheRoad
<1>5. Range(inbox)' = Range(inbox) BY <1>1
<1>6. Few => Kept BY <1>1, <1>2, <1>5, KeptRests DEF GatherInv
<1>7. count'.lost >= count.lost BY <1>0, <1>1 DEF Numbered
<1> QED BY <1>1, <1>2, <1>3, <1>4, <1>6, <1>7, GatherStep DEF GatherInv

\* While more of an item is to come, what is held of it has not expired.
LEMMA StillGathers ==
  ASSUME IInv, Clocks, OnTime, Few, NEW d, d.type \in Uploads, Clear(d.type), Comes(d),
         d.key \in DOMAIN assembler[d.type].partial
  PROVE  Gathers(d.type, d.key)
<1> DEFINE at == assembler[d.type].partial[d.key].updated_at
<1>1. InBox(d.type, d.key) \/ ToCome(d.type, d.key)
  BY DEF Comes, OnTheRoad, InBox, ToCome, SameItem
<1>2. /\ at \in Nat /\ now \in Nat /\ count.lost \in Nat /\ Spent \in {0, 1} /\ Expiry \in Nat
  BY ReportAssumption DEF Clocks, IInv, Numbered, Spent
<1>3. /\ at <= now /\ (InBox(d.type, d.key) => now <= at + count.lost + 1)
      /\ ~InBox(d.type, d.key) /\ ToCome(d.type, d.key) => now <= at + count.lost + Spent
  BY DEF OnTime
<1> HIDE DEF at
<1>4. now <= at + count.lost + 1 BY <1>1, <1>2, <1>3
<1>5. now - at < Expiry BY <1>2, <1>3, <1>4 DEF Few
<1> QED BY <1>5 DEF Gathers, at

LEMMA RouteGathering ==
  ASSUME IInv, IInv', Clocks, GatherInv, Route, NEW d, d = inbox[1], LineInv', Entries', ShownKept,
         \/ UNCHANGED assembler /\ d.type = "summary"
         \/ d.type \in Uploads /\ AddChunk(d)
  PROVE  Gathering'
<1>0. /\ Numbered /\ OnTheWay /\ OnTheWay' /\ DOMAIN assembler = Uploads
      /\ LineInv /\ CompletedShown /\ PartialOK /\ OnTime /\ Gathering /\ Entries
  BY DEF IInv, Memory, GatherInv, Entries
<1>1. /\ UNCHANGED <<left, arrived, count, now>>
      /\ OnTheRoad' \subseteq OnTheRoad
      /\ \A e \in Range(inbox) : e = d \/ e \in Range(inbox)'
      /\ d \in OnTheRoad /\ d \in arrived
  <2>1. 1 \in 1 .. Len(inbox) /\ UNCHANGED <<left, arrived, count, now>> BY <1>0, Routed
  <2>2. d \in Range(inbox) BY <1>0, <2>1, RangeLeft
  <2> QED BY <1>0, <2>1, <2>2, RoutedRoad DEF LineInv, Uniform
<1>2. \A type : Clear(type)' <=> Clear(type) BY <1>1 DEF Clear
<1>3. \A e : Comes(e)' => Comes(e) BY <1>1 DEF Comes
<1>4. count'.lost >= count.lost BY <1>0, <1>1 DEF Numbered
<1>5. ASSUME Few, NEW e \in arrived, e.type \in Uploads, Clear(e.type), ~ShownOf(e)', Comes(e)
      PROVE  e \in Range(inbox)' \/ InPartial(e)'
  <2>1. e \in Range(inbox) \/ InPartial(e)
    <3>1. ~ShownOf(e) BY <1>5, KeptIsShown
    <3> QED BY <1>0, <1>5, <3>1 DEF Gathering
  <2>2. InPartial(e) => Gathers(e.type, e.key) BY <1>0, <1>5, StillGathers DEF InPartial
  <2>3. CASE UNCHANGED assembler /\ d.type = "summary"
    BY <1>1, <1>5, <2>1, <2>3 DEF InPartial, Uploads
  <2>4. CASE d.type \in Uploads /\ AddChunk(d) /\ ~SameItem(d, e)
    <3>1. Others(d) BY <1>0, <2>4, Added
    <3>2. e # d BY <2>4 DEF SameItem
    <3>3. ASSUME InPartial(e) PROVE InPartial(e)'
      <4>1. Gathers(e.type, e.key) BY <2>2, <3>3
      <4>2. CASE e.type = d.type
        <5>1. e.key # d.key BY <2>4, <4>2 DEF SameItem
        <5>2. /\ e.key \in DOMAIN assembler'[e.type].partial
              /\ assembler'[e.type].partial[e.key] = assembler[e.type].partial[e.key]
          BY <3>1, <4>1, <4>2, <5>1 DEF Others
        <5> QED BY <3>3, <5>2 DEF InPartial
      <4>3. CASE e.type # d.type
        <5>1. assembler'[e.type] = assembler[e.type] BY <1>5, <3>1, <4>3 DEF Others
        <5> QED BY <3>3, <5>1 DEF InPartial
      <4> QED BY <4>2, <4>3
    <3> QED BY <1>1, <2>1, <3>2, <3>3
  <2>5. CASE d.type \in Uploads /\ AddChunk(d) /\ SameItem(d, e)
    <3>0. Clear(d.type) /\ d.type = e.type /\ d.key = e.key
      BY <1>5, <2>5 DEF SameItem, Clear
    <3>1. ~ShownOf(d)'
      <4>1. d.body = e.body
        <5>1. Genuine(d) /\ Genuine(e) BY <1>0, <1>1 DEF LineInv, Uniform
        <5> QED BY <1>0, <1>5, <3>0, <5>1, OneBody
      <4> QED BY <1>5, <2>5, <4>1, SiblingsShown
    <3>2. ~Dropped(d) /\ ~Finishes(d) BY <1>0, <2>5, <3>0, <3>1, ChunkEntries
    <3>3. \/ d.index \in DOMAIN Old(d) /\ Held(d, Old(d))
          \/ Held(d, Pieces(d))
      BY <1>0, <2>5, <3>2, Added
    <3>4. InPartial(e) => e.index \in DOMAIN Old(d)
      <4> SUFFICES ASSUME InPartial(e) PROVE e.index \in DOMAIN Old(d) OBVIOUS
      <4>1. Gathers(d.type, d.key) BY <2>2, <3>0
      <4>2. PICK f \in arrived : /\ f.type = d.type /\ f.key = d.key
                                 /\ PartOf(assembler[d.type].partial[d.key], f)
        BY <1>0, <2>5, <3>0, <4>1 DEF PartialOK, Gathers
      <4>3. Metadata(d) = Metadata(f)
        BY <1>0, <1>1, <3>0, <4>2 DEF LineInv, Uniform, Sendable, SameItem
      <4>4. Old(d) = assembler[d.type].partial[d.key].pieces
        BY <4>1, <4>2, <4>3, OldPieces DEF PartOf
      <4> QED BY <3>0, <4>4 DEF InPartial
    <3>5. /\ d.key \in DOMAIN assembler'[d.type].partial
          /\ DOMAIN Old(d) \union {d.index} \subseteq DOMAIN assembler'[d.type].partial[d.key].pieces
      <4>1. CASE d.index \in DOMAIN Old(d) /\ Held(d, Old(d))
        <5>1. /\ d.key \in DOMAIN assembler'[d.type].partial
              /\ assembler'[d.type].partial[d.key].pieces = Old(d)
          BY <4>1 DEF Held
        <5> QED BY <4>1, <5>1
      <4>2. CASE Held(d, Pieces(d))
        <5>1. /\ d.key \in DOMAIN assembler'[d.type].partial
              /\ assembler'[d.type].partial[d.key].pieces = Pieces(d)
          BY <4>2 DEF Held
        <5>2. DOMAIN Pieces(d) = DOMAIN Old(d) \union {d.index} BY NewPieces
        <5> QED BY <5>1, <5>2
      <4> QED BY <3>3, <4>1, <4>2
    <3>6. e = d \/ InPartial(e) => InPartial(e)' BY <3>0, <3>4, <3>5 DEF InPartial
    <3> QED BY <1>1, <2>1, <3>6
  <2> QED BY <2>3, <2>4, <2>5
<1>6. Few => Kept BY <1>1, <1>2, <1>5 DEF Kept
<1>7. PartialOK' BY DEF Entries
<1> QED BY <1>0, <1>1, <1>2, <1>3, <1>4, <1>6, <1>7, GatherStep

-----------------------------------------------------------------------------
LEMMA InitGather == Init => GatherInv
<1> SUFFICES ASSUME Init PROVE GatherInv OBVIOUS
<1>1. left = <<>> /\ inbox = <<>> /\ arrived = {} /\ last.scan_id = 0
  BY DEF Init, NoSummary
<1>2. 1 .. Len(left) = {} /\ Range(left) = {} /\ Range(inbox) = {}
  BY <1>1 DEF Range
<1>3. LineInv BY <1>1, <1>2 DEF LineInv, Grouped, Begun, Uniform, Sendable
<1>4. \A type \in Uploads : /\ DOMAIN assembler[type].partial = {}
                            /\ DOMAIN assembler[type].completed = {}
  BY DEF Init, Nothing, Uploads
<1>5. SummariesShown /\ CompletedShown /\ PartialOK /\ OnTime /\ Gathering
  BY <1>1, <1>4 DEF SummariesShown, CompletedShown, PartialOK, OnTime, Gathering
<1> QED BY <1>3, <1>5 DEF GatherInv

LEMMA StutterGather ==
  ASSUME GatherInv, UNCHANGED vars
  PROVE  GatherInv'
<1>1. UNCHANGED <<scan, left, busy, inbox, assembler, last, shown, arrived, count, now>>
  BY DEF vars, boardVars, hostVars
<1>2. LineInv' BY <1>1, LineRests DEF GatherInv
<1>4. Entries'
  <2>1. Entries /\ LineInv BY DEF GatherInv, Entries
  <2>2. UNCHANGED hostVars BY <1>1 DEF hostVars
  <2>3. Range(inbox)' = Range(inbox) /\ \A type : Clear(type)' => Clear(type)
    BY <1>1 DEF Clear
  <2> QED BY <1>1, <2>1, <2>2, <2>3, EntriesRest
<1>7. OnTime' BY <1>1 DEF GatherInv, OnTime, InBox, ToCome, Clear, Spent
<1>8. Gathering'
  <2>1. /\ OnTheRoad' = OnTheRoad /\ Range(inbox)' = Range(inbox) /\ (Few' <=> Few)
        /\ \A type : Clear(type)' <=> Clear(type)
    BY <1>1 DEF OnTheRoad, Few, Clear
  <2>2. \A d : /\ Comes(d)' <=> Comes(d)
               /\ ShownOf(d)' <=> ShownOf(d)
               /\ InPartial(d)' <=> InPartial(d)
               /\ ArrivedWhole(d)' <=> ArrivedWhole(d)
    BY <1>1, <2>1 DEF Comes, ShownOf, InPartial, ArrivedWhole
  <2> QED BY <1>1, <2>1, <2>2 DEF GatherInv, Gathering
<1> QED BY <1>2, <1>4, <1>7, <1>8 DEF GatherInv, Entries

LEMMA NextGather ==
  ASSUME IInv, IInv', Clocks, GatherInv, [Next]_vars
  PROVE  GatherInv'
<1>0. /\ Numbered /\ Numbered' /\ OnTheWay /\ OnTheWay' /\ LineInv /\ Grouped /\ Entries /\ OnTime
      /\ Gathering
  BY DEF IInv, GatherInv, LineInv, Entries
<1>1. CASE \E n \in 1 .. MaxChunks, angle \in BOOLEAN : Process(n, angle)
  <2>1. PICK n \in 1 .. MaxChunks, angle \in BOOLEAN : Process(n, angle) BY <1>1
  <2>2. LineInv' BY <1>0, <2>1, ProcessGather
  <2>3. UNCHANGED <<hostVars, inbox, arrived, count>> BY <1>0, <2>1, NewUpload
  <2>4. Range(inbox)' = Range(inbox) /\ \A type : Clear(type)' => Clear(type)
    BY <2>3 DEF Clear
  <2>5. Entries' BY <1>0, <2>3, <2>4, EntriesRest
  <2>6. OnTime' BY <1>0, <2>1, ProcessOnTime
  <2>7. Gathering' BY <2>1, <2>2, <2>5, ProcessGathering DEF Entries
  <2> QED BY <2>2, <2>5, <2>6, <2>7 DEF GatherInv, Entries
<1>2. CASE Sent \/ SendFails \/ Reboot
  <2>1. /\ \E m : Moved(m)
        /\ Accounted /\ count'.lost >= count.lost /\ count'.reboots >= count.reboots
    BY <1>0, <1>2, BoardMoves
  <2>2. PICK m : Moved(m) BY <2>1
  <2>3. /\ LineInv' /\ arrived \subseteq arrived' /\ Range(inbox) \subseteq Range(inbox)'
        /\ \A e \in arrived' : e \in arrived \/ e \in Range(inbox)'
    BY <1>0, <2>1, <2>2, MovedGather
  <2>4. UNCHANGED hostVars BY <2>2 DEF Moved
  <2>5. \A type : Clear(type)' => Clear(type) BY <1>0, <2>1, ClearStays
  <2>6. Entries' BY <1>0, <2>3, <2>4, <2>5, EntriesRest
  <2>7. OnTime' BY <1>0, <2>1, <2>2, MovedOnTime
  <2>8. Gathering' BY <2>1, <2>2, <2>3, <2>6, MovedGathering DEF Entries
  <2> QED BY <2>3, <2>6, <2>7, <2>8 DEF GatherInv, Entries
<1>3. CASE Route
  <2>1. PICK d : d = inbox[1] OBVIOUS
  <2>2. /\ Head(inbox) = inbox[1] /\ inbox[1] \in Datagram
        /\ UNCHANGED <<left, arrived, count, scan>>
        /\ \A p \in 1 .. Len(inbox') : p + 1 \in 1 .. Len(inbox) /\ inbox'[p] = inbox[p + 1]
    BY <1>0, <1>3, Routed
  <2>3. \/ d.type = "summary" /\ TakeSummary(d)
        \/ d.type \in Uploads /\ AddChunk(d)
    BY <1>3, <2>1, <2>2, DatagramShape DEF Route
  <2>4. Range(inbox)' \subseteq Range(inbox) BY <1>0, <2>2, RangeLeft, RangeLeftNext
  <2>5. LineInv' BY <1>0, <2>2, <2>4, LineRests
  <2>6. /\ Entries' /\ ShownKept
        /\ \/ UNCHANGED assembler /\ d.type = "summary"
           \/ d.type \in Uploads /\ AddChunk(d)
    BY <1>0, <1>3, <2>1, <2>3, SummaryEntries, ChunkEntries
  <2>7. OnTime' BY <1>0, <1>3, <2>1, <2>6, RouteOnTime
  <2>8. Gathering' BY <1>3, <2>1, <2>5, <2>6, RouteGathering
  <2> QED BY <2>5, <2>6, <2>7, <2>8 DEF GatherInv, Entries
<1>4. CASE Tick
  <2>1. UNCHANGED <<hostVars, inbox, left, arrived, count, scan>> BY <1>4 DEF Tick
  <2>2. Range(inbox)' = Range(inbox) /\ \A type : Clear(type)' => Clear(type)
    BY <2>1 DEF Clear
  <2>3. LineInv' BY <1>0, <2>1, <2>2, LineRests
  <2>4. Entries' BY <1>0, <2>1, <2>2, EntriesRest
  <2>5. OnTime' BY <1>0, <1>4, TickOnTime
  <2>6. Gathering' BY <1>4, <2>3, <2>4, TickGathering DEF Entries
  <2> QED BY <2>3, <2>4, <2>5, <2>6 DEF GatherInv, Entries
<1>5. CASE UNCHANGED vars BY <1>5, StutterGather
<1> QED BY <1>1, <1>2, <1>3, <1>4, <1>5 DEF Next

-----------------------------------------------------------------------------
LEMMA NextClocks ==
  ASSUME IInv, Clocks, [Next]_vars
  PROVE  Clocks'
<1>0. OnTheWay /\ DOMAIN assembler = Uploads BY DEF IInv, Memory
<1>1. CASE \/ \E n \in 1 .. MaxChunks, angle \in BOOLEAN : Process(n, angle)
           \/ Sent \/ SendFails \/ Reboot \/ Tick \/ UNCHANGED vars
  <2>1. UNCHANGED <<assembler, last>> /\ busy' \in BOOLEAN \union {busy} /\ now' \in {now, now + 1}
    BY <1>1 DEF Process, Sent, SendFails, Reboot, Tick, vars, boardVars, hostVars
  <2> QED BY <2>1 DEF Clocks
<1>2. CASE Route
  <2>1. PICK d : d = inbox[1] OBVIOUS
  <2>2. /\ Head(inbox) = d /\ d \in Datagram /\ UNCHANGED <<busy, now>>
    BY <1>0, <1>2, <2>1, Routed DEF boardVars
  <2>3. \/ d.type = "summary" /\ TakeSummary(d)
        \/ d.type \in Uploads /\ AddChunk(d)
    BY <1>2, <2>2, DatagramShape DEF Route
  <2>4. CASE d.type = "summary" /\ TakeSummary(d)
    <3>1. d.key[1] \in Nat BY <2>2, <2>4, DatagramFields
    <3>2. /\ last' \in [scan_id : Nat, seen : Nat] /\ UNCHANGED <<assembler, busy, now>>
      BY <2>2, <2>4, <3>1 DEF TakeSummary, Clocks
    <3> QED BY <3>2 DEF Clocks
  <2> QED BY <1>0, <2>2, <2>3, <2>4, ChunkClocks
<1> QED BY <1>1, <1>2 DEF Next

\* The same before it.
LEMMA HeldNotWhole ==
  ASSUME LineInv, PartialOK, NEW d \in arrived, d.type \in Uploads, Clear(d.type),
         \A e \in arrived : SameItem(d, e) => InPartial(e)
  PROVE  ~ArrivedWhole(d)
<1> DEFINE entry == assembler[d.type].partial[d.key]
<1>1. SameItem(d, d) BY DEF SameItem
<1>2. d.key \in DOMAIN assembler[d.type].partial BY <1>1 DEF InPartial
<1>3. PICK e \in arrived : e.type = d.type /\ e.key = d.key /\ PartOf(entry, e)
  BY <1>2 DEF PartialOK
<1>4. Metadata(d) = Metadata(e)
  <2>1. d \in Sendable /\ e \in Sendable /\ SameItem(d, e) BY <1>3 DEF Sendable, SameItem
  <2> QED BY <2>1 DEF LineInv, Uniform
<1>5. d.count = e.count BY <1>4 DEF Metadata
<1>6. PICK i \in 0 .. d.count - 1 : i \notin DOMAIN entry.pieces BY <1>3, <1>5 DEF PartOf
<1>7. ASSUME NEW f \in arrived, f.type = d.type, f.key = d.key, f.index = i PROVE FALSE
  <2>1. InPartial(f) BY <1>7 DEF SameItem
  <2>2. i \in DOMAIN entry.pieces BY <1>7, <2>1 DEF InPartial
  <2> QED BY <1>6, <2>2
<1> QED BY <1>6, <1>7 DEF ArrivedWhole

\* What has arrived whole and is read is shown, unless the assemblers ran out of
\* patience.
LEMMA ReadIsShown ==
  ASSUME IInv, GatherInv, Few, inbox = <<>>, NEW d \in arrived, ArrivedWhole(d), ~Ambiguous(d)
  PROVE  ShownOf(d)
<1>0. Numbered /\ LineInv /\ PartialOK /\ SummariesShown /\ Gathering BY DEF IInv, GatherInv
<1>1. Range(inbox) = {} BY DEF Range
<1>2. d \in Datagram /\ Genuine(d) BY <1>0 DEF LineInv, Uniform
<1>3. CASE d.type = "summary" BY <1>0, <1>1, <1>3 DEF SummariesShown
<1>4. CASE d.type \in Uploads
  <2> SUFFICES ASSUME ~ShownOf(d) PROVE FALSE OBVIOUS
  <2>1. Clear(d.type) BY <1>0 DEF Numbered, Ambiguous, Clear
  <2>2. Comes(d) BY <1>0, <1>4, <2>1 DEF Gathering
  <2>3. ASSUME NEW e \in arrived, SameItem(d, e) PROVE InPartial(e)
    <3>1. Genuine(e) /\ e.type = d.type BY <1>0, <2>3 DEF LineInv, Uniform, SameItem
    <3>2. d.body = e.body BY <1>0, <1>2, <2>1, <2>3, <3>1, OneBody DEF SameItem
    <3>3. ~ShownOf(e) BY <2>3, <3>2, SiblingsShown
    <3>4. Comes(e) BY <2>2, <2>3 DEF Comes, SameItem
    <3> QED BY <1>0, <1>1, <1>4, <2>1, <3>1, <3>3, <3>4 DEF Gathering
  <2> QED BY <1>0, <1>4, <2>1, <2>3, HeldNotWhole
<1> QED BY <1>2, <1>3, <1>4, DatagramShape

LossesBounded == count.lost <= MaxLost

LEMMA NextLosses ==
  ASSUME IInv, LossesBounded, [Next]_vars
  PROVE  LossesBounded'
<1>1. count.lost \in Nat /\ MaxLost \in Nat
      /\ count = [lost |-> count.lost, failures |-> count.failures, reboots |-> count.reboots]
  BY ReportAssumption DEF IInv, Numbered
<1>2. CASE UNCHANGED count BY <1>2 DEF LossesBounded
<1>3. CASE Sent BY <1>1, <1>2, <1>3 DEF Sent, Transmit, LossesBounded
<1>4. CASE SendFails \/ Reboot
  <2>1. count'.lost = count.lost BY <1>1, <1>4 DEF SendFails, Reboot
  <2> QED BY <2>1 DEF LossesBounded
<1> QED BY <1>2, <1>3, <1>4 DEF Next, Process, Route, Tick, vars

\* The assemblers forget no item of which more is to come (GatherInv is
\* inductive together with what it needs of the clock and the identifiers).
THEOREM NothingGivenUp == Spec => [](IInv /\ Clocks /\ GatherInv)
<1>1. Init => IInv /\ Clocks /\ GatherInv BY InitIInv, InitOnce, InitGather DEF OnceInv
<1>2. IInv /\ Clocks /\ GatherInv /\ [Next]_vars => (IInv /\ Clocks /\ GatherInv)'
  BY NextIInv, NextClocks, NextGather
<1> QED BY <1>1, <1>2, PTL DEF Spec

\* What reached the host whole is shown as soon as it is read, for as long as
\* the losses so far cannot have kept an item waiting until it expired.
THEOREM ReadInTime == Spec => [](Few => ArrivedIsShown)
<1>1. IInv /\ Clocks /\ GatherInv => (Few => ArrivedIsShown)
  BY ReadIsShown DEF ArrivedIsShown
<1> QED BY <1>1, NothingGivenUp, PTL

\* The same for a link that never loses so many.
THEOREM NothingForgotten ==
  ASSUME MaxLost + 1 < Expiry
  PROVE  Spec => []ArrivedIsShown
<1>1. Init => LossesBounded BY ReportAssumption DEF Init, LossesBounded
<1>2. IInv /\ LossesBounded => Few
  BY ReportAssumption DEF LossesBounded, Few, IInv, Numbered
<1> QED BY <1>1, <1>2, NextLosses, NothingGivenUp, ReadInTime, PTL DEF Spec

-----------------------------------------------------------------------------
(***************************************************************************)
(* One lost datagram                                                       *)
(***************************************************************************)
Unharmed == count.lost <= 1 /\ count.failures = 0 /\ count.reboots = 0

\* There is another copy of d to send.
Spare(d) == \E p, q \in 1 .. Len(left) : p # q /\ left[p] = d /\ left[q] = d

\* Of every scan a report and a summary were sent or will be; what was begun is
\* or will be sent whole.
SentWhole ==
  /\ \A s \in 1 .. scan, type \in {"text", "summary"} :
       \E d \in Sendable : d.body = s /\ d.type = type
  /\ \A d \in Sendable : \A i \in 0 .. d.count - 1 :
       \E e \in Sendable : SameItem(e, d) /\ e.index = i

LossInv ==
  Unharmed => /\ count.lost = 0 => \A d \in Range(left) : d \in arrived \/ Spare(d)
              /\ SentWhole

LEMMA InitLoss == Init => LossInv
<1> SUFFICES ASSUME Init PROVE LossInv OBVIOUS
<1>1. left = <<>> /\ arrived = {} /\ scan = 0 BY DEF Init
<1>2. 1 .. scan = {} /\ Range(left) = {} BY <1>1 DEF Range
<1> QED BY <1>1, <1>2 DEF LossInv, SentWhole, Sendable

LEMMA ProcessLoss ==
  ASSUME IInv, IInv', LossInv, NEW n \in 1 .. MaxChunks, NEW angle \in BOOLEAN, Process(n, angle)
  PROVE  LossInv'
<1>0. Numbered /\ OnTheWay /\ OnTheWay' BY DEF IInv
<1>1. /\ Entire(left') /\ Doubled(left') /\ Of(left', scan + 1, report_id + 1)
      /\ \E p \in 1 .. Len(left') : left'[p].type = "text"
      /\ \E p \in 1 .. Len(left') : left'[p].type = "summary"
      /\ left = <<>> /\ scan' = scan + 1 /\ UNCHANGED <<arrived, count>>
  BY <1>0, NewUpload DEF Shape
<1> SUFFICES ASSUME Unharmed
             PROVE  /\ \A d \in Range(left)' : d \in arrived' \/ Spare(d)'
                    /\ SentWhole'
  BY <1>1 DEF LossInv, Unharmed
<1>2. SentWhole BY DEF LossInv
<1>3. Sendable = arrived /\ Sendable' = arrived \union Range(left)'
  <2>1. Range(left) = {} BY <1>1 DEF Range
  <2> QED BY <1>1, <2>1 DEF Sendable
<1>4. ASSUME NEW d \in Range(left)' PROVE Spare(d)'
  <2>1. PICK p \in 1 .. Len(left') : left'[p] = d BY <1>0, RangeLeftNext
  <2>2. PICK q \in 1 .. Len(left') : q # p /\ left'[q] = left'[p] BY <1>1 DEF Doubled
  <2> QED BY <2>1, <2>2 DEF Spare
<1>5. ASSUME NEW s \in 1 .. scan', NEW type \in {"text", "summary"}
      PROVE  \E d \in Sendable' : d.body = s /\ d.type = type
  <2>1. CASE s \in 1 .. scan BY <1>2, <1>3, <2>1 DEF SentWhole
  <2>2. CASE s = scan + 1
    <3>1. PICK p \in 1 .. Len(left') : left'[p].type = type BY <1>1
    <3>2. left'[p].body = scan + 1 BY <1>1 DEF Of
    <3>3. left'[p] \in Sendable' BY <1>0, <1>3, RangeLeftNext
    <3> QED BY <2>2, <3>1, <3>2, <3>3
  <2> QED BY <1>0, <1>1, <2>1, <2>2 DEF Numbered
<1>6. ASSUME NEW d \in Sendable', NEW i \in 0 .. d.count - 1
      PROVE  \E e \in Sendable' : SameItem(e, d) /\ e.index = i
  <2>1. CASE d \in arrived BY <1>2, <1>3, <2>1 DEF SentWhole
  <2>2. CASE d \in Range(left)'
    <3>1. PICK p \in 1 .. Len(left') : left'[p] = d BY <1>0, <2>2, RangeLeftNext
    <3>2. PICK q \in 1 .. Len(left') : SameItem(left'[q], left'[p]) /\ left'[q].index = i
      BY <1>1, <3>1 DEF Entire
    <3>3. left'[q] \in Sendable' BY <1>0, <1>3, RangeLeftNext
    <3> QED BY <3>1, <3>2, <3>3
  <2> QED BY <1>3, <2>1, <2>2
<1> QED BY <1>4, <1>5, <1>6 DEF SentWhole

LEMMA SentLoss ==
  ASSUME IInv, IInv', LossInv, Sent
  PROVE  LossInv'
<1>0. Numbered /\ OnTheWay /\ OnTheWay' BY DEF IInv
<1> DEFINE d == left[1]
<1>1. /\ left # <<>> /\ 1 \in 1 .. Len(left) /\ Len(left) \in Nat /\ Len(left') = Len(left) - 1
      /\ \A k \in 1 .. Len(left') : left'[k] = left[k + 1]
      /\ scan' = scan
      /\ \/ arrived' = arrived \union {left[1]} /\ UNCHANGED count
         \/ arrived' = arrived /\ count' = [count EXCEPT !.lost = @ + 1]
  BY <1>0 DEF Sent, Transmit, OnTheWay
<1>2. /\ count.lost \in Nat /\ count'.failures = count.failures
      /\ count'.reboots = count.reboots /\ count'.lost \in {count.lost, count.lost + 1}
      /\ count'.lost = count.lost => arrived' = arrived \union {left[1]}
      /\ arrived' \in {arrived, arrived \union {left[1]}}
  BY <1>0, <1>1 DEF Numbered
<1> SUFFICES ASSUME Unharmed'
             PROVE  /\ count'.lost = 0 => \A e \in Range(left)' : e \in arrived' \/ Spare(e)'
                    /\ SentWhole'
  BY DEF LossInv
<1>3. /\ count.lost = 0 => \A e \in Range(left) : e \in arrived \/ Spare(e)
      /\ SentWhole
  BY <1>2 DEF LossInv, Unharmed
<1>4. \A q \in 1 .. Len(left) : q = 1 \/ (q - 1 \in 1 .. Len(left') /\ left'[q - 1] = left[q])
  BY <1>1
<1>5. \A e \in Range(left)' : e \in Range(left)
  <2> SUFFICES ASSUME NEW e \in Range(left)' PROVE e \in Range(left) OBVIOUS
  <2>1. PICK q \in 1 .. Len(left') : left'[q] = e BY <1>0, RangeLeftNext
  <2>2. q + 1 \in 1 .. Len(left) /\ left[q + 1] = e BY <1>1, <2>1
  <2> QED BY <1>0, <2>2, RangeLeft
<1>6. \A e \in Range(left) : e = left[1] \/ e \in Range(left)'
  <2> SUFFICES ASSUME NEW e \in Range(left), e # left[1] PROVE e \in Range(left)' OBVIOUS
  <2>1. PICK q \in 1 .. Len(left) : left[q] = e BY <1>0, RangeLeft
  <2>2. q - 1 \in 1 .. Len(left') /\ left'[q - 1] = e BY <1>4, <2>1
  <2> QED BY <1>0, <2>2, RangeLeftNext
<1>7. left[1] \in arrived' \/ left[1] \in Range(left)'
  <2>1. CASE count'.lost = count.lost BY <1>2, <2>1
  <2>2. CASE count'.lost = count.lost + 1
    <3>1. count.lost = 0 BY <1>2, <2>2 DEF Unharmed
    <3>2. left[1] \in Range(left) BY <1>0, <1>1, RangeLeft
    <3>3. left[1] \in arrived \/ Spare(left[1]) BY <1>3, <3>1, <3>2
    <3>4. ASSUME Spare(left[1]) PROVE left[1] \in Range(left)'
      <4>1. PICK p \in 1 .. Len(left), q \in 1 .. Len(left) :
              p # q /\ left[p] = left[1] /\ left[q] = left[1]
        BY <3>4 DEF Spare
      <4>2. PICK r \in 1 .. Len(left) : r # 1 /\ left[r] = left[1] BY <4>1
      <4>3. r - 1 \in 1 .. Len(left') /\ left'[r - 1] = left[1] BY <1>4, <4>2
      <4> QED BY <1>0, <4>3, RangeLeftNext
    <3> QED BY <1>2, <3>3, <3>4
  <2> QED BY <1>2, <2>1, <2>2
<1>8. left[1] \in Sendable BY <1>0, <1>1, RangeLeft DEF Sendable
<1>9. Sendable' = Sendable BY <1>2, <1>5, <1>6, <1>7, <1>8 DEF Sendable
<1>10. SentWhole' BY <1>1, <1>3, <1>9 DEF SentWhole
<1>11. ASSUME count'.lost = 0, NEW e \in Range(left)' PROVE e \in arrived' \/ Spare(e)'
  <2>1. count.lost = 0 /\ arrived' = arrived \union {left[1]} BY <1>2, <1>11
  <2>2. e \in arrived \/ Spare(e) BY <1>3, <1>5, <1>11, <2>1
  <2>3. CASE Spare(e)
    <3>1. PICK p \in 1 .. Len(left), q \in 1 .. Len(left) : p # q /\ left[p] = e /\ left[q] = e
      BY <2>3 DEF Spare
    <3>2. CASE p = 1 \/ q = 1 BY <2>1, <3>1, <3>2
    <3>3. CASE p # 1 /\ q # 1
      <4>1. /\ p - 1 \in 1 .. Len(left') /\ left'[p - 1] = e
            /\ q - 1 \in 1 .. Len(left') /\ left'[q - 1] = e /\ p - 1 # q - 1
        BY <1>4, <3>1, <3>3
      <4> QED BY <4>1 DEF Spare
    <3> QED BY <3>2, <3>3
  <2> QED BY <2>1, <2>2, <2>3
<1> QED BY <1>10, <1>11

LEMMA NextLoss ==
  ASSUME IInv, IInv', LossInv, [Next]_vars
  PROVE  LossInv'
<1>0. Numbered BY DEF IInv
<1>1. CASE SendFails \/ Reboot
  <2>1. /\ count \in [lost : Nat, failures : Nat, reboots : Nat]
        /\ \/ count' = [count EXCEPT !.failures = @ + 1]
           \/ count' = [count EXCEPT !.reboots = @ + 1]
    BY <1>0, <1>1 DEF Numbered, SendFails, Reboot
  <2>2. count'.failures = count.failures + 1 \/ count'.reboots = count.reboots + 1 BY <2>1
  <2>3. ~Unharmed' BY <2>1, <2>2 DEF Unharmed
  <2> QED BY <2>3 DEF LossInv
<1>2. CASE Route \/ Tick \/ UNCHANGED vars
  <2>1. UNCHANGED <<left, arrived, count, scan>>
    BY <1>2 DEF Route, Tick, vars, boardVars
  <2>2. Sendable' = Sendable BY <2>1 DEF Sendable
  <2>3. SentWhole' <=> SentWhole BY <2>1, <2>2 DEF SentWhole
  <2> QED BY <2>1, <2>3 DEF LossInv, Unharmed, Spare
<1> QED BY <1>1, <1>2, ProcessLoss, SentLoss DEF Next

\* One lost datagram costs the operator nothing: every report, summary and map
\* that was sent is shown.
THEOREM OneLossHarmless ==
  ASSUME Expiry > 2
  PROVE  Spec => []OneLossIsNothing
<1> DEFINE Inv == IInv /\ GatherInv /\ LossInv
<1>1. Init => LossInv BY InitLoss
<1>2. IInv /\ IInv' /\ LossInv /\ [Next]_vars => LossInv' BY NextLoss
<1>3. Inv => OneLossIsNothing
  <2> SUFFICES ASSUME Inv, left = <<>>, inbox = <<>>, Unharmed
               PROVE  /\ \A s \in 1 .. scan :
                           {"text", "summary"} \subseteq {d.type : d \in {e \in arrived : e.body = s}}
                      /\ \A d \in arrived : ShownOf(d)
    BY DEF OneLossIsNothing, Unharmed
  <2>1. Sendable = arrived /\ SentWhole
    <3>1. Range(left) = {} BY DEF Range
    <3> QED BY <3>1 DEF Sendable, LossInv
  <2>2. \A s \in 1 .. scan, type \in {"text", "summary"} :
          \E d \in arrived : d.body = s /\ d.type = type
    BY <2>1 DEF SentWhole
  <2>3. ASSUME NEW d \in arrived PROVE ShownOf(d)
    <3>1. ArrivedWhole(d) BY <2>1 DEF SentWhole, ArrivedWhole, SameItem
    <3>2. ~Ambiguous(d) BY DEF Unharmed, Ambiguous
    <3>3. Few BY ReportAssumption DEF Unharmed, Few, IInv, Numbered
    <3> QED BY <3>1, <3>2, <3>3, ReadIsShown
  <2> QED BY <2>2, <2>3
<1> QED BY <1>1, <1>2, <1>3, NothingGivenUp, PTL DEF Spec
================================================================================
