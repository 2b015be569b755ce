---- MODULE MCRawCapture ----
(***************************************************************************)
(* Model values for RawCapture.  Chunks hold 3 units and the store 6.      *)
(*   t1  4 units (slots of 3 and 1), scan 1                                *)
(*   t2  other bytes of the same length sent under the same scan id: a     *)
(*       replay run again with an explicit --scan-id; holds no header      *)
(*   t3  2 units, scan 2: one chunk that is both FIRST and LAST            *)
(***************************************************************************)
EXTENDS RawCapture, TLC

CONSTANTS t1, t2, t3, none, pc, other, nomac

MCTransfers == {t1, t2, t3}
IdOf == t1 :> 1 @@ t2 :> 1 @@ t3 :> 2
MCHasFrames == {t1, t3}
TotalLen == t1 :> 4 @@ t2 :> 4 @@ t3 :> 2
MCStations == {pc, other}

\* What udp_scan_replay.py's send_scan puts in chunk i of t, chunk size cs.
HostChunk(t, cs, i, body) ==
  LET off == i * cs
      len == IF TotalLen[t] - off < cs THEN TotalLen[t] - off ELSE cs
  IN [kind |-> "chunk", src |-> pc, scan_id |-> IdOf[t],
      total_len |-> TotalLen[t], offset |-> off, chunk_index |-> i,
      chunk_count |-> (TotalLen[t] + cs - 1) \div cs, chunk_len |-> len,
      first |-> (i = 0), scan_crc32 |-> t, body |-> body]

\* --chunk-size 3 is the firmware's; 2 makes t1 as many chunks, but short.
\* Session 2 is opened by another station, which asks for no reply.
MCFrames ==
  {[kind |-> "start", src |-> s, session |-> n, port |-> p] :
      <<s, n, p>> \in {<<pc, 1, 7>>, <<other, 2, 0>>}}
  \cup {HostChunk(t, 3, 0, "intact") : t \in MCTransfers}
  \cup {HostChunk(t, 3, 1, "intact") : t \in {t1, t2}}
  \cup {HostChunk(t1, 3, 0, "damaged"), HostChunk(t1, 3, 1, "aliased"),
        HostChunk(t1, 2, 0, "intact"), HostChunk(t1, 2, 1, "intact")}
  \cup {[kind |-> "arp", src |-> other], [kind |-> "malformed", src |-> pc],
        [kind |-> "udp", src |-> pc], [kind |-> "other", src |-> other]}
====
