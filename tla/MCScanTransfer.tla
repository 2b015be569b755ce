---- MODULE MCScanTransfer ----
(***************************************************************************)
(* Model values for ScanTransfer.  Chunks hold 1 unit; capture a takes two *)
(* chunks, b one (both FIRST and LAST), and c, one chunk long, holds no    *)
(* radar frame.                                                            *)
(***************************************************************************)
EXTENDS ScanTransfer, TLC

CONSTANTS a, b, c, none, pc, nomac

MCTransfers == {a, b, c}
MCTotalLen == a :> 2 @@ b :> 1 @@ c :> 1
MCHasFrames == {a, b}
MCStations == {pc}

Scan(t, n) == [data |-> t, id |-> n]
LongPlan == <<Scan(a, 1), Scan(b, 2)>>
\* While the board is busy with b the spare copies of its chunk fill a ring of
\* two, so that the START of a overflows.
MixedPlan == <<Scan(b, 1), Scan(a, 2), Scan(c, 3)>>

\* RawCapture's Frames: what this client can send.
MCFrames == {StartFrame(r) : r \in 1 .. Len(Plan)}
            \cup UNION {{ChunkFrame(s, i) : i \in 0 .. (ChunkCount(s) - 1)} : s \in Scans}
====
