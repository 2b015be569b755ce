---- MODULE MCRangeDetection ----
(***************************************************************************)
(* Model values for RangeDetection: 18 bins, the self-coupling in the      *)
(* first, echoes from bin 7 on.                                            *)
(***************************************************************************)
EXTENDS RangeDetection

\* A strong self-coupling that has decayed at bin 3 or, leaking, at bin 4.
Coupling == <<300, 120, 30, 1, 2, 1, 2>>
Leaking  == <<300, 120, 30, 9, 2, 1, 2>>

\* Powers of the bins from 7 on: noise alone, a target at one of two places,
\* two targets, a target with a long shoulder, one so strong that its half power
\* wraps around, a spike, more lines than the peak list has room for, one at the
\* end of the range beside others, and one at the edge of the near field.
Quiet    == <<2, 1, 3, 1, 2, 3, 1, 2, 1, 2, 1>>
Target   == <<2, 1, 3, 90, 60, 3, 1, 2, 3, 1, 1>>
Moved    == <<1, 3, 1, 8, 90, 70, 5, 1, 2, 1, 2>>
Two      == <<2, 1, 70, 8, 1, 2, 80, 30, 2, 1, 1>>
Shoulder == <<1, 2, 20, 46, 70, 92, 4, 2, 1, 1, 2>>
Strong   == <<2, 5, 40, 60, 240, 80, 60, 50, 7, 5, 2>>
Spike    == <<1, 2, 1, 3, 2, 60, 1, 3, 2, 2, 1>>
Crowded  == <<1, 2, 70, 60, 1, 3, 80, 90, 2, 1, 1>>
AtEnd    == <<1, 20, 8, 8, 40, 8, 40, 60, 8, 2, 100>>
Close    == <<90, 30, 2, 1, 2, 1, 3, 2, 1, 2, 1>>

Frame(near, far) == [b \in 0 .. 17 |-> IF b < 7 THEN near[b + 1] ELSE far[b - 6]]

\* The first scan leaves behind what the second, with any spectra, starts from.
MCSpectra ==
  <<{Frame(Coupling, Target), Frame(Leaking, Moved)},
    {Frame(Coupling, f) :
       f \in {Quiet, Target, Moved, Two, Shoulder, Strong, Spike, Crowded, AtEnd}}
      \union {Frame(Leaking, f) : f \in {Target, Close}}>>
====
