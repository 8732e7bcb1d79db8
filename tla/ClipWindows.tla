---------------------------- MODULE ClipWindows -----------------------------
(***************************************************************************)
(* Where suggestions of clips come from: windows of the video around what  *)
(* its analysis noticed, padded, brought to a length that a clip may have, *)
(* and merged with the one before where they overlap.                      *)
(*                                                                         *)
(* Source: RuleOpportunityProvider and _bounded_window of                  *)
(* app/opportunities/service.py, normalize_timeline of                     *)
(* app/analysis/service.py.                                                *)
(*                                                                         *)
(* Times are whole units (the code rounds a window to 1 ms).  Scores and   *)
(* reasons are left out: in ClipOpportunities any of the windows, its      *)
(* Moments, may be kept.                                                   *)
(***************************************************************************)
EXTENDS Integers, Sequences

CONSTANTS
    MinLength, MaxLength,   \* opportunity_min_, _max_duration_seconds
    PadBefore, PadAfter,    \* opportunity_padding_before_, _after_seconds
    MergeTenths,            \* opportunity_merge_overlap, in tenths
    Durations,              \* how long videos are
    Overshoot,              \* bound: of a transcript beyond the end of the video
    MaxAnchors              \* bound: transcript lines, segments and events

ASSUME WindowsAssumption ==
    /\ MinLength \in Nat \ {0} /\ MaxLength \in Nat /\ MinLength <= MaxLength
    /\ PadBefore \in Nat /\ PadAfter \in Nat /\ MergeTenths \in 0..10
    /\ Durations \subseteq Nat \ {0} /\ Overshoot \in Nat /\ MaxAnchors \in Nat

VARIABLES
    duration,   \* duration_seconds of the analysis
    noticed,    \* how many anchors there are
    waiting,    \* the windows that the loop has not come to, and how many of each
    merged      \* the list that the loop builds

windowRows == <<duration, noticed, waiting, merged>>

Windows == {w \in (0..duration) \X (0..duration) : w[1] <= w[2]}

Larger(a, b) == IF a > b THEN a ELSE b
Smaller(a, b) == IF a > b THEN b ELSE a
Span(w) == w[2] - w[1]

-----------------------------------------------------------------------------
(* A window of this length about the middle of w, moved back when it does  *)
(* not fit before the end.  (Mutant: cut off there.)                       *)
FromStart(w, length) == Larger(0, (w[1] + w[2] - length) \div 2)
EndOf(w, length) == Smaller(duration, FromStart(w, length) + length)
CutOff(w, length) == <<FromStart(w, length), EndOf(w, length)>>
Resized(w, length) == <<Larger(0, EndOf(w, length) - length), EndOf(w, length)>>

Padded(w) == <<Larger(0, w[1] - PadBefore), Smaller(duration, w[2] + PadAfter)>>
Lengthened(w) == IF Span(w) < MinLength THEN Resized(w, MinLength) ELSE w
Shortened(w) == IF Span(w) > MaxLength THEN Resized(w, MaxLength) ELSE w

BoundedWindow(w) == Shortened(Lengthened(Padded(w)))

Overlap(v, w) == Larger(0, Smaller(v[2], w[2]) - Larger(v[1], w[1]))
Overlapping(v, w) == 10 * Overlap(v, w) >= MergeTenths * Smaller(Span(v), Span(w))
Union(v, w) == BoundedWindow(<<Smaller(v[1], w[1]), Larger(v[2], w[2])>>)

(* sorted by start, then end.                                              *)
Before(v, w) == v[1] < w[1] \/ (v[1] = w[1] /\ v[2] < w[2])

-----------------------------------------------------------------------------
Waits(w) == waiting' = [waiting EXCEPT ![w] = @ + 1]

(* Segments and events were brought within the video by normalize_timeline,*)
(* lines of a transcript were not.                                         *)
Notice ==
    /\ merged = <<>> /\ noticed < MaxAnchors
    /\ \E start, end \in 0..(duration + Overshoot) :
          start < end /\ Waits(BoundedWindow(<<start, end>>))
    /\ noticed' = noticed + 1
    /\ UNCHANGED <<duration, merged>>

(* opportunity_fallback_behavior: the beginning, when nothing was noticed. *)
FallBack ==
    /\ noticed = 0
    /\ Waits(BoundedWindow(<<0, Smaller(duration, MinLength)>>))
    /\ noticed' = MaxAnchors
    /\ UNCHANGED <<duration, merged>>

(* _merge_windows, a round of its loop.                                    *)
TakeWindow ==
    LET n == Len(merged) IN
    \E w \in Windows :
        /\ waiting[w] > 0 /\ \A v \in Windows : waiting[v] > 0 => ~Before(v, w)
        /\ waiting' = [waiting EXCEPT ![w] = @ - 1]
        /\ \/ n > 0 /\ Overlapping(merged[n], w)
              /\ merged' = [merged EXCEPT ![n] = Union(merged[n], w)]
           \/ (n > 0 => ~Overlapping(merged[n], w))
              /\ merged' = Append(merged, w)
        /\ UNCHANGED <<duration, noticed>>

WindowsInit ==
    /\ duration \in Durations /\ noticed = 0 /\ merged = <<>>
    /\ waiting = [w \in Windows |-> 0]

FindWindows == Notice \/ FallBack \/ TakeWindow
WindowsSpec == WindowsInit /\ [][FindWindows]_windowRows

WindowsTypeOK ==
    /\ duration \in Durations /\ noticed \in 0..MaxAnchors
    /\ waiting \in [Windows -> Nat] /\ merged \in Seq(Windows)

(* What is suggested can be cut: however windows are padded, moved and     *)
(* merged, also at either end of the video and for lines that overshoot    *)
(* it, every window lies within the video, is no longer than a clip may    *)
(* be, and as long as it has to be if the video is.                        *)
Fits(w) ==
    /\ w \in Windows
    /\ Span(w) <= MaxLength /\ Span(w) >= Smaller(MinLength, duration)

WindowsFit ==
    /\ \A w \in Windows : waiting[w] > 0 => Fits(w)
    /\ \A i \in DOMAIN merged : Fits(merged[i])
=============================================================================
