-------------------------- MODULE ClipWindowsProofs --------------------------
(***************************************************************************)
(* Proofs about ClipWindows: for any lengths, paddings and tolerance, any  *)
(* videos and any number of things noticed in them, what is suggested can  *)
(* be cut.                                                                 *)
(***************************************************************************)
EXTENDS ClipWindows, TLAPS

(* A window that the code may hand to _bounded_window.                     *)
Raw == Int \X Int

(* _bounded_window, when a window is moved to a length: it ends within the *)
(* video and has the length, or the video's if that is shorter.            *)
LEMMA ResizedFits ==
    ASSUME duration \in Nat, NEW w \in Raw, NEW length \in Nat
    PROVE  /\ Resized(w, length) \in Windows
           /\ Span(Resized(w, length)) = Smaller(length, duration)
<1> DEFINE middle == (w[1] + w[2] - length) \div 2
           start == FromStart(w, length)
           end == EndOf(w, length)
<1>1. middle \in Int
  BY DEF Raw
<1>2. start \in Nat
  BY <1>1 DEF FromStart, Larger
<1>3. /\ end \in Nat /\ end <= duration
      /\ end = duration \/ end >= length
      /\ end >= Smaller(length, duration)
  BY <1>2 DEF EndOf, Smaller
<1>4. /\ Larger(0, end - length) \in 0..duration
      /\ end - Larger(0, end - length) = Smaller(length, duration)
  BY <1>3 DEF Larger, Smaller
<1>5. Resized(w, length) = <<Larger(0, end - length), end>>
  BY DEF Resized
<1> HIDE DEF start, end, middle
<1>6. Larger(0, end - length) <= end
  BY <1>3, <1>4 DEF Smaller
<1> QED
  BY <1>3, <1>4, <1>5, <1>6 DEF Windows, Span

(* Whatever was noticed, _bounded_window returns a window that can be cut. *)
LEMMA BoundedWindowFits ==
    ASSUME duration \in Nat, WindowsAssumption, NEW w \in Raw, w[2] >= 0
    PROVE  Fits(BoundedWindow(w))
<1> DEFINE p == Padded(w)
           l == Lengthened(p)
<1>0. /\ MinLength \in Nat /\ MaxLength \in Nat /\ MinLength <= MaxLength
      /\ PadBefore \in Nat /\ PadAfter \in Nat
  BY DEF WindowsAssumption
<1>1. p \in Raw /\ p[1] >= 0 /\ p[2] <= duration /\ p[2] >= 0
  BY <1>0 DEF Padded, Raw, Larger, Smaller
<1>2. l \in Windows /\ Span(l) >= Smaller(MinLength, duration)
  <2>1. CASE Span(p) < MinLength
    <3>1. l = Resized(p, MinLength)
      BY <2>1 DEF Lengthened
    <3>2. Smaller(MinLength, duration) \in Int
      BY <1>0 DEF Smaller
    <3> HIDE DEF p, l
    <3> QED
      BY <3>1, <3>2, <1>0, <1>1, ResizedFits
  <2>2. CASE ~(Span(p) < MinLength)
    <3>1. l = p
      BY <2>2 DEF Lengthened
    <3> HIDE DEF p, l
    <3>2. p = <<p[1], p[2]>> /\ p[1] \in Int /\ p[2] \in Int
      BY <1>1 DEF Raw
    <3>3. p[2] - p[1] >= MinLength
      BY <2>2, <3>2, <1>0 DEF Span
    <3> QED
      BY <3>1, <3>2, <3>3, <1>0, <1>1 DEF Windows, Span, Smaller
  <2> QED
    BY <2>1, <2>2
<1>3. BoundedWindow(w) = Shortened(l)
  BY DEF BoundedWindow
<1> HIDE DEF p, l
<1>4. Windows \subseteq Raw /\ Span(l) \in Int
  BY <1>2 DEF Windows, Raw, Span
<1>5. CASE Span(l) > MaxLength
  <2>1. Shortened(l) = Resized(l, MaxLength)
    BY <1>5 DEF Shortened
  <2>2. /\ Resized(l, MaxLength) \in Windows
        /\ Span(Resized(l, MaxLength)) = Smaller(MaxLength, duration)
    BY <1>0, <1>2, <1>4, ResizedFits
  <2>3. /\ Smaller(MaxLength, duration) <= MaxLength
        /\ Smaller(MaxLength, duration) >= Smaller(MinLength, duration)
    BY <1>0 DEF Smaller
  <2> QED
    BY <1>3, <2>1, <2>2, <2>3 DEF Fits
<1>6. CASE ~(Span(l) > MaxLength)
  <2>1. Shortened(l) = l
    BY <1>6 DEF Shortened
  <2> QED
    BY <1>0, <1>2, <1>3, <1>4, <1>6, <2>1 DEF Fits
<1> QED
  BY <1>5, <1>6
-----------------------------------------------------------------------------
(* Where windows lie depends on the duration alone, which does not change. *)
WindowsInv == WindowsTypeOK /\ WindowsFit

LEMMA SameVideo ==
    ASSUME UNCHANGED duration, NEW w
    PROVE  Windows' = Windows /\ (Fits(w)' <=> Fits(w))
  BY DEF Windows, Fits, Smaller, Span

LEMMA DurationIsNatural == WindowsAssumption /\ WindowsTypeOK => duration \in Nat
  BY DEF WindowsAssumption, WindowsTypeOK

(* One more window waits; that it fits is what has to be known of it.      *)
LEMMA WaitsKeeps ==
    ASSUME WindowsInv, WindowsAssumption, NEW w \in Raw, w[2] >= 0,
           Waits(BoundedWindow(w)), UNCHANGED <<duration, merged>>,
           noticed' \in 0..MaxAnchors
    PROVE  WindowsInv'
<1> DEFINE b == BoundedWindow(w)
<1>1. duration \in Nat /\ Windows' = Windows
  BY DurationIsNatural, SameVideo DEF WindowsInv
<1>2. Fits(b)
  BY <1>1, BoundedWindowFits
<1>3. b \in Windows
  BY <1>2 DEF Fits
<1>4. waiting' = [waiting EXCEPT ![b] = @ + 1] /\ waiting \in [Windows -> Nat]
  BY DEF Waits, WindowsInv, WindowsTypeOK
<1> HIDE DEF b
<1>5. waiting' \in [Windows -> Nat]
  BY <1>3, <1>4
<1>6. WindowsTypeOK'
  BY <1>1, <1>5 DEF WindowsInv, WindowsTypeOK
<1>7. \A v \in Windows : waiting'[v] > 0 => Fits(v)
  BY <1>2, <1>3, <1>4 DEF WindowsInv, WindowsFit
<1>8. \A v \in Windows' : (waiting[v] > 0)' => Fits(v)'
  BY <1>1, <1>7, SameVideo
<1>9. \A i \in DOMAIN merged' : Fits(merged[i])'
  <2> SUFFICES ASSUME NEW i \in DOMAIN merged'
               PROVE  Fits(merged[i])'
    OBVIOUS
  <2>1. Fits(merged[i])
    BY DEF WindowsInv, WindowsFit
  <2> QED
    BY <2>1 DEF Fits, Windows, Span, Smaller
<1> QED
  BY <1>6, <1>8, <1>9 DEF WindowsInv, WindowsFit

LEMMA NoticeKeeps == WindowsInv /\ WindowsAssumption /\ Notice => WindowsInv'
<1> SUFFICES ASSUME WindowsInv, WindowsAssumption, Notice
             PROVE  WindowsInv'
  OBVIOUS
<1>1. PICK start, end \in 0..(duration + Overshoot) : Waits(BoundedWindow(<<start, end>>))
  BY DEF Notice
<1>2. duration \in Nat /\ Overshoot \in Nat /\ MaxAnchors \in Nat
  BY DurationIsNatural DEF WindowsInv, WindowsAssumption
<1>3. <<start, end>> \in Raw /\ <<start, end>>[2] >= 0
  BY <1>2 DEF Raw
<1>4. noticed' \in 0..MaxAnchors /\ UNCHANGED <<duration, merged>>
  BY <1>2 DEF Notice, WindowsInv, WindowsTypeOK
<1> QED
  BY <1>1, <1>3, <1>4, WaitsKeeps

LEMMA FallBackKeeps == WindowsInv /\ WindowsAssumption /\ FallBack => WindowsInv'
<1> SUFFICES ASSUME WindowsInv, WindowsAssumption, FallBack
             PROVE  WindowsInv'
  OBVIOUS
<1> DEFINE w == <<0, Smaller(duration, MinLength)>>
<1>1. duration \in Nat /\ MinLength \in Nat /\ MaxAnchors \in Nat
  BY DurationIsNatural DEF WindowsInv, WindowsAssumption
<1>2. w \in Raw /\ w[2] >= 0
  BY <1>1 DEF Raw, Smaller
<1>3. Waits(BoundedWindow(w)) /\ UNCHANGED <<duration, merged>> /\ noticed' \in 0..MaxAnchors
  BY <1>1 DEF FallBack
<1> HIDE DEF w
<1> QED
  BY <1>2, <1>3, WaitsKeeps

(* A window that waits fits; so does its union with the last of the list.  *)
LEMMA TakeWindowKeeps == WindowsInv /\ WindowsAssumption /\ TakeWindow => WindowsInv'
<1> SUFFICES ASSUME WindowsInv, WindowsAssumption, TakeWindow
             PROVE  WindowsInv'
  OBVIOUS
<1> DEFINE n == Len(merged)
<1>1. PICK w \in Windows :
        /\ waiting[w] > 0
        /\ waiting' = [waiting EXCEPT ![w] = @ - 1]
        /\ \/ n > 0 /\ merged' = [merged EXCEPT ![n] = Union(merged[n], w)]
           \/ merged' = Append(merged, w)
  BY DEF TakeWindow
<1>2. duration \in Nat /\ UNCHANGED <<duration, noticed>>
  BY DurationIsNatural DEF WindowsInv, TakeWindow
<1>3. Windows' = Windows /\ merged \in Seq(Windows) /\ waiting \in [Windows -> Nat]
  BY <1>2, SameVideo DEF WindowsInv, WindowsTypeOK
<1>4. waiting' \in [Windows -> Nat] /\ \A v \in Windows : waiting'[v] > 0 => waiting[v] > 0
  BY <1>1, <1>3
<1>5. Fits(w)
  BY <1>1 DEF WindowsInv, WindowsFit
<1>6. merged' \in Seq(Windows) /\ \A i \in DOMAIN merged' : Fits(merged'[i])
  <2>1. CASE n > 0 /\ merged' = [merged EXCEPT ![n] = Union(merged[n], w)]
    <3>1. n \in DOMAIN merged /\ merged[n] \in Windows
      BY <1>3, <2>1
    <3> DEFINE u == <<Smaller(merged[n][1], w[1]), Larger(merged[n][2], w[2])>>
    <3>2. u \in Raw /\ u[2] >= 0
      BY <1>2, <3>1 DEF Windows, Raw, Smaller, Larger
    <3>3. Union(merged[n], w) = BoundedWindow(u)
      BY DEF Union
    <3> HIDE DEF u, n
    <3>4. Fits(Union(merged[n], w))
      BY <1>2, <3>2, <3>3, BoundedWindowFits
    <3>5. Union(merged[n], w) \in Windows
      BY <3>4 DEF Fits
    <3>6. DOMAIN merged' = DOMAIN merged
      BY <2>1
    <3>7. \A i \in DOMAIN merged : Fits(merged[i])
      BY DEF WindowsInv, WindowsFit
    <3>8. \A i \in DOMAIN merged' : Fits(merged'[i])
      BY <2>1, <3>1, <3>4, <3>6, <3>7
    <3>9. merged' \in Seq(Windows)
      BY <1>3, <2>1, <3>1, <3>5
    <3> QED
      BY <3>8, <3>9
  <2>2. CASE merged' = Append(merged, w)
    <3>1. \A i \in DOMAIN merged : Fits(merged[i])
      BY DEF WindowsInv, WindowsFit
    <3>2. /\ merged' \in Seq(Windows) /\ Len(merged') = Len(merged) + 1
          /\ \A i \in 1..Len(merged) : merged'[i] = merged[i]
          /\ merged'[Len(merged) + 1] = w
      BY <1>3, <2>2
    <3>3. \A i \in DOMAIN merged' : i \in DOMAIN merged \/ i = Len(merged) + 1
      BY <1>3, <3>2
    <3> QED
      BY <1>3, <1>5, <3>1, <3>2, <3>3
  <2> QED
    BY <1>1, <2>1, <2>2
<1>7. WindowsTypeOK'
  BY <1>2, <1>3, <1>4, <1>6 DEF WindowsInv, WindowsTypeOK
<1>8. WindowsFit'
  <2>1. \A v \in Windows : waiting[v] > 0 => Fits(v)
    BY DEF WindowsInv, WindowsFit
  <2>2. \A v \in Windows' : (waiting[v] > 0)' => Fits(v)'
    BY <1>2, <1>3, <1>4, <2>1 DEF Fits, Windows, Span, Smaller
  <2>3. \A i \in DOMAIN merged' : Fits(merged[i])'
    BY <1>2, <1>6 DEF Fits, Windows, Span, Smaller
  <2> QED
    BY <2>2, <2>3 DEF WindowsFit
<1> QED
  BY <1>7, <1>8 DEF WindowsInv

-----------------------------------------------------------------------------
(* The list that detection builds, and what it has still to look at, is    *)
(* well-formed (RuleOpportunityProvider), and every window in either can   *)
(* be cut: within the video and of a length that a clip may have.          *)
THEOREM WindowsInvariant == WindowsSpec => [](WindowsTypeOK /\ WindowsFit)
<1>1. WindowsInit => WindowsInv
  <2> SUFFICES ASSUME WindowsInit
               PROVE  WindowsInv
    OBVIOUS
  <2>1. WindowsTypeOK
    BY WindowsAssumption DEF WindowsInit, WindowsTypeOK, WindowsAssumption
  <2>2. WindowsFit
    BY DEF WindowsInit, WindowsFit
  <2> QED
    BY <2>1, <2>2 DEF WindowsInv
<1>2. WindowsInv /\ [FindWindows]_windowRows => WindowsInv'
  <2> SUFFICES ASSUME WindowsInv, [FindWindows]_windowRows
               PROVE  WindowsInv'
    OBVIOUS
  <2>1. CASE Notice
    BY <2>1, NoticeKeeps, WindowsAssumption
  <2>2. CASE FallBack
    BY <2>2, FallBackKeeps, WindowsAssumption
  <2>3. CASE TakeWindow
    BY <2>3, TakeWindowKeeps, WindowsAssumption
  <2>4. CASE UNCHANGED windowRows
    BY <2>4 DEF windowRows, WindowsInv, WindowsTypeOK, WindowsFit, Windows, Fits, Span, Smaller
  <2> QED
    BY <2>1, <2>2, <2>3, <2>4 DEF FindWindows
<1>3. WindowsInv => WindowsTypeOK /\ WindowsFit
  BY DEF WindowsInv
<1> QED
  BY <1>1, <1>2, <1>3, PTL DEF WindowsSpec

(* Whatever a video's analysis noticed, and however it overlaps, every     *)
(* clip that is suggested lies within the video and has a length that a    *)
(* clip may have (RuleOpportunityProvider, _bounded_window).                        *)
THEOREM SuggestionsFit == WindowsSpec => []WindowsFit
  BY WindowsInvariant, PTL
=============================================================================
