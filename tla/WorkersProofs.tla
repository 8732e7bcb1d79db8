---------------------------- MODULE WorkersProofs ----------------------------
(***************************************************************************)
(* What the steps of handlers and workers do to their sessions, for the    *)
(* proofs about the components that run in them.                           *)
(***************************************************************************)
EXTENDS CeleryWorkers, WellFoundedInduction, TLAPS

(* One worker process, as production runs it (--concurrency 1).            *)
OneWorker == \A v, w \in Workers : v = w

(* Every actor has a session, which has an operation and a place.          *)
Shaped ==
    /\ DOMAIN session = Actors
    /\ \A a \in Actors : {"op", "at"} \subseteq DOMAIN session[a]

(* A step of an actor leaves the others' sessions as they are.             *)
OthersStay(a) == \A b \in Actors \ {a} : session'[b] = session[b]

(* A session that changes is one of an operation in Ops afterwards, or has *)
(* ended.                                                                  *)
Confined(Ops) ==
    \A a \in Actors : session'[a] = session[a] \/ session'[a].op \in Ops \cup {"IDLE"}

(* What a step of one actor in an operation of Ops comes to.               *)
Moves(a, Ops) ==
    /\ Shaped' /\ OthersStay(a) /\ Confined(Ops)
    /\ UNCHANGED session \/ session' = [b \in Actors |-> session'[b]]

LEMMA BeginEffect ==
  ASSUME Shaped, NEW a \in Actors, NEW s, Begin(a, s)
  PROVE  session'[a] = s /\ OthersStay(a)
  BY DEF Shaped, Begin, OthersStay

LEMMA EndEffect ==
  ASSUME Shaped, NEW a \in Actors, End(a)
  PROVE  session'[a] = Idle /\ session'[a].op = "IDLE" /\ OthersStay(a)
  BY DEF Shaped, End, OthersStay, Idle

LEMMA GotoEffect ==
  ASSUME Shaped, NEW a \in Actors, NEW place, Goto(a, place)
  PROVE  session'[a] = [session[a] EXCEPT !.at = place] /\ OthersStay(a)
  BY DEF Shaped, Goto, OthersStay

LEMMA GotoPlace ==
  ASSUME Shaped, NEW a \in Actors, NEW place, Goto(a, place)
  PROVE  session'[a].op = session[a].op /\ session'[a].at = place /\ OthersStay(a)
<1>1. PICK s : s = session[a]
  OBVIOUS
<1>2. session'[a] = [s EXCEPT !.at = place] /\ OthersStay(a)
  BY <1>1, GotoEffect
<1>3. "op" \in DOMAIN s /\ "at" \in DOMAIN s
  BY <1>1 DEF Shaped
<1>4. [s EXCEPT !.at = place].op = s.op /\ [s EXCEPT !.at = place].at = place
  BY <1>3
<1> QED BY <1>1, <1>2, <1>4

LEMMA BeginMoves ==
  ASSUME Shaped, NEW a \in Actors, NEW Ops, NEW s, Begin(a, s),
         {"op", "at"} \subseteq DOMAIN s, s.op \in Ops
  PROVE  Moves(a, Ops)
  BY DEF Shaped, Begin, OthersStay, Confined, Moves

LEMMA EndMoves ==
  ASSUME Shaped, NEW a \in Actors, NEW Ops, End(a)
  PROVE  Moves(a, Ops)
  BY DEF Shaped, End, Idle, OthersStay, Confined, Moves

LEMMA GotoMoves ==
  ASSUME Shaped, NEW a \in Actors, NEW Ops, session[a].op \in Ops, NEW place, Goto(a, place)
  PROVE  Moves(a, Ops)
  BY DEF Shaped, Goto, OthersStay, Confined, Moves

LEMMA StayMoves ==
  ASSUME Shaped, NEW a \in Actors, NEW Ops, UNCHANGED session
  PROVE  Moves(a, Ops)
  BY DEF Shaped, OthersStay, Confined, Moves

(* A set of numbers has a least one.                                       *)
LEMMA LeastNumber ==
  ASSUME NEW S \in SUBSET Nat, S # {}
  PROVE  \E r \in S : \A q \in S : r <= q
<1>1. PICK R : R = {p \in Nat \X Nat : p[1] < p[2]}
  OBVIOUS
<1>2. IsWellFoundedOn(R, Nat)
  BY <1>1, NatLessThanWellFounded DEF OpToRel
<1>3. PICK r \in S : \A q \in S : ~ (<<q, r>> \in R)
  BY <1>2, WFMin
<1>4. ASSUME NEW q \in S
      PROVE  r <= q
  <2>1. r \in Nat /\ q \in Nat
    OBVIOUS
  <2>2. ~ (q < r)
    BY <1>1, <1>3, <2>1
  <2> QED BY <2>1, <2>2
<1> QED BY <1>4

(* And a largest one, when they are bounded.                               *)
LEMMA GreatestNumber ==
  ASSUME NEW n \in Nat, NEW S \in SUBSET (0..n), S # {}
  PROVE  \E r \in S : \A q \in S : r >= q
<1>1. PICK T : T = {n - q : q \in S}
  OBVIOUS
<1>2. T \in SUBSET Nat /\ T # {}
  <2>1. \A q \in S : n - q \in Nat
    OBVIOUS
  <2> QED BY <1>1, <2>1
<1>3. PICK t \in T : \A u \in T : t <= u
  BY <1>2, LeastNumber
<1>4. PICK r \in S : t = n - r
  BY <1>1, <1>3
<1>5. \A q \in S : n - r <= n - q
  BY <1>1, <1>3, <1>4
<1> QED BY <1>5

(* The last of those among 1 to n that are in S, or 0 if none is.          *)
LEMMA LastNumber ==
  ASSUME NEW n \in Nat, NEW S
  PROVE  \E x \in 0..n : (x > 0 => x \in S) /\ \A u \in (x + 1)..n : u \notin S
<1>1. PICK T : T = {x \in 0..n : x = 0 \/ x \in S}
  OBVIOUS
<1>2. T \in SUBSET (0..n) /\ 0 \in T
  BY <1>1
<1>3. PICK x \in T : \A q \in T : x >= q
  BY <1>2, GreatestNumber
<1>4. ASSUME NEW u \in (x + 1)..n PROVE u \notin S
  <2>1. u \in 0..n /\ ~(x >= u)
    BY <1>2
  <2> QED BY <1>1, <1>3, <2>1
<1> QED BY <1>1, <1>2, <1>3, <1>4

-----------------------------------------------------------------------------
(* What a step puts into the session of its actor: nothing new, or one of  *)
(* S, for the message that a worker has received, or for a caller.         *)

Carries(a, s) == IF a \in Workers THEN s.message \in Messages ELSE s.message = NoMessage

Puts(a, S) ==
    /\ \/ session'[a] = session[a] \/ session'[a] = Idle
       \/ session'[a] \in S /\ Carries(a, session'[a])
    /\ lost' \subseteq lost \cup Messages

LEMMA StayPuts ==
  ASSUME NEW a, NEW S, UNCHANGED <<session, lost>>
  PROVE  Puts(a, S)
  BY DEF Puts

LEMMA EndPuts ==
  ASSUME Shaped, NEW a \in Actors, NEW S, End(a), UNCHANGED lost
  PROVE  Puts(a, S)
  BY EndEffect DEF Puts

LEMMA ExceptionPuts ==
  ASSUME Shaped, NEW a \in Actors, NEW S, EndInException(a), Carries(a, session[a])
  PROVE  Puts(a, S)
  BY EndEffect DEF Puts, EndInException, Carries

LEMMA BeginPuts ==
  ASSUME Shaped, NEW a \in Actors, NEW S, NEW s \in S, Carries(a, s), Begin(a, s), UNCHANGED lost
  PROVE  Puts(a, S)
  BY BeginEffect DEF Puts

LEMMA CallPuts ==
  ASSUME Shaped, NEW o \in Operators, NEW S, NEW s \in S, s.message = NoMessage, Begin(o, s),
         UNCHANGED lost
  PROVE  Puts(o, S)
<1>1. o \in Actors /\ o \notin Workers
  BY CeleryAssumption DEF Actors
<1> QED BY <1>1, BeginPuts DEF Carries

LEMMA ReceivePuts ==
  ASSUME Shaped, NEW w \in Workers, NEW m \in Messages, NEW S, NEW s \in S, s.message = m,
         Receive(w, m, s)
  PROVE  Puts(w, S)
<1>1. w \in Actors
  BY DEF Actors
<1> QED BY <1>1, BeginPuts DEF Carries, Receive

LEMMA GotoPuts ==
  ASSUME Shaped, NEW a \in Actors, NEW S, NEW place, Goto(a, place), UNCHANGED lost,
         NEW s, s = [session[a] EXCEPT !.at = place], s \in S, Carries(a, s)
  PROVE  Puts(a, S)
  BY GotoEffect DEF Puts
=============================================================================
