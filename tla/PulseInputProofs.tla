------------------------- MODULE PulseInputProofs -------------------------
(***************************************************************************)
(* Proofs about PulseInput, for every choice of the times and the bounds.   *)
(***************************************************************************)
EXTENDS PulseInput, TLAPS

(* What the code knows of the line agrees with what the line did: the       *)
(* pending flag is set exactly while a long enough pulse waits for its      *)
(* pause, or has had it and CoinTask no turn since, and the two clocks of   *)
(* the code measure the pulse and the pause.                                *)
PendingIsWaiting == pend = (waiting \/ unseen)
WaitingOrOver ==
  /\ waiting => ~line /\ ~unseen /\ idle <= Pause
  /\ unseen => ~line /\ idle > Pause
PulseMeasured ==
  IF line THEN ~pend /\ active = Older(width, Pulse) ELSE active = 0
PauseMeasured == pend => age = idle

IInv ==
  /\ TypeOK
  /\ PendingIsWaiting /\ WaitingOrOver /\ PulseMeasured /\ PauseMeasured
  /\ EveryPulseOnce

(* An age that grows stays within its range.                               *)
LEMMA OlderInRange ==
  ASSUME NEW limit \in Nat, NEW t \in 0..limit + 1
  PROVE  Older(t, limit) \in 0..limit + 1
BY DEF Older

LEMMA InitIInv == Init => IInv
<1> SUFFICES ASSUME Init PROVE IInv
  OBVIOUS
<1>1. /\ line \in BOOLEAN /\ pend \in BOOLEAN /\ enabled \in BOOLEAN
      /\ waiting \in BOOLEAN /\ unseen \in BOOLEAN
  BY DEF Init
<1>2. /\ width \in 0..Pulse + 1 /\ age \in 0..Pause + 1 /\ quiet \in 0..Silence + 1
      /\ active \in 0..Pulse + 1 /\ idle \in 0..Pause + 1
      /\ queued \in 0..MaxQueued
  BY TimesAssumption DEF Init
<1>3. TypeOK
  BY <1>1, <1>2 DEF Init, TypeOK
<1>4. EveryPulseOnce
  BY DEF Init, EveryPulseOnce
<1>5. PendingIsWaiting /\ WaitingOrOver /\ PulseMeasured /\ PauseMeasured
  BY TimesAssumption
     DEF Init, PendingIsWaiting, WaitingOrOver, PulseMeasured, PauseMeasured
<1>6. QED
  BY <1>3, <1>4, <1>5 DEF IInv

(* The interrupt: an edge sets the pending flag as the pulse deserves, and  *)
(* the history says when its pause is over.                                 *)
LEMMA InterruptKeepsIInv == IInv /\ InputCapture_ISR => IInv'
<1> SUFFICES ASSUME IInv, InputCapture_ISR PROVE IInv'
  OBVIOUS
<1> USE TimesAssumption
<1>1. CASE Steady
  <2>1. TypeOK'
    <3>1. /\ line' \in BOOLEAN /\ pend' \in BOOLEAN /\ enabled' \in BOOLEAN
          /\ waiting' \in BOOLEAN /\ unseen' \in BOOLEAN
      BY <1>1 DEF IInv, TypeOK, InputCapture_ISR, Observe, Steady
    <3>2. /\ width' \in 0..Pulse + 1 /\ age' \in 0..Pause + 1
          /\ quiet' \in 0..Silence + 1
      BY <1>1, OlderInRange DEF IInv, TypeOK, Steady, Aged, Older
    <3>3. active' \in 0..Pulse + 1 /\ idle' \in 0..Pause + 1
      BY <1>1, <3>1, OlderInRange DEF IInv, TypeOK, InputCapture_ISR, Observe, Older
    <3>4. good' \in Nat /\ missed' \in Nat
      BY <1>1 DEF IInv, TypeOK, InputCapture_ISR, Observe
    <3>5. QED
      BY <1>1, <3>1, <3>2, <3>3, <3>4 DEF IInv, TypeOK, InputCapture_ISR, Steady
  <2>2. /\ line' = line /\ pend' = pend /\ width' = Older(width, Pulse)
        /\ age' = Older(age, Pause)
    BY <1>1 DEF Steady, Aged
  <2>3. CASE line
    <3>1. /\ ~waiting /\ ~unseen /\ ~pend
      BY <2>3 DEF IInv, TypeOK, WaitingOrOver, PendingIsWaiting
    <3>2. /\ ~waiting' /\ ~unseen' /\ good' = good /\ missed' = missed
          /\ active' = Older(active, Pulse)
      BY <2>2, <2>3, <3>1 DEF InputCapture_ISR, Observe
    <3>3. count' = count /\ fetched' = fetched
      BY <1>1 DEF Steady, InputCapture_ISR
    <3>4. QED
      BY <2>1, <2>2, <2>3, <3>1, <3>2, <3>3 DEF IInv, TypeOK, PendingIsWaiting,
         WaitingOrOver, PulseMeasured, PauseMeasured, EveryPulseOnce, Older
  <2>4. CASE ~line
    <3>1. /\ idle' = Older(idle, Pause) /\ active' = 0 /\ missed' = missed
      BY <2>2, <2>4 DEF IInv, TypeOK, InputCapture_ISR, Observe
    <3>2. /\ good' = IF waiting /\ idle' > Pause THEN good + 1 ELSE good
          /\ unseen' = (unseen \/ (waiting /\ idle' > Pause))
          /\ waiting' = (waiting /\ idle' <= Pause)
      BY <2>1, <2>2, <2>4, <3>1
         DEF IInv, TypeOK, InputCapture_ISR, Observe
    <3>3. count' = count /\ fetched' = fetched
      BY <1>1 DEF Steady, InputCapture_ISR
    <3>4. EveryPulseOnce'
      BY <2>4, <3>1, <3>2, <3>3 DEF IInv, TypeOK, WaitingOrOver, EveryPulseOnce
    <3>5. PendingIsWaiting'
      <4>1. idle' \in Int /\ (idle' > Pause \/ idle' <= Pause)
        BY <2>1 DEF TypeOK
      <4>2. /\ pend' <=> pend
            /\ pend <=> (waiting \/ unseen)
            /\ (waiting' \/ unseen') <=> (waiting \/ unseen)
        BY <2>2, <3>2, <4>1 DEF IInv, TypeOK, PendingIsWaiting
      <4>3. pend' \in BOOLEAN
        BY <2>1 DEF TypeOK
      <4>4. QED
        BY <4>2, <4>3 DEF PendingIsWaiting
    <3>6. WaitingOrOver'
      BY <2>2, <2>4, <3>1, <3>2 DEF IInv, TypeOK, WaitingOrOver, Older
    <3>7. PulseMeasured' /\ PauseMeasured'
      BY <2>2, <2>4, <3>1 DEF IInv, TypeOK, PulseMeasured, PauseMeasured, Older
    <3>8. QED
      BY <2>1, <3>4, <3>5, <3>6, <3>7 DEF IInv
  <2>5. QED
    BY <2>3, <2>4
<1>2. CASE LeadingEdge
  <2>1. /\ ~line /\ line' /\ ~pend' /\ ~waiting' /\ ~unseen' /\ width' = 0
        /\ active' = 1 /\ idle' = 0 /\ good' = good
        /\ missed' = IF unseen THEN missed + 1 ELSE missed
    BY <1>2 DEF IInv, TypeOK, InputCapture_ISR, Observe, LeadingEdge, Older,
       PulseMeasured
  <2>2. TypeOK'
    <3>1. /\ line' \in BOOLEAN /\ pend' \in BOOLEAN
          /\ waiting' \in BOOLEAN /\ unseen' \in BOOLEAN
      BY <1>2 DEF IInv, TypeOK, InputCapture_ISR, Observe, LeadingEdge
    <3>2. age' \in 0..Pause + 1 /\ quiet' \in 0..Silence + 1
      BY <1>2 DEF IInv, TypeOK, LeadingEdge, Older
    <3>3. QED
      BY <1>2, <2>1, <3>1, <3>2 DEF IInv, TypeOK, InputCapture_ISR, LeadingEdge
  <2>3. /\ PendingIsWaiting' /\ WaitingOrOver' /\ PulseMeasured' /\ PauseMeasured'
    BY <2>1, <2>2 DEF TypeOK, PendingIsWaiting, WaitingOrOver, PulseMeasured,
       PauseMeasured, Older
  <2>4. count' = count /\ fetched' = fetched
    BY <1>2 DEF LeadingEdge, InputCapture_ISR
  <2>5. EveryPulseOnce'
    BY <2>1, <2>4 DEF IInv, TypeOK, EveryPulseOnce
  <2>6. QED
    BY <2>2, <2>3, <2>5 DEF IInv
<1>3. CASE TrailingEdge
  <2>1. line /\ ~waiting /\ ~unseen /\ ~pend
    BY <1>3 DEF IInv, TypeOK, TrailingEdge, WaitingOrOver, PendingIsWaiting
  <2>2. /\ ~line' /\ active' = 0 /\ idle' = 0 /\ good' = good /\ missed' = missed
        /\ ~unseen' /\ (waiting' <=> active > Pulse - Span)
    BY <1>3, <2>1 DEF InputCapture_ISR, Observe, TrailingEdge
  <2>3. pend' <=> active > Pulse - Span
    BY <1>3, <2>1 DEF IInv, TypeOK, TrailingEdge, Aged, Older, LongEnough,
       PulseMeasured
  <2>4. pend' => age' = 0
    BY <1>3, <2>1 DEF TrailingEdge
  <2>5. TypeOK'
    <3>1. line' \in BOOLEAN /\ pend' \in BOOLEAN
      BY <1>3 DEF IInv, TypeOK, TrailingEdge, LongEnough
    <3>2. waiting' \in BOOLEAN /\ unseen' \in BOOLEAN
      BY <1>3, <2>1 DEF InputCapture_ISR, Observe, TrailingEdge
    <3>3. /\ width' \in 0..Pulse + 1 /\ age' \in 0..Pause + 1
          /\ quiet' \in 0..Silence + 1
      BY <1>3 DEF IInv, TypeOK, TrailingEdge, Aged, Older
    <3>4. QED
      BY <1>3, <2>2, <3>1, <3>2, <3>3 DEF IInv, TypeOK, InputCapture_ISR, TrailingEdge
  <2>6. count' = count /\ fetched' = fetched
    BY <1>3 DEF TrailingEdge, InputCapture_ISR
  <2>7. EveryPulseOnce'
    BY <2>1, <2>2, <2>6 DEF IInv, EveryPulseOnce
  <2>8. PendingIsWaiting'
    BY <2>2, <2>3, <2>5 DEF TypeOK, PendingIsWaiting
  <2>9. WaitingOrOver' /\ PulseMeasured' /\ PauseMeasured'
    BY <2>2, <2>4 DEF WaitingOrOver, PulseMeasured, PauseMeasured
  <2>10. QED
    BY <2>5, <2>7, <2>8, <2>9 DEF IInv
<1>4. QED
  BY <1>1, <1>2, <1>3 DEF InputCapture_ISR

ServerTurn == ServerFetch \/ ServerSwitch \/ ServerHolds \/ ServerSleeps

(* The server: what it takes from the count it adds to what it has fetched. *)
LEMMA ServerKeepsIInv == IInv /\ ServerTurn => IInv'
<1> SUFFICES ASSUME IInv, ServerTurn PROVE IInv'
  OBVIOUS
<1> USE DEF ServerTurn
<1>1. UNCHANGED <<line, width, pend, age, pulseVars>>
  BY DEF ServerFetch, ServerSwitch, ServerHolds, ServerSleeps, codeVars
<1>2. PendingIsWaiting' /\ WaitingOrOver' /\ PulseMeasured' /\ PauseMeasured'
  BY <1>1 DEF IInv, pulseVars, PendingIsWaiting, WaitingOrOver, PulseMeasured,
     PauseMeasured, Older
<1>3. CASE ServerFetch
  BY <1>1, <1>2, <1>3, TimesAssumption
     DEF IInv, TypeOK, ServerFetch, pulseVars, EveryPulseOnce
<1>4. CASE ServerSwitch \/ ServerHolds \/ ServerSleeps
  BY <1>1, <1>2, <1>4 DEF IInv, TypeOK, ServerSwitch, ServerHolds, ServerSleeps,
     codeVars, pulseVars, EveryPulseOnce
<1>5. QED
  BY <1>3, <1>4

(* CoinTask counts the pulse whose pause is over, and drops the pending one *)
(* of a source that is closed.                                             *)
LEMMA TaskKeepsIInv == IInv /\ CoinTask => IInv'
<1> SUFFICES ASSUME IInv, CoinTask PROVE IInv'
  OBVIOUS
<1> USE TimesAssumption
<1>1. CASE TaskClosed
  <2>1. /\ age' \in 0..Pause + 1 /\ pend' = FALSE
        /\ waiting' = FALSE /\ unseen' = FALSE
        /\ missed' = IF unseen THEN missed + 1 ELSE missed
        /\ UNCHANGED <<line, width, active, idle, good, count, fetched>>
    <3>1. age' \in 0..Pause + 1
      BY <1>1 DEF TaskClosed
    <3>2. QED
      BY <1>1, <3>1 DEF TaskClosed, SeenClosed
  <2>2. TypeOK'
    <3>1. missed' \in Nat
      BY <2>1 DEF IInv, TypeOK
    <3>2. pend' \in BOOLEAN /\ waiting' \in BOOLEAN /\ unseen' \in BOOLEAN
      BY <2>1
    <3>3. QED
      BY <1>1, <2>1, <3>1, <3>2 DEF IInv, TypeOK, TaskClosed
  <2>3. PendingIsWaiting' /\ WaitingOrOver' /\ PulseMeasured' /\ PauseMeasured'
    BY <2>1, <2>2 DEF IInv, TypeOK, PendingIsWaiting, WaitingOrOver,
       PulseMeasured, PauseMeasured, Older
  <2>4. EveryPulseOnce'
    BY <2>1 DEF IInv, TypeOK, EveryPulseOnce
  <2>5. QED
    BY <2>2, <2>3, <2>4 DEF IInv
<1>2. CASE TaskOpen
  <2> DEFINE now == IF pend /\ PauseOver THEN count + 1 ELSE count
  <2>1. /\ count' = now /\ now \in Nat
        /\ pend' = (pend /\ ~PauseOver)
        /\ quiet' \in 0..Silence + 1 /\ last_count' \in Nat
        /\ queued' \in 0..MaxQueued
    BY <1>2 DEF IInv, TypeOK, TaskOpen, PauseOver, Changed, Silent, Posted
  <2>2. /\ unseen' = FALSE
        /\ UNCHANGED <<line, width, age, active, idle, waiting, good, missed, fetched>>
    BY <1>2 DEF TaskOpen, SeenOpen
  <2>3. TypeOK'
    BY <1>2, <2>1, <2>2 DEF IInv, TypeOK, TaskOpen
  <2>4. (pend /\ PauseOver) <=> unseen
    BY DEF IInv, TypeOK, PauseOver, PendingIsWaiting, WaitingOrOver, PauseMeasured
  <2>5. PendingIsWaiting'
    BY <2>1, <2>2, <2>4 DEF IInv, TypeOK, PendingIsWaiting, WaitingOrOver
  <2>6. WaitingOrOver' /\ PulseMeasured' /\ PauseMeasured'
    BY <2>1, <2>2 DEF IInv, TypeOK, WaitingOrOver, PulseMeasured, PauseMeasured, Older
  <2>7. EveryPulseOnce'
    BY <2>1, <2>2, <2>4 DEF IInv, TypeOK, EveryPulseOnce
  <2>8. QED
    BY <2>3, <2>5, <2>6, <2>7 DEF IInv
<1>3. QED
  BY <1>1, <1>2 DEF CoinTask

LEMMA StepKeepsIInv == IInv /\ [Next]_vars => IInv'
<1> SUFFICES ASSUME IInv, [Next]_vars PROVE IInv'
  OBVIOUS
<1>1. CASE Next
  BY <1>1, InterruptKeepsIInv, ServerKeepsIInv, TaskKeepsIInv DEF Next, ServerTurn
<1>2. CASE UNCHANGED vars
  BY <1>2 DEF vars, codeVars, pulseVars, IInv, TypeOK, PendingIsWaiting,
     WaitingOrOver, PulseMeasured, PauseMeasured, EveryPulseOnce, Older
<1>3. QED
  BY <1>1, <1>2

LEMMA Invariance == Spec => []IInv
BY InitIInv, StepKeepsIInv, PTL DEF Spec

(* Every variable keeps its type; the queue of the server never holds more  *)
(* reports than it has room for.                                           *)
THEOREM TypeCorrect == Spec => []TypeOK
<1>1. IInv => TypeOK
  BY DEF IInv
<1>2. QED
  BY <1>1, Invariance, PTL

(* Whatever the length of a pulse, of the pause and of the silence, and     *)
(* however long the server keeps the processor between the edges, CoinTask  *)
(* counts every good pulse of the line once, but for the ones it has no     *)
(* turn for in time, and nothing else.                                     *)
THEOREM PulsesCounted == Spec => []EveryPulseOnce
<1>1. IInv => EveryPulseOnce
  BY DEF IInv
<1>2. QED
  BY <1>1, Invariance, PTL

=============================================================================
