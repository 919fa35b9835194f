------------------------- MODULE HopperInputProofs -------------------------
(***************************************************************************)
(* Proofs about HopperInput, for every length of the queue and every bound. *)
(***************************************************************************)
EXTENDS HopperInput, TLAPS

(* Until the payout has thrown its tokens, the server and CoinTask have no  *)
(* more of them in their counts than fell; and a server that waits for the  *)
(* motor to run out has seen enough of them.                               *)
NotedHaveFallen == thrown < goal => Noted <= before + thrown
EnoughFell == server = "pause" => thrown + before >= goal

IInv == TypeOK /\ NotedHaveFallen /\ EnoughFell

LEMMA InitIInv == Init => IInv
<1> SUFFICES ASSUME Init PROVE IInv
  OBVIOUS
<1>1. /\ motor \in BOOLEAN /\ pend \in BOOLEAN /\ first \in BOOLEAN
      /\ posting \in BOOLEAN
  BY DEF Init
<1>2. TypeOK
  BY <1>1, BoundsAssumption DEF Init, TypeOK
<1>3. NotedHaveFallen /\ EnoughFell
  BY DEF Init, NotedHaveFallen, EnoughFell
<1>4. QED
  BY <1>2, <1>3 DEF IInv

LEMMA NotedIsNat == (TypeOK => Noted \in Nat) /\ (TypeOK' => Noted' \in Nat)
BY DEF TypeOK, Noted

(* A pulse: one more token is noted, and one more has fallen.              *)
LEMMA PulseKeepsIInv == IInv /\ InputCapture_ISR => IInv'
<1> SUFFICES ASSUME IInv, InputCapture_ISR PROVE IInv'
  OBVIOUS
<1>1. TypeOK'
  BY DEF IInv, TypeOK, InputCapture_ISR, payoutVars
<1>2. Noted' <= Noted + 1
  BY DEF IInv, TypeOK, InputCapture_ISR, payoutVars, Noted
<1>3. NotedHaveFallen'
  <2>1. CASE thrown < goal
    BY <1>1, <1>2, <2>1, NotedIsNat
       DEF IInv, TypeOK, InputCapture_ISR, payoutVars, NotedHaveFallen
  <2>2. CASE ~(thrown < goal)
    BY <2>2 DEF InputCapture_ISR, payoutVars, NotedHaveFallen
  <2>3. QED
    BY <2>1, <2>2
<1>4. EnoughFell'
  BY DEF IInv, TypeOK, InputCapture_ISR, payoutVars, EnoughFell
<1>5. QED
  BY <1>1, <1>3, <1>4 DEF IInv

(* CoinTask moves a noted token into its count, or drops the first edge.    *)
LEMMA CoinTaskKeepsIInv == IInv /\ (CoinTask \/ CoinTaskPosted) => IInv'
<1> SUFFICES ASSUME IInv, CoinTask \/ CoinTaskPosted PROVE IInv'
  OBVIOUS
<1>1. CASE CoinTask
  <2>1. /\ count' = (IF pend THEN Counted ELSE count) /\ count' \in Nat
        /\ pend' = FALSE /\ first' = (first /\ ~pend)
        /\ queued' \in 0..QueueLen /\ last' \in Nat /\ posting' \in BOOLEAN
    BY <1>1, BoundsAssumption
       DEF IInv, TypeOK, CoinTask, Counted, FirstLeft, Posted, Unreported
  <2>2. TypeOK'
    BY <1>1, <2>1 DEF IInv, TypeOK, CoinTask, payoutVars
  <2>3. Noted' <= Noted
    BY <1>1, <2>1 DEF IInv, TypeOK, CoinTask, payoutVars, Noted, Counted
  <2>4. NotedHaveFallen' /\ EnoughFell'
    <3>1. UNCHANGED <<thrown, goal, before, server>>
      BY <1>1 DEF CoinTask, payoutVars
    <3>2. QED
      BY <2>2, <2>3, <3>1, NotedIsNat DEF IInv, TypeOK, NotedHaveFallen, EnoughFell
  <2>5. QED
    BY <2>2, <2>4 DEF IInv
<1>2. CASE CoinTaskPosted
  BY <1>2 DEF IInv, TypeOK, CoinTaskPosted, payoutVars, NotedHaveFallen, EnoughFell,
     Noted
<1>3. QED
  BY <1>1, <1>2

(* The server: what it takes from CoinTask's count it adds to its own, and  *)
(* it waits for the run-out only when the sum is enough.                    *)
LEMMA ExtractedKeepsIInv == IInv /\ Extracted => IInv'
<1> SUFFICES ASSUME IInv, Extracted PROVE IInv'
  OBVIOUS
<1>1. TypeOK'
  <2>1. server' \in {"free", "busy", "pause"} /\ queued' \in 0..QueueLen
    BY BoundsAssumption DEF IInv, TypeOK, Extracted
  <2>2. count' = 0 /\ accepted' \in Nat
    BY DEF IInv, TypeOK, Extracted
  <2>3. QED
    BY <2>1, <2>2 DEF IInv, TypeOK, Extracted
<1>2. Noted' <= Noted /\ count + accepted <= Noted
  BY DEF IInv, TypeOK, Extracted, Noted
<1>3. NotedHaveFallen'
  <2>1. UNCHANGED <<thrown, goal, before>>
    BY DEF Extracted
  <2>2. QED
    BY <1>1, <1>2, <2>1, NotedIsNat DEF IInv, TypeOK, NotedHaveFallen
<1>4. EnoughFell'
  BY <1>1, <1>2, NotedIsNat
     DEF IInv, TypeOK, Extracted, Enough, NotedHaveFallen, EnoughFell
<1>5. QED
  BY <1>1, <1>3, <1>4 DEF IInv

LEMMA ServerKeepsIInv ==
  /\ IInv
  /\ GiveCoin \/ StopHopper \/ MotorTimeout \/ OtherEvent \/ OtherEventDone
  => IInv'
<1> SUFFICES ASSUME IInv,
                    GiveCoin \/ StopHopper \/ MotorTimeout \/ OtherEvent
                      \/ OtherEventDone
             PROVE  IInv'
  OBVIOUS
<1>1. CASE GiveCoin
  <2>1. TypeOK'
    BY <1>1, NotedIsNat DEF IInv, TypeOK, GiveCoin, inputVars
  <2>2. Noted' = Noted
    BY <1>1 DEF GiveCoin, inputVars, Noted
  <2>3. QED
    BY <1>1, <2>1, <2>2, NotedIsNat
       DEF IInv, TypeOK, GiveCoin, NotedHaveFallen, EnoughFell
<1>2. CASE StopHopper
  <2>1. TypeOK'
    <3>1. motor' \in BOOLEAN /\ server' \in {"free", "busy", "pause"}
      BY <1>2 DEF StopHopper
    <3>2. goal' \in 0..MaxGoal /\ accepted' \in Nat
      BY <1>2, BoundsAssumption DEF StopHopper
    <3>3. QED
      BY <1>2, <3>1, <3>2 DEF IInv, TypeOK, StopHopper, inputVars
  <2>2. goal' = 0 /\ server' = "free" /\ thrown' \in Nat /\ before' \in Nat
    BY <1>2 DEF IInv, TypeOK, StopHopper
  <2>3. QED
    BY <2>1, <2>2 DEF IInv, NotedHaveFallen, EnoughFell
<1>3. CASE MotorTimeout \/ OtherEvent \/ OtherEventDone
  <2>1. /\ UNCHANGED <<inputVars, queued, payoutVars, thrown>>
        /\ motor' \in BOOLEAN /\ server' \in {"free", "busy"}
    BY <1>3 DEF IInv, TypeOK, MotorTimeout, OtherEvent, OtherEventDone
  <2>2. TypeOK' /\ Noted' = Noted
    BY <2>1 DEF IInv, TypeOK, inputVars, payoutVars, Noted
  <2>3. QED
    BY <2>1, <2>2 DEF IInv, payoutVars, NotedHaveFallen, EnoughFell
<1>4. QED
  BY <1>1, <1>2, <1>3

LEMMA StepKeepsIInv == IInv /\ [Next]_vars => IInv'
<1> SUFFICES ASSUME IInv, [Next]_vars PROVE IInv'
  OBVIOUS
<1>1. CASE Next
  BY <1>1, PulseKeepsIInv, CoinTaskKeepsIInv, ExtractedKeepsIInv, ServerKeepsIInv
     DEF Next
<1>2. CASE UNCHANGED vars
  BY <1>2 DEF vars, inputVars, payoutVars, IInv, TypeOK, NotedHaveFallen,
     EnoughFell, Noted
<1>3. QED
  BY <1>1, <1>2

LEMMA Invariance == Spec => []IInv
BY InitIInv, StepKeepsIInv, PTL DEF Spec

(* Every variable keeps its type, and the server's queue its length.       *)
THEOREM TypeCorrect == Spec => []TypeOK
<1>1. IInv => TypeOK
  BY DEF IInv
<1>2. QED
  BY <1>1, Invariance, PTL

(* For payouts of any number of tokens, with other events of any length in  *)
(* between and payouts abandoned by the motor's timeout: the server stops   *)
(* the motor only when the tokens it owes have fallen.                     *)
THEOREM NeverStoppedShort == Spec => NeverShort
<1>1. IInv => (StopHopper => thrown + before >= goal)
  BY DEF IInv, EnoughFell, StopHopper
<1>2. QED
  BY <1>1, Invariance, PTL DEF Spec, NeverShort

=============================================================================
