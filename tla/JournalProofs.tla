---------------------------- MODULE JournalProofs ----------------------------
(***************************************************************************)
(* Proofs about Journal for every size of the ring and every number of      *)
(* records and faults.                                                     *)
(***************************************************************************)
EXTENDS Journal, TLAPS

(* What ErrorServer has gone past is not to be entered any more, and a new  *)
(* flag it has not gone past yet is.                                       *)
ErrorInv ==
  /\ prev = known
  /\ scan = Copying => save["server"].at = "idle"
  /\ due \subseteq flags
  /\ \A e \in flags : e \notin prev /\ ~Tested(e) => e \in due
  /\ \A e \in due : e \notin prev /\ ~Tested(e)

IInv == TypeOK /\ ErrorInv

-----------------------------------------------------------------------------
(* The search stays inside the ring.                                       *)
LEMMA SlotArithmetic ==
  /\ 0 \in Slots /\ N \in Nat
  /\ \A k \in Slots : After(k) \in Slots /\ (k + 1 = N \/ k + 1 \in Slots)
<1>1. N \in Nat \ {0}
  BY SizeAssumption
<1>2. ASSUME NEW k \in Slots PROVE After(k) \in Slots /\ (k + 1 = N \/ k + 1 \in Slots)
  BY <1>1 DEF Slots, After
<1>3. QED BY <1>1, <1>2 DEF Slots

Saves == [at : {"idle", "look", "write"}, i : Slots, max : Nat, indm : Slots, since : Nat]

LEMMA IdleSave == Idle \in Saves
  BY SlotArithmetic DEF Idle, Saves

(* Types: After keeps the place of a record inside the ring.                *)
LEMMA TypeStep ==
  ASSUME IInv, [Next]_vars
  PROVE  TypeOK'
<1>1. /\ ring \in [Slots -> [time : Nat, nr : Nat]] /\ save \in [Tasks -> Saves]
      /\ written \in Nat /\ clock \in Nat \ {0} /\ faults \in Nat /\ scan \in 0..3
      /\ exposed \subseteq Nat /\ TypeOK
      /\ scan = Copying => save["server"].at = "idle"
  BY DEF IInv, ErrorInv, TypeOK, Saves, Copying
<1>2. ASSUME NEW t \in Tasks, Begin(t) PROVE save' \in [Tasks -> Saves]
  BY <1>1, <1>2, IdleSave DEF Begin, Saves
<1>3. ASSUME NEW t \in Tasks, NEW k \in Slots, NEW time \in Nat, Put(t, k, time)
      PROVE  /\ ring' \in [Slots -> [time : Nat, nr : Nat]] /\ written' \in Nat
             /\ save' \in [Tasks -> Saves]
  BY <1>1, <1>3, IdleSave DEF Put
<1>4. ASSUME NEW t \in Tasks, Look(t) PROVE TypeOK'
  <2> DEFINE s == save[t]
             r == ring[s.i]
             seen == IF Newer(r, s) THEN [s EXCEPT !.max = r.time, !.indm = s.i] ELSE s
             next == IF r.time = 0 THEN [s EXCEPT !.at = "write"]
                     ELSE IF s.i + 1 = N THEN [seen EXCEPT !.at = "write", !.i = After(seen.indm)]
                     ELSE [seen EXCEPT !.i = s.i + 1]
  <2>1. s \in Saves /\ r \in [time : Nat, nr : Nat]
    BY <1>1, <1>4 DEF Saves
  <2>2. seen \in Saves
    BY <2>1 DEF Saves
  <2>3. After(seen.indm) \in Slots /\ (s.i + 1 = N \/ s.i + 1 \in Slots)
    BY <2>1, <2>2, SlotArithmetic DEF Saves
  <2> HIDE DEF seen, s, r
  <2>4. next \in Saves
    BY <2>1, <2>2, <2>3 DEF Saves
  <2>5. save' = [save EXCEPT ![t] = next]
    BY <1>4 DEF Look, s, r, seen
  <2>6. save' \in [Tasks -> Saves]
    BY <1>1, <2>4, <2>5
  <2>7. UNCHANGED <<ring, written, exposed, clock, flags, prev, scan, known, due, faults>>
    BY <1>4 DEF Look, ringVars, errorVars
  <2>8. QED BY <1>1, <2>6, <2>7 DEF TypeOK, Saves
<1>5. ASSUME NEW t \in Tasks, Write(t) PROVE TypeOK'
  <2>1. save[t].i \in Slots
    BY <1>1 DEF Saves
  <2>2. /\ ring' \in [Slots -> [time : Nat, nr : Nat]] /\ written' \in Nat
        /\ save' \in [Tasks -> Saves]
    BY <1>1, <1>3, <1>5, <2>1 DEF Write
  <2>3. exposed' \subseteq Nat
    BY <1>1, <1>5 DEF Write
  <2>4. scan' \in 0..Copying
    BY <1>1, <1>5 DEF Write, Copying
  <2>5. UNCHANGED <<clock, flags, prev, known, due, faults>>
    BY <1>5 DEF Write
  <2>6. QED BY <1>1, <2>2, <2>3, <2>4, <2>5 DEF TypeOK, Saves
<1>6. ASSUME NEW t \in Tasks, Event(t) PROVE TypeOK'
  BY <1>1, <1>2, <1>6 DEF Event, TypeOK, Saves, ringVars, errorVars
<1>7. CASE ClearEventJournal
  BY <1>1, <1>7 DEF ClearEventJournal, Empty, TypeOK, errorVars
<1>8. CASE ErrorServerCalled
  BY <1>1, <1>8 DEF ErrorServerCalled, First, Copying, TypeOK, ringVars
<1>9. ASSUME NEW e \in Errors, ErrorTested(e) PROVE TypeOK'
  <2>1. Place[e] \in 1..2 /\ "server" \in Tasks
    BY DEF Errors, Place, Tasks
  <2>2. save' \in [Tasks -> Saves] /\ scan' \in 0..Copying /\ due' \subseteq Errors
    BY <1>1, <1>2, <1>9, <2>1 DEF ErrorTested, Copying, TypeOK, Saves
  <2>3. QED BY <1>1, <1>9, <2>2 DEF ErrorTested, TypeOK, Saves, ringVars
<1>10. CASE ErrorsCopied
  BY <1>1, <1>10 DEF ErrorsCopied, Copied, Copying, TypeOK, ringVars
<1>11. ASSUME NEW e \in Errors, SetErrorFlag(e) \/ ClrErrorFlag(e) PROVE TypeOK'
  BY <1>1, <1>11 DEF SetErrorFlag, ClrErrorFlag, TypeOK, ringVars
<1>12. CASE Tick
  BY <1>1, <1>12 DEF Tick, TypeOK, ringVars, errorVars
<1>13. CASE SetBack
  BY <1>1, <1>13 DEF SetBack, TypeOK, ringVars, errorVars
<1>14. CASE PowerLoss
  <2>1. save' \in [Tasks -> Saves]
    BY <1>14, IdleSave DEF PowerLoss
  <2>2. ring' \in [Slots -> [time : Nat, nr : Nat]] /\ written' \in Nat /\ exposed' \subseteq Nat
    <3>1. CASE UNCHANGED ringVars
      BY <1>1, <3>1 DEF ringVars
    <3>2. ASSUME NEW t \in Tasks, NEW time \in 0..clock,
                 ring' = [ring EXCEPT ![save[t].i] = [time |-> time, nr |-> written + 1]],
                 written' = written + 1, exposed' = exposed \cup {written + 1}
          PROVE  /\ ring' \in [Slots -> [time : Nat, nr : Nat]]
                 /\ written' \in Nat /\ exposed' \subseteq Nat
      <4>1. [time |-> time, nr |-> written + 1] \in [time : Nat, nr : Nat]
        BY <1>1
      <4>2. ring' \in [Slots -> [time : Nat, nr : Nat]]
        BY <1>1, <3>2, <4>1
      <4>3. written' \in Nat /\ exposed' \subseteq Nat
        BY <1>1, <3>2
      <4>4. QED BY <4>2, <4>3
    <3>3. QED BY <1>14, <3>1, <3>2 DEF PowerLoss
  <2>3. QED BY <1>1, <1>14, <2>1, <2>2 DEF PowerLoss, Copying, TypeOK, Saves
<1>15. CASE UNCHANGED vars
  BY <1>1, <1>15 DEF TypeOK, vars, ringVars, errorVars
<1>16. QED
  BY <1>4, <1>5, <1>6, <1>7, <1>8, <1>9, <1>10, <1>11, <1>12, <1>13, <1>14, <1>15
  DEF Next, Server, ErrorServer, SaveEventRecord, Tasks

(* A record under way of another task is not the server's.                 *)
LEMMA ErrorStep ==
  ASSUME IInv, [Next]_vars
  PROVE  ErrorInv'
<1>1. /\ TypeOK /\ ErrorInv /\ "server" \in Tasks
      /\ save \in [Tasks -> Saves] /\ flags \subseteq Errors /\ prev \subseteq Errors
  BY DEF IInv, TypeOK, Tasks, Saves
<1>2. Place["hopper"] = 1 /\ Place["validator"] = 2 /\ Errors = {"hopper", "validator"}
  BY DEF Place, Errors
<1>3. ASSUME UNCHANGED <<flags, prev, known, due, scan>>, save'["server"].at = save["server"].at
      PROVE  ErrorInv'
  BY <1>1, <1>3 DEF ErrorInv, Tested
<1>4. ASSUME UNCHANGED <<flags, prev, known, due>>, scan = 0, scan' = 0
      PROVE  ErrorInv'
  BY <1>1, <1>2, <1>4 DEF ErrorInv, Tested, Copying
<1>5. ASSUME NEW t \in Tasks, SaveEventRecord(t) PROVE ErrorInv'
  <2>1. CASE t # "server"
    <3>1. UNCHANGED <<flags, prev, known, due, scan>> /\ save'["server"] = save["server"]
      BY <1>1, <1>5, <2>1 DEF SaveEventRecord, Look, Write, Put, errorVars
    <3>2. QED BY <1>3, <3>1
  <2>2. CASE t = "server" /\ scan = 0
    <3>1. UNCHANGED <<flags, prev, known, due>> /\ scan' = 0
      BY <1>5, <2>2 DEF SaveEventRecord, Look, Write, errorVars
    <3>2. QED BY <1>4, <2>2, <3>1
  <2>3. CASE t = "server" /\ scan # 0 /\ Look(t)
    <3>1. UNCHANGED <<flags, prev, known, due, scan>> /\ save["server"].at = "look"
      BY <2>3 DEF Look, errorVars
    <3>2. save'["server"].at \in {"look", "write"}
      BY <1>1, <2>3, <3>1 DEF Look, Saves
    <3>3. QED BY <1>1, <1>2, <3>1, <3>2 DEF ErrorInv, Tested, Copying
  <2>4. CASE t = "server" /\ scan # 0 /\ Write(t)
    <3>1. /\ UNCHANGED <<flags, prev, known, due>> /\ scan' = scan + 1
          /\ save["server"].at = "write" /\ save'["server"].at = "idle" /\ scan \in 0..3
      BY <1>1, <2>4 DEF Write, Put, Idle, TypeOK, Copying
    <3>2. QED BY <1>1, <1>2, <3>1 DEF ErrorInv, Tested, Copying
  <2>5. QED BY <1>5, <2>1, <2>2, <2>3, <2>4 DEF SaveEventRecord
<1>6. ASSUME NEW t \in Tasks, Event(t) PROVE ErrorInv'
  <2>1. CASE t # "server"
    <3>1. UNCHANGED <<flags, prev, known, due, scan>> /\ save'["server"] = save["server"]
      BY <1>1, <1>6, <2>1 DEF Event, Begin, errorVars
    <3>2. QED BY <1>3, <3>1
  <2>2. CASE t = "server"
    BY <1>4, <1>6, <2>2 DEF Event, Busy, errorVars
  <2>3. QED BY <2>1, <2>2
<1>7. CASE ClearEventJournal \/ Tick \/ SetBack
  BY <1>3, <1>7 DEF ClearEventJournal, Tick, SetBack, errorVars
<1>8. CASE ErrorServerCalled
  <2>1. /\ UNCHANGED <<flags, prev, known, due, save>> /\ scan = 0 /\ scan' = 1
        /\ save["server"].at = "idle"
    BY <1>8 DEF ErrorServerCalled, Busy, First
  <2>2. QED BY <1>1, <1>2, <2>1 DEF ErrorInv, Tested, Copying
<1>9. ASSUME NEW e \in Errors, ErrorTested(e) PROVE ErrorInv'
  <2>1. CASE IsNew(e)
    <3>1. /\ UNCHANGED <<flags, prev, known, scan>> /\ due' = due \ {e}
          /\ scan = Place[e] /\ save["server"].at = "idle" /\ save'["server"].at = "look"
      BY <1>1, <1>9, <2>1 DEF ErrorTested, Begin, Idle
    <3>2. \A f \in Errors : f # e => (Tested(f)' <=> Tested(f))
      BY <1>2, <3>1 DEF Tested
    <3>3. Tested(e)' /\ ~Tested(e)
      BY <1>2, <3>1 DEF Tested
    <3>4. prev' = known' /\ due' \subseteq flags'
      BY <1>1, <3>1 DEF ErrorInv
    <3>5. scan' # Copying
      BY <1>2, <3>1 DEF Copying
    <3>6. ASSUME NEW f \in flags', f \notin prev', ~Tested(f)' PROVE f \in due'
      <4>1. f # e /\ f \in flags /\ f \in Errors /\ f \notin prev
        BY <1>1, <3>1, <3>3, <3>6
      <4>2. f \in due
        BY <1>1, <3>2, <3>6, <4>1 DEF ErrorInv
      <4>3. QED BY <3>1, <4>1, <4>2
    <3>7. ASSUME NEW f \in due' PROVE f \notin prev' /\ ~Tested(f)'
      <4>1. f # e /\ f \in due /\ f \in Errors
        BY <1>1, <3>1, <3>7 DEF ErrorInv
      <4>2. f \notin prev /\ ~Tested(f)
        BY <1>1, <4>1 DEF ErrorInv
      <4>3. QED BY <3>1, <3>2, <4>1, <4>2
    <3>8. QED BY <3>4, <3>5, <3>6, <3>7 DEF ErrorInv
  <2>2. CASE ~IsNew(e)
    <3>1. /\ UNCHANGED <<flags, prev, known, due, save>> /\ scan' = scan + 1
          /\ scan = Place[e] /\ save["server"].at = "idle"
      BY <1>9, <2>2 DEF ErrorTested
    <3>2. e \notin due /\ ~(e \in flags /\ e \notin prev)
      BY <1>1, <2>2 DEF ErrorInv, IsNew
    <3>3. QED BY <1>1, <1>2, <3>1, <3>2 DEF ErrorInv, Tested, Copying
  <2>3. QED BY <2>1, <2>2
<1>10. CASE ErrorsCopied
  <2>1. /\ UNCHANGED <<flags, due, save>> /\ prev' = flags /\ known' = flags
        /\ scan = 3 /\ scan' = 0
    BY <1>10 DEF ErrorsCopied, Copied, Copying
  <2>2. due = {}
    BY <1>1, <1>2, <2>1 DEF ErrorInv, Tested
  <2>3. QED BY <1>1, <1>2, <2>1, <2>2 DEF ErrorInv, Tested, Copying
<1>11. ASSUME NEW e \in Errors, SetErrorFlag(e) PROVE ErrorInv'
  <2>1. /\ UNCHANGED <<prev, known, scan, save>> /\ flags' = flags \cup {e} /\ e \notin flags
        /\ due' = IF e \in known \/ Tested(e) THEN due ELSE due \cup {e}
    BY <1>11 DEF SetErrorFlag
  <2>2. \A f \in Errors : Tested(f)' <=> Tested(f)
    BY <2>1 DEF Tested
  <2>3. QED BY <1>1, <2>1, <2>2 DEF ErrorInv
<1>12. ASSUME NEW e \in Errors, ClrErrorFlag(e) PROVE ErrorInv'
  <2>1. /\ UNCHANGED <<prev, known, scan, save>> /\ flags' = flags \ {e} /\ due' = due \ {e}
    BY <1>12 DEF ClrErrorFlag
  <2>2. \A f \in Errors : Tested(f)' <=> Tested(f)
    BY <2>1 DEF Tested
  <2>3. QED BY <1>1, <2>1, <2>2 DEF ErrorInv
<1>13. CASE PowerLoss
  BY <1>13 DEF PowerLoss, ErrorInv, Copying
<1>14. CASE UNCHANGED vars
  BY <1>3, <1>14 DEF vars, errorVars
<1>15. QED
  BY <1>5, <1>6, <1>7, <1>8, <1>9, <1>10, <1>11, <1>12, <1>13, <1>14
  DEF Next, Server, ErrorServer, Tasks

-----------------------------------------------------------------------------
LEMMA Inductive == Spec => []IInv
<1>1. Init => IInv
  <2>1. SUFFICES ASSUME Init PROVE IInv
    OBVIOUS
  <2>2. save \in [Tasks -> Saves]
    BY <2>1, IdleSave DEF Init
  <2>3. TypeOK
    BY <2>1, <2>2 DEF Init, TypeOK, Saves, Empty, Copying
  <2>4. ErrorInv
    BY <2>1 DEF Init, ErrorInv, Copying
  <2>5. QED BY <2>3, <2>4 DEF IInv
<1>2. IInv /\ [Next]_vars => IInv'
  BY TypeStep, ErrorStep DEF IInv
<1>3. QED BY <1>1, <1>2, PTL DEF Spec

(* SaveEventRecord (journal.c:109): a search never leaves the ring.        *)
THEOREM TypeCorrect == Spec => []TypeOK
<1>1. IInv => TypeOK
  BY DEF IInv
<1>2. QED BY <1>1, Inductive, PTL

(* ErrorServer (journal.c:504): when it copies the flags, every error it    *)
(* had to enter has been entered or is gone.                               *)
THEOREM NoneForgotten == Spec => []NoErrorForgotten
<1>1. IInv => NoErrorForgotten
  BY DEF IInv, ErrorInv, NoErrorForgotten
<1>2. QED BY <1>1, Inductive, PTL

(* ErrorServer enters only errors that it has not entered since they were   *)
(* raised.                                                                 *)
THEOREM OncePerRaise == Spec => EnteredOnce
<1>1. IInv /\ [Next]_vars => [\A e \in Errors : Entering(e) => e \in due]_vars
  <2>1. SUFFICES ASSUME IInv, Next, NEW e \in Errors, Entering(e) PROVE e \in due
    BY DEF vars, ringVars, errorVars, Entering
  <2>2. /\ TypeOK /\ ErrorInv /\ scan = Place[e] /\ scan \in {1, 2}
        /\ save["server"].at = "idle" /\ save'["server"] # save["server"]
    BY <2>1 DEF IInv, Entering, Errors, Place, Idle
  <2>3. ~Tested(e)
    BY <2>2 DEF Tested, Errors, Place
  <2>4. e \in flags /\ e \notin prev
    <3>1. ASSUME NEW t \in Tasks, SaveEventRecord(t) PROVE FALSE
      <4>1. t # "server"
        BY <2>2, <3>1 DEF SaveEventRecord, Look, Write
      <4>2. save'["server"] = save["server"]
        BY <2>2, <3>1, <4>1 DEF SaveEventRecord, Look, Write, Put, TypeOK, Tasks
      <4>3. QED BY <2>2, <4>2
    <3>2. ASSUME NEW t \in Tasks, Event(t) PROVE FALSE
      <4>1. t # "server"
        BY <2>2, <3>2 DEF Event, Busy
      <4>2. save'["server"] = save["server"]
        BY <2>2, <3>2, <4>1 DEF Event, Begin, TypeOK, Tasks
      <4>3. QED BY <2>2, <4>2
    <3>4. ASSUME UNCHANGED save PROVE FALSE
      BY <2>2, <3>4
    <3>5. ASSUME NEW f \in Errors, ErrorTested(f) PROVE f = e /\ IsNew(f)
      BY <2>2, <3>5 DEF ErrorTested, Errors, Place
    <3>6. ~PowerLoss
      BY <2>1 DEF PowerLoss, Entering, Tasks
    <3>7. PICK f \in Errors : ErrorTested(f)
      BY <2>1, <3>1, <3>2, <3>4, <3>6
      DEF Next, Server, ErrorServer, ErrorServerCalled, ErrorsCopied, ClearEventJournal,
          SetErrorFlag, ClrErrorFlag, Tick, SetBack, Tasks
    <3>8. QED BY <3>5, <3>7 DEF IsNew
  <2>5. QED BY <2>2, <2>3, <2>4 DEF ErrorInv
<1>2. QED BY <1>1, Inductive, PTL DEF Spec, EnteredOnce

-----------------------------------------------------------------------------
(* The order of the ring.  Sound records come in the order in which they     *)
(* were written, round the ring from some slot on; records that were exposed *)
(* are anywhere.  The first of the ring is hidden from the search while it   *)
(* is the newest and of the second of the last one.                          *)
Sound(k) == ring[k].time # 0 /\ ring[k].nr \notin exposed

SomeSound == \E k \in Slots : Sound(k)

Full == \A k \in Slots : ring[k].time # 0

Hidden == Full /\ Sound(0) /\ ring[0].time = ring[N - 1].time /\ ring[0].nr = written

InTurn(k) == Sound(k) /\ ~(k = 0 /\ Hidden)

Steps(i, k) == IF k >= i THEN k - i ELSE k - i + N

InOrder(i) ==
  \A j, k \in Slots :
    InTurn(j) /\ InTurn(k) /\ Steps(i, j) < Steps(i, k) => ring[j].nr < ring[k].nr

(* What the search compares: the later second and, of two slots of the same *)
(* second, the later slot.                                                 *)
Before(q, a) == ring[q].time < ring[a].time \/ (ring[q].time = ring[a].time /\ q < a)

Newest(p) ==
  /\ p \in Slots /\ ring[p].time # 0
  /\ \A l \in Slots : ring[l].time <= ring[p].time
  /\ \A l \in Slots : l > p => ring[l].time < ring[p].time

Latest(a) == InTurn(a) /\ \A b \in Slots : InTurn(b) => ring[b].nr <= ring[a].nr

(* Numbers are given once; a sound record is of a second not before any     *)
(* older one's; places are filled from the first on.                       *)
NumberInv ==
  /\ exposed \subseteq 1..written
  /\ \A k \in Slots : ring[k].nr <= written /\ (ring[k].time # 0 => ring[k].nr >= 1)
  /\ \A j, k \in Slots : ring[j].time # 0 /\ ring[k].time # 0 /\ ring[j].nr = ring[k].nr => j = k

TimeInv ==
  \A j, k \in Slots :
    Sound(k) /\ ring[j].time # 0 /\ ring[j].nr < ring[k].nr => ring[j].time <= ring[k].time

FillInv ==
  /\ \A j, k \in Slots : Sound(k) /\ j < k => ring[j].time # 0
  /\ ~Full => \A j, k \in Slots : Sound(j) /\ Sound(k) /\ j < k => ring[j].nr < ring[k].nr

(* A record after which the next one would be out of order is older than     *)
(* the latest sound one, and loses to it in any search that sees both.       *)
BehindInv ==
  \A q \in Slots : \/ InOrder(After(q))
                   \/ \E a \in Slots : Latest(a) /\ ring[q].nr < ring[a].nr /\ Before(q, a)

RingInv == NumberInv /\ TimeInv /\ FillInv /\ BehindInv

(* A record at i keeps the order, and one written into an empty place leaves *)
(* none behind.                                                              *)
Apt(i) ==
  /\ InOrder(i)
  /\ ~Full => \A k \in Slots : Sound(k) => k < i
  /\ Hidden => i = 0

(* The place a search ends at that nothing interrupted.                      *)
Exact(i) ==
  \/ ring[i].time = 0
  \/ Full /\ \E p \in Slots : Newest(p) /\ i = After(p)

(* Of what a search has seen, only what was written since may be newer than  *)
(* it remembers.                                                             *)
Looking(s) ==
  /\ \A l \in Slots : l < s.i => /\ ring[l].time # 0
                                 /\ ring[l].nr <= s.since => /\ ring[l].time <= s.max
                                                             /\ ring[l].time = s.max => l <= s.indm
  /\ IF s.i = 0 THEN s.max = 0
     ELSE s.indm < s.i /\ (ring[s.indm].time = s.max \/ ring[s.indm].nr > s.since)

(* While a search goes on, no sound record is written: what is sound was     *)
(* there when it began.                                                      *)
Search(s) ==
  /\ s.since <= written
  /\ \A k \in Slots : Sound(k) => ring[k].nr <= s.since
  /\ SomeSound => /\ s.at = "look" => Looking(s)
                  /\ s.at = "write" => Apt(s.i) /\ (s.since = written => Exact(s.i))

SearchInv == \A t \in Tasks : save[t].at # "idle" => Search(save[t])

(* The slots and what follows each.                                        *)
LEMMA LastSlot ==
  /\ N - 1 \in Slots /\ \A k \in Slots : k \in Int /\ 0 <= k /\ k <= N - 1
  /\ \A k \in Slots : After(k) = IF k = N - 1 THEN 0 ELSE k + 1
<1>1. N \in Nat \ {0}
  BY SizeAssumption
<1>2. ASSUME NEW k \in Slots PROVE After(k) = IF k = N - 1 THEN 0 ELSE k + 1
  BY <1>1 DEF Slots, After
<1>3. QED BY <1>1, <1>2 DEF Slots

(* If the first record is hidden, the search takes the last one for the     *)
(* newest, and comes back to the first.                                    *)
LEMMA HiddenIsNext ==
  ASSUME TypeOK, NumberInv, TimeInv, Hidden, NEW p \in Slots, Newest(p)
  PROVE  p = N - 1 /\ After(p) = 0
<1>1. \A k \in Slots : ring[k].time \in Nat /\ ring[k].nr \in Nat
  BY DEF TypeOK
<1>2. 0 \in Slots /\ Sound(0) /\ ring[0].nr = written /\ written \in Nat
  BY SlotArithmetic DEF Hidden, TypeOK
<1>3. ASSUME NEW j \in Slots PROVE ring[j].time <= ring[0].time
  <2>1. CASE j = 0
    BY <1>1, <2>1
  <2>2. CASE j # 0
    <3>1. ring[j].time # 0 /\ ring[j].nr <= written /\ ring[j].nr # written
      BY <1>2, <2>2 DEF Hidden, Full, Sound, NumberInv
    <3>2. ring[j].nr < ring[0].nr
      BY <1>1, <1>2, <3>1
    <3>3. QED BY <1>2, <3>1, <3>2 DEF TimeInv
  <2>3. QED BY <2>1, <2>2
<1>4. ring[p].time <= ring[N - 1].time
  BY <1>3 DEF Hidden
<1>5. ~(N - 1 > p)
  BY <1>1, <1>4, LastSlot DEF Newest
<1>6. QED BY <1>5, LastSlot

(* Counted from the next slot on, a slot comes last; the others keep their   *)
(* order.                                                                  *)
LEMMA Turned ==
  ASSUME NEW i \in Slots, NEW j \in Slots, NEW k \in Slots,
         Steps(After(i), j) < Steps(After(i), k)
  PROVE  j # i /\ (k # i => Steps(i, j) < Steps(i, k))
<1>1. /\ N \in Nat /\ i \in 0..(N - 1) /\ j \in 0..(N - 1) /\ k \in 0..(N - 1)
      /\ After(i) = IF i = N - 1 THEN 0 ELSE i + 1
  BY LastSlot, SlotArithmetic DEF Slots
<1>2. CASE i = N - 1
  BY <1>1, <1>2 DEF Steps
<1>3. CASE i # N - 1
  BY <1>1, <1>3 DEF Steps
<1>4. QED BY <1>2, <1>3

(* Counted from the first slot, or from one above both, slots come in their *)
(* own order.                                                              *)
LEMMA StepsAbove ==
  ASSUME NEW i \in Slots, NEW j \in Slots, NEW k \in Slots, i = 0 \/ (j < i /\ k < i),
         Steps(i, j) < Steps(i, k)
  PROVE  j < k
<1>1. /\ i \in Int /\ j \in Int /\ k \in Int /\ N \in Nat /\ 0 <= j /\ 0 <= k
  BY LastSlot, SlotArithmetic
<1>2. QED BY <1>1 DEF Steps

-----------------------------------------------------------------------------
(* A record is written.  Its place keeps the order; if the record is sound,  *)
(* nothing interrupted the search, its second is not behind any other and   *)
(* it leaves no gap before it.                                             *)
Placed(i, time) ==
  /\ ring' = [ring EXCEPT ![i] = [time |-> time, nr |-> written + 1]]
  /\ written' = written + 1
  /\ exposed' = exposed \/ exposed' = exposed \cup {written + 1}
  /\ time = 0 => ring[i].time = 0
  /\ SomeSound => Apt(i)
  /\ written + 1 \notin exposed' =>
       /\ time # 0
       /\ \A k \in Slots : ring[k].time <= time
       /\ \A k \in Slots : k < i => ring[k].time # 0
       /\ SomeSound => Exact(i)

LEMMA PlacedShape ==
  ASSUME TypeOK, NumberInv, NEW i \in Slots, NEW time \in Nat, Placed(i, time)
  PROVE  /\ \A k \in Slots \ {i} : ring'[k] = ring[k] /\ (Sound(k)' <=> Sound(k))
         /\ ring'[i].time = time /\ ring'[i].nr = written + 1
         /\ Sound(i)' => /\ time # 0
                         /\ \A k \in Slots : ring[k].time <= time
                         /\ \A k \in Slots : k < i => ring[k].time # 0
                         /\ SomeSound => Exact(i)
         /\ \A k \in Slots : ring'[k].time = 0 => ring[k].time = 0
         /\ \A k \in Slots \ {i} : ring'[k].nr < ring'[i].nr
         /\ \A k \in Slots : ring'[k].time \in Nat /\ ring'[k].nr \in Nat
<1>1. /\ \A k \in Slots \ {i} : ring'[k] = ring[k]
      /\ ring'[i].time = time /\ ring'[i].nr = written + 1
  BY DEF Placed, TypeOK
<1>2. ASSUME NEW k \in Slots \ {i} PROVE Sound(k)' <=> Sound(k)
  <2>1. ring[k].nr \in Nat /\ written \in Nat /\ ring[k].nr <= written
    BY DEF NumberInv, TypeOK
  <2>2. ring[k].nr # written + 1
    BY <2>1
  <2>3. ring[k].nr \in exposed' <=> ring[k].nr \in exposed
    BY <2>2 DEF Placed
  <2>4. QED BY <1>1, <2>3 DEF Sound
<1>3. Sound(i)' => /\ time # 0
                   /\ \A k \in Slots : ring[k].time <= time
                   /\ \A k \in Slots : k < i => ring[k].time # 0
                   /\ SomeSound => Exact(i)
  BY <1>1 DEF Sound, Placed
<1>4. ASSUME NEW k \in Slots, ring'[k].time = 0 PROVE ring[k].time = 0
  BY <1>1, <1>4 DEF Placed
<1>5. ASSUME NEW k \in Slots \ {i} PROVE ring'[k].nr < ring'[i].nr
  <2>1. ring[k].nr <= written /\ ring[k].nr \in Nat /\ written \in Nat
    BY DEF NumberInv, TypeOK
  <2>2. QED BY <1>1, <2>1
<1>6. ASSUME NEW k \in Slots PROVE ring'[k].time \in Nat /\ ring'[k].nr \in Nat
  <2>1. CASE k = i
    BY <1>1, <2>1 DEF TypeOK
  <2>2. CASE k # i
    BY <1>1, <2>2 DEF TypeOK
  <2>3. QED BY <2>1, <2>2
<1>7. QED BY <1>1, <1>2, <1>3, <1>4, <1>5, <1>6

LEMMA PlacedNumbers ==
  ASSUME TypeOK, RingInv, NEW i \in Slots, NEW time \in Nat, Placed(i, time)
  PROVE  NumberInv' /\ TimeInv'
<1>1. written \in Nat /\ written' = written + 1 /\ NumberInv /\ TimeInv
  BY DEF TypeOK, Placed, RingInv
<1>2. exposed' \subseteq 1..written'
  <2>1. exposed \subseteq 1..written
    BY <1>1 DEF NumberInv
  <2>2. 1..written \subseteq 1..written' /\ written + 1 \in 1..written'
    BY <1>1
  <2>3. QED BY <2>1, <2>2 DEF Placed
<1>3. ASSUME NEW k \in Slots
      PROVE  ring'[k].nr <= written' /\ (ring'[k].time # 0 => ring'[k].nr >= 1)
  <2>1. CASE k = i
    BY <1>1, <2>1, PlacedShape
  <2>2. CASE k # i
    <3>1. ring'[k] = ring[k] /\ ring[k].nr \in Nat
      BY <1>1, <2>2, PlacedShape DEF TypeOK
    <3>2. ring'[k].nr <= written /\ (ring'[k].time # 0 => ring'[k].nr >= 1)
      BY <1>1, <3>1 DEF NumberInv
    <3>3. QED BY <1>1, <3>1, <3>2
  <2>3. QED BY <2>1, <2>2
<1>4. ASSUME NEW j \in Slots, NEW k \in Slots, ring'[j].time # 0, ring'[k].time # 0,
             ring'[j].nr = ring'[k].nr
      PROVE j = k
  <2>1. ring'[j].nr \in Nat /\ ring'[k].nr \in Nat
    BY <1>1, PlacedShape
  <2>2. CASE j = i \/ k = i
    BY <1>1, <1>4, <2>1, <2>2, PlacedShape
  <2>3. CASE j # i /\ k # i
    BY <1>1, <1>4, <2>3, PlacedShape DEF NumberInv
  <2>4. QED BY <2>2, <2>3
<1>5. ASSUME NEW j \in Slots, NEW k \in Slots, Sound(k)', ring'[j].time # 0,
             ring'[j].nr < ring'[k].nr
      PROVE ring'[j].time <= ring'[k].time
  <2>1. ring'[j].nr \in Nat /\ ring'[k].nr \in Nat
    BY <1>1, PlacedShape
  <2>2. CASE k = i
    <3>1. j # i
      BY <1>5, <2>1, <2>2
    <3>2. QED BY <1>1, <1>5, <2>2, <3>1, PlacedShape
  <2>3. CASE k # i
    <3>1. ring'[k].nr < ring'[i].nr /\ ring'[i].nr \in Nat
      BY <1>1, <2>3, PlacedShape
    <3>2. j # i
      BY <1>5, <2>1, <3>1
    <3>3. QED BY <1>1, <1>5, <2>3, <3>2, PlacedShape DEF TimeInv
  <2>4. QED BY <2>2, <2>3
<1>6. NumberInv'
  BY <1>2, <1>3, <1>4 DEF NumberInv
<1>7. QED BY <1>5, <1>6 DEF TimeInv

LEMMA PlacedFill ==
  ASSUME TypeOK, RingInv, NEW i \in Slots, NEW time \in Nat, Placed(i, time)
  PROVE  FillInv'
<1> NumberInv /\ FillInv
  BY DEF RingInv
<1>1. ASSUME NEW j \in Slots, NEW k \in Slots, Sound(k)', j < k
      PROVE ring'[j].time # 0
  <2>1. ring[j].time # 0
    <3>1. CASE k = i
      BY <1>1, <3>1, PlacedShape
    <3>2. CASE k # i
      BY <1>1, <3>2, PlacedShape DEF FillInv
    <3>3. QED BY <3>1, <3>2
  <2>2. QED BY <2>1, PlacedShape
<1>2. ASSUME ~Full', NEW j \in Slots, NEW k \in Slots, Sound(j)', Sound(k)', j < k
      PROVE ring'[j].nr < ring'[k].nr
  <2>1. ~Full
    BY <1>2, PlacedShape DEF Full
  <2>2. CASE k = i
    BY <1>2, <2>2, PlacedShape, LastSlot
  <2>3. CASE k # i /\ j = i
    <3>1. Sound(k)
      BY <1>2, <2>3, PlacedShape
    <3>2. k < i
      BY <2>1, <3>1 DEF Placed, SomeSound, Apt
    <3>3. QED BY <1>2, <2>3, <3>2, LastSlot
  <2>4. CASE k # i /\ j # i
    BY <1>2, <2>1, <2>4, PlacedShape DEF FillInv
  <2>5. QED BY <2>2, <2>3, <2>4
<1>3. QED BY <1>1, <1>2 DEF FillInv

(* Nothing but the new record comes into the order or leaves it.            *)
LEMMA PlacedTurns ==
  ASSUME TypeOK, RingInv, NEW i \in Slots, NEW time \in Nat, Placed(i, time),
         NEW k \in Slots \ {i}
  PROVE  InTurn(k)' <=> InTurn(k)
<1>1. Sound(k)' <=> Sound(k)
  BY PlacedShape DEF RingInv
<1>2. written' = written + 1 /\ written \in Nat /\ ring[k].nr <= written /\ ring[k].nr \in Nat
  BY DEF Placed, RingInv, NumberInv, TypeOK
<1>3. ring'[k].nr # written'
  BY <1>2, PlacedShape DEF RingInv
<1>4. k = 0 => ~Hidden'
  BY <1>3 DEF Hidden
<1>5. k = 0 => ~(Sound(k) /\ Hidden)
  BY DEF Placed, SomeSound, Apt
<1>6. QED BY <1>1, <1>4, <1>5 DEF InTurn

(* A record out of turn leaves the order of the others as it was.            *)
LEMMA PlacedOutOfTurn ==
  ASSUME TypeOK, RingInv, NEW i \in Slots, NEW time \in Nat, Placed(i, time), ~InTurn(i)'
  PROVE  BehindInv'
<1>1. /\ \A k \in Slots : InTurn(k)' => k # i /\ InTurn(k) /\ ring'[k] = ring[k]
      /\ \A k \in Slots \ {i} : InTurn(k) => InTurn(k)' /\ ring'[k] = ring[k]
  <2>1. \A k \in Slots \ {i} : ring'[k] = ring[k]
    BY PlacedShape DEF RingInv
  <2>2. QED BY <2>1, PlacedTurns
<1>2. ASSUME NEW q \in Slots, InOrder(q) PROVE InOrder(q)'
  BY <1>1, <1>2 DEF InOrder
<1>3. CASE ~SomeSound
  <2>1. \A k \in Slots : ~InTurn(k)'
    BY <1>1, <1>3 DEF InTurn, SomeSound
  <2>2. QED BY <2>1 DEF BehindInv, InOrder
<1>4. ASSUME SomeSound, NEW q \in Slots
      PROVE  (\/ InOrder(After(q))
              \/ \E a \in Slots : Latest(a) /\ ring[q].nr < ring[a].nr /\ Before(q, a))'
  <2>1. InOrder(i)
    BY <1>4 DEF Placed, Apt
  <2>2. CASE q = i
    <3>1. ASSUME NEW j \in Slots, NEW k \in Slots, InTurn(j)', InTurn(k)',
                 Steps(After(i), j) < Steps(After(i), k)
          PROVE  ring'[j].nr < ring'[k].nr
      <4>1. k # i /\ InTurn(j) /\ InTurn(k) /\ ring'[j] = ring[j] /\ ring'[k] = ring[k]
        BY <1>1, <3>1
      <4>2. Steps(i, j) < Steps(i, k)
        BY <3>1, <4>1, Turned
      <4>3. QED BY <2>1, <4>1, <4>2 DEF InOrder
    <3>2. InOrder(After(q))'
      BY <2>2, <3>1 DEF InOrder, After
    <3>3. QED BY <3>2
  <2>3. CASE q # i /\ InOrder(After(q))
    <3>1. After(q) \in Slots
      BY SlotArithmetic
    <3>2. InOrder(After(q))'
      BY <1>1, <2>3 DEF InOrder, After
    <3>3. QED BY <3>2
  <2>4. CASE q # i /\ \E a \in Slots : Latest(a) /\ ring[q].nr < ring[a].nr /\ Before(q, a)
    <3>1. PICK a \in Slots : Latest(a) /\ ring[q].nr < ring[a].nr /\ Before(q, a)
      BY <2>4
    <3>2. CASE a # i
      <4>1. ring'[q] = ring[q] /\ ring'[a] = ring[a]
        BY <2>4, <3>2, PlacedShape DEF RingInv
      <4>2. Latest(a)'
        BY <1>1, <3>1, <3>2, <4>1 DEF Latest
      <4>3. (ring[q].nr < ring[a].nr /\ Before(q, a))'
        BY <3>1, <4>1 DEF Before
      <4>4. QED BY <4>2, <4>3
    <3>3. CASE a = i
      <4>1. ASSUME NEW k \in Slots, InTurn(k)' PROVE FALSE
        <5>1. k # i /\ InTurn(k) /\ InTurn(i) /\ ring[k].nr <= ring[i].nr
          BY <1>1, <3>1, <3>3, <4>1 DEF Latest
        <5>2. Steps(i, i) < Steps(i, k)
          BY <5>1, LastSlot, SlotArithmetic DEF Steps
        <5>3. ring[i].nr < ring[k].nr
          BY <2>1, <5>1, <5>2 DEF InOrder
        <5>4. QED BY <5>1, <5>3 DEF TypeOK
      <4>2. QED BY <4>1 DEF InOrder
    <3>4. QED BY <3>2, <3>3
  <2>5. QED BY <2>2, <2>3, <2>4 DEF RingInv, BehindInv
<1>5. QED BY <1>3, <1>4 DEF BehindInv

(* A record in turn is the latest, and any search that sees it remembers it  *)
(* or one after it.                                                         *)
LEMMA PlacedInTurn ==
  ASSUME TypeOK, RingInv, NEW i \in Slots, NEW time \in Nat, Placed(i, time), InTurn(i)'
  PROVE  BehindInv'
<1>1. /\ \A k \in Slots \ {i} : ring'[k] = ring[k] /\ (InTurn(k)' <=> InTurn(k))
      /\ \A k \in Slots \ {i} : ring'[k].nr < ring'[i].nr
      /\ Sound(i)' /\ ring'[i].time = time /\ time # 0
      /\ \A k \in Slots : ring[k].time <= time
      /\ SomeSound => Exact(i)
      /\ \A k \in Slots : ring'[k].nr \in Nat /\ ring[k].time \in Nat
  BY PlacedShape, PlacedTurns DEF RingInv, InTurn, TypeOK
<1>2. Latest(i)'
  BY <1>1 DEF Latest
<1>3. ASSUME NEW q \in Slots PROVE
        (\/ InOrder(After(q))
         \/ \E a \in Slots : Latest(a) /\ ring[q].nr < ring[a].nr /\ Before(q, a))'
  <2>1. CASE ~SomeSound
    <3>1. \A k \in Slots : InTurn(k)' => k = i
      BY <1>1, <2>1 DEF InTurn, SomeSound
    <3>2. \A x \in Slots, k \in Slots : ~(Steps(x, k) < Steps(x, k))
      BY LastSlot, SlotArithmetic DEF Steps
    <3>3. After(q) \in Slots
      BY SlotArithmetic
    <3>4. InOrder(After(q))'
      BY <3>1, <3>2, <3>3 DEF InOrder, After
    <3>5. QED BY <3>4
  <2>2. CASE SomeSound /\ q = i
    <3>1. ASSUME NEW j \in Slots, NEW k \in Slots, InTurn(j)', InTurn(k)',
                 Steps(After(i), j) < Steps(After(i), k)
          PROVE  ring'[j].nr < ring'[k].nr
      <4>1. j # i /\ (k # i => Steps(i, j) < Steps(i, k))
        BY <3>1, Turned
      <4>2. CASE k = i
        BY <1>1, <4>1, <4>2
      <4>3. CASE k # i
        <5>1. InOrder(i)
          BY <2>2 DEF Placed, Apt
        <5>2. QED BY <1>1, <3>1, <4>1, <4>3, <5>1 DEF InOrder
      <4>4. QED BY <4>2, <4>3
    <3>2. InOrder(After(q))'
      BY <2>2, <3>1 DEF InOrder, After
    <3>3. QED BY <3>2
  <2>3. CASE q # i /\ (q < i \/ ring[q].time # time)
    <3>1. ring'[q].time < ring'[i].time \/ (ring'[q].time = ring'[i].time /\ q < i)
      BY <1>1, <2>3
    <3>2. (ring[q].nr < ring[i].nr /\ Before(q, i))'
      BY <1>1, <2>3, <3>1 DEF Before
    <3>3. QED BY <1>2, <3>2
  <2>4. CASE SomeSound /\ q # i /\ ~(q < i) /\ ring[q].time = time /\ ring[i].time = 0
    <3>1. ASSUME NEW k \in Slots, InTurn(k)', k # i PROVE k < i /\ Sound(k)
      <4>1. Sound(k)
        BY <1>1, <3>1 DEF InTurn
      <4>2. QED BY <2>4, <3>1, <4>1, LastSlot DEF RingInv, FillInv
    <3>2. ~Full
      BY <2>4 DEF Full
    <3>3. ASSUME NEW j \in Slots, NEW k \in Slots, InTurn(j)', InTurn(k)', j < k
          PROVE  ring'[j].nr < ring'[k].nr
      <4>1. CASE k = i
        BY <1>1, <3>3, <4>1, LastSlot
      <4>2. CASE k # i
        <5>1. k < i /\ Sound(k)
          BY <3>1, <3>3, <4>2
        <5>2. j # i /\ Sound(j)
          BY <3>1, <3>3, <5>1, LastSlot
        <5>3. ring[j].nr < ring[k].nr
          BY <3>2, <3>3, <5>1, <5>2 DEF RingInv, FillInv
        <5>4. QED BY <1>1, <4>2, <5>2, <5>3
      <4>3. QED BY <4>1, <4>2
    <3>4. After(q) \in Slots /\ (After(q) = 0 \/ \A k \in Slots : InTurn(k)' => k < After(q))
      <4>1. After(q) \in Slots /\ (After(q) = 0 \/ i < After(q))
        BY <2>4, LastSlot, SlotArithmetic
      <4>2. QED BY <3>1, <4>1, LastSlot
    <3>5. InOrder(After(q))'
      <4>1. ASSUME NEW j \in Slots, NEW k \in Slots, InTurn(j)', InTurn(k)',
                   Steps(After(q), j) < Steps(After(q), k)
            PROVE  ring'[j].nr < ring'[k].nr
        BY <3>3, <3>4, <4>1, StepsAbove
      <4>2. QED BY <4>1 DEF InOrder, After
    <3>6. QED BY <3>5
  <2>5. CASE SomeSound /\ q # i /\ ~(q < i) /\ ring[q].time = time /\ ring[i].time # 0
    <3>1. Full /\ \E p \in Slots : Newest(p) /\ i = After(p)
      BY <1>1, <2>5 DEF Exact
    <3>2. PICK p \in Slots : Newest(p) /\ i = After(p)
      BY <3>1
    <3>3. ring[q].time <= ring[p].time /\ ring[p].time <= time /\ (q > p => ring[q].time < ring[p].time)
      BY <1>1, <3>2 DEF Newest
    <3>4. ring[p].time = time /\ ~(q > p)
      BY <1>1, <2>5, <3>3
    <3>5. p = N - 1 /\ i = 0 /\ p # i
      BY <2>5, <3>2, <3>4, LastSlot
    <3>6. Hidden'
      <4>1. ring'[N - 1].time = time /\ ring'[0].time = time
        BY <1>1, <3>4, <3>5
      <4>2. ring'[i].nr = written'
        BY PlacedShape DEF Placed, RingInv
      <4>3. Sound(0)'
        BY <1>1, <3>5 DEF Sound
      <4>4. Full'
        BY <1>1, <3>1 DEF Full
      <4>5. QED BY <3>5, <4>1, <4>2, <4>3, <4>4 DEF Hidden
    <3>7. QED BY <3>5, <3>6 DEF InTurn
  <2>6. QED BY <2>1, <2>2, <2>3, <2>4, <2>5
<1>4. QED BY <1>3 DEF BehindInv

LEMMA PlacedRing ==
  ASSUME TypeOK, RingInv, NEW i \in Slots, NEW time \in Nat, Placed(i, time)
  PROVE  RingInv'
BY PlacedNumbers, PlacedFill, PlacedOutOfTurn, PlacedInTurn DEF RingInv

(* The record that is overwritten is the oldest, or the hidden first one.   *)
LEMMA PlacedLosesOldest ==
  ASSUME TypeOK, RingInv, NEW i \in Slots, NEW time \in Nat, Placed(i, time),
         NEW k \in Slots
  PROVE  LostInTurn(k)
<1>1. SUFFICES ASSUME ring[k].time # 0, ring'[k] # ring[k], ring[k].nr \notin exposed, Older(k)
               PROVE  SameSecond(k)
  BY DEF LostInTurn
<1>2. k = i
  BY <1>1, PlacedShape DEF RingInv
<1>3. PICK j \in Slots : Sound(j) /\ ring[j].nr < ring[k].nr
  BY <1>1 DEF Older, Sound
<1>4. Sound(k) /\ j # k /\ ring[k].nr \in Nat /\ ring[j].nr \in Nat
  BY <1>1, <1>3 DEF Sound, TypeOK
<1>5. InOrder(k) /\ (Hidden => k = 0)
  BY <1>2, <1>3 DEF Placed, Apt, SomeSound
<1>6. Steps(k, k) < Steps(k, j)
  BY <1>4, LastSlot, SlotArithmetic DEF Steps
<1>7. ~(InTurn(j) /\ InTurn(k))
  BY <1>3, <1>4, <1>5, <1>6 DEF InOrder
<1>8. Hidden /\ k = 0
  BY <1>3, <1>4, <1>5, <1>7 DEF InTurn
<1>9. QED BY <1>8 DEF Hidden, SameSecond

-----------------------------------------------------------------------------
(* The steps of the searches.                                              *)
LEMMA RingKept ==
  ASSUME RingInv, UNCHANGED ringVars
  PROVE  RingInv' /\ \A k \in Slots : LostInTurn(k)
<1>1. ring' = ring /\ written' = written /\ exposed' = exposed
  BY DEF ringVars
<1>2. NumberInv' /\ TimeInv' /\ FillInv'
  BY <1>1 DEF RingInv, NumberInv, TimeInv, FillInv, Sound, Full
<1>3. BehindInv'
  BY <1>1 DEF RingInv, BehindInv, Latest, Before, InOrder, InTurn, Hidden, Sound, Full
<1>4. QED BY <1>1, <1>2, <1>3 DEF RingInv, LostInTurn

LEMMA SearchKept ==
  ASSUME TypeOK, NumberInv, SearchInv, UNCHANGED ringVars,
         \A t \in Tasks : \/ save'[t] = save[t]
                          \/ save'[t].at = "idle"
                          \/ save'[t] = [Idle EXCEPT !.at = "look", !.since = written]
                          \/ save'[t].i \in Slots /\ Search(save'[t])
  PROVE  SearchInv'
<1>1. /\ ring' = ring /\ exposed' = exposed /\ written' = written
      /\ \A k \in Slots : Sound(k)' <=> Sound(k)
  BY DEF ringVars, Sound
<1>2. /\ SomeSound' <=> SomeSound
      /\ \A i \in Slots : (Apt(i) => Apt(i)') /\ (Exact(i) => Exact(i)')
  <2>1. (SomeSound' <=> SomeSound) /\ (Full' <=> Full)
    BY <1>1 DEF SomeSound, Full
  <2>2. (Hidden' <=> Hidden) /\ \A k \in Slots : InTurn(k)' <=> InTurn(k)
    BY <1>1, <2>1, SlotArithmetic DEF Hidden, InTurn
  <2>3. ASSUME NEW i \in Slots, Apt(i) PROVE Apt(i)'
    BY <1>1, <2>1, <2>2, <2>3 DEF Apt, InOrder
  <2>4. ASSUME NEW i \in Slots, Exact(i) PROVE Exact(i)'
    BY <1>1, <2>1, <2>4 DEF Exact, Newest
  <2>5. QED BY <2>1, <2>3, <2>4
<1>3. ASSUME NEW t \in Tasks, save'[t].i \in Slots, Search(save'[t]) PROVE Search(save[t])'
  BY <1>1, <1>2, <1>3 DEF Search, Looking
<1>4. ASSUME NEW t \in Tasks, save'[t].at # "idle" PROVE Search(save[t])'
  <2>1. CASE save'[t] = save[t]
    BY <1>3, <1>4, <2>1 DEF SearchInv, TypeOK
  <2>2. CASE save'[t] = [Idle EXCEPT !.at = "look", !.since = written]
    <3>1. save'[t] = [at |-> "look", i |-> 0, max |-> 0, indm |-> 0, since |-> written]
      BY <2>2 DEF Idle
    <3>2. Search(save'[t]) /\ save'[t].i \in Slots
      BY <3>1, LastSlot, SlotArithmetic DEF Search, Looking, NumberInv, TypeOK
    <3>3. QED BY <1>3, <3>2
  <2>3. QED BY <1>3, <1>4, <2>1, <2>2
<1>5. QED BY <1>4 DEF SearchInv

(* The first empty place is above all sound records.                         *)
LEMMA EmptyIsApt ==
  ASSUME TypeOK, FillInv, NEW i \in Slots, ring[i].time = 0
  PROVE  Apt(i) /\ Exact(i)
<1>1. ASSUME NEW k \in Slots, Sound(k) PROVE k < i
  BY <1>1, LastSlot DEF FillInv, Sound
<1>2. ~Full
  BY DEF Full
<1>3. InOrder(i)
  <2>1. ASSUME NEW j \in Slots, NEW k \in Slots, InTurn(j), InTurn(k), Steps(i, j) < Steps(i, k)
        PROVE  ring[j].nr < ring[k].nr
    <3>1. Sound(j) /\ Sound(k) /\ j < k
      BY <1>1, <2>1, StepsAbove DEF InTurn
    <3>2. QED BY <1>2, <3>1 DEF FillInv
  <2>2. QED BY <2>1 DEF InOrder
<1>4. QED BY <1>1, <1>2, <1>3 DEF Apt, Exact, Hidden

(* At the end of the ring a search remembers a record after which the next   *)
(* one is in order: it has seen the latest sound record, before which any    *)
(* other lies that it could remember, unless that was written since.         *)
LEMMA EndIsApt ==
  ASSUME TypeOK, RingInv, SomeSound, NEW since \in Nat, since <= written,
         \A k \in Slots : Sound(k) => ring[k].nr <= since,
         NEW m \in Slots, NEW max \in Nat,
         ring[m].time = max \/ ring[m].nr > since,
         \A l \in Slots : /\ ring[l].time # 0
                          /\ ring[l].nr <= since => /\ ring[l].time <= max
                                                    /\ ring[l].time = max => l <= m
  PROVE  Apt(After(m)) /\ (since = written => Exact(After(m)))
<1>1. /\ \A k \in Slots : ring[k].time \in Nat /\ ring[k].nr \in Nat /\ ring[k].nr <= written
      /\ written \in Nat /\ NumberInv /\ TimeInv
  BY DEF TypeOK, RingInv, NumberInv
<1>2. InOrder(After(m))
  <2>1. SUFFICES ASSUME NEW a \in Slots, Latest(a), ring[m].nr < ring[a].nr, Before(m, a)
                 PROVE  FALSE
    BY DEF RingInv, BehindInv
  <2>2. ring[a].nr <= since
    BY <2>1 DEF Latest, InTurn
  <2>3. ring[m].time = max
    BY <1>1, <2>1, <2>2
  <2>4. ring[a].time <= max /\ (ring[a].time = max => a <= m)
    BY <2>2
  <2>5. QED BY <1>1, <2>1, <2>3, <2>4, LastSlot DEF Before
<1>3. Full
  BY DEF Full
<1>4. ASSUME since = written PROVE Newest(m)
  <2>1. \A l \in Slots : ring[l].time <= max /\ (ring[l].time = max => l <= m)
    BY <1>1, <1>4
  <2>2. ring[m].time = max
    BY <1>1, <1>4
  <2>3. QED BY <1>1, <2>1, <2>2, LastSlot DEF Newest
<1>5. ASSUME Hidden PROVE After(m) = 0
  <2>1. since = written
    BY <1>1, <1>5, SlotArithmetic DEF Hidden
  <2>2. QED BY <1>1, <1>4, <1>5, <2>1, HiddenIsNext
<1>6. QED BY <1>2, <1>3, <1>4, <1>5 DEF Apt, Exact

LEMMA LookStep ==
  ASSUME TypeOK, RingInv, SearchInv, NEW t \in Tasks, Look(t)
  PROVE  SearchInv'
<1> DEFINE s == save[t]
           r == ring[s.i]
           seen == IF Newer(r, s) THEN [s EXCEPT !.max = r.time, !.indm = s.i] ELSE s
           next == IF r.time = 0 THEN [s EXCEPT !.at = "write"]
                   ELSE IF s.i + 1 = N THEN [seen EXCEPT !.at = "write", !.i = After(seen.indm)]
                   ELSE [seen EXCEPT !.i = s.i + 1]
<1>1. /\ s \in Saves /\ s.at = "look" /\ save' = [save EXCEPT ![t] = next]
      /\ UNCHANGED ringVars /\ written \in Nat
      /\ r.time \in Nat /\ r.nr \in Nat /\ \A k \in Slots : ring[k].time \in Nat /\ ring[k].nr \in Nat
  BY DEF Look, TypeOK, Saves
<1>2. /\ s.since <= written /\ \A k \in Slots : Sound(k) => ring[k].nr <= s.since
      /\ SomeSound => Looking(s)
  BY <1>1 DEF SearchInv, Search
<1>3. save'[t] = next /\ \A u \in Tasks \ {t} : save'[u] = save[u]
  BY <1>1 DEF TypeOK
<1>4. /\ s.i \in Slots /\ s.indm \in Slots /\ s.max \in Nat /\ s.since \in Nat
      /\ s = [at |-> "look", i |-> s.i, max |-> s.max, indm |-> s.indm, since |-> s.since]
  BY <1>1 DEF Saves
<1>5. seen = [at |-> "look", i |-> s.i,
              max |-> IF r.time >= s.max THEN r.time ELSE s.max,
              indm |-> IF r.time >= s.max THEN s.i ELSE s.indm, since |-> s.since]
  BY <1>1 DEF Newer, Saves
<1> HIDE DEF seen
<1>6. ASSUME SomeSound, r.time # 0
      PROVE  /\ \A l \in Slots : l <= s.i =>
                  /\ ring[l].time # 0
                  /\ ring[l].nr <= s.since => /\ ring[l].time <= seen.max
                                              /\ ring[l].time = seen.max => l <= seen.indm
             /\ seen.indm \in Slots /\ seen.indm <= s.i /\ seen.max \in Nat
             /\ ring[seen.indm].time = seen.max \/ ring[seen.indm].nr > s.since
  <2>1. Looking(s)
    BY <1>2, <1>6
  <2>2. CASE r.time >= s.max
    <3>1. seen.max = r.time /\ seen.indm = s.i
      BY <1>5, <2>2
    <3>2. ASSUME NEW l \in Slots, l <= s.i
          PROVE  ring[l].time # 0 /\ (ring[l].nr <= s.since => ring[l].time <= r.time)
      <4>1. CASE l = s.i
        BY <1>1, <1>6, <4>1
      <4>2. CASE l < s.i
        <5>1. ring[l].time # 0 /\ (ring[l].nr <= s.since => ring[l].time <= s.max)
          BY <2>1, <4>2 DEF Looking
        <5>2. QED BY <1>1, <1>4, <2>2, <5>1
      <4>3. QED BY <1>4, <3>2, <4>1, <4>2, LastSlot
    <3>3. QED BY <1>1, <1>4, <3>1, <3>2, LastSlot
  <2>3. CASE ~(r.time >= s.max)
    <3>1. seen.max = s.max /\ seen.indm = s.indm
      BY <1>5, <2>3
    <3>2. s.i # 0
      BY <1>1, <1>4, <2>1, <2>3 DEF Looking
    <3>3. s.indm < s.i /\ (ring[s.indm].time = s.max \/ ring[s.indm].nr > s.since)
      BY <2>1, <3>2 DEF Looking
    <3>4. ASSUME NEW l \in Slots, l <= s.i
          PROVE  /\ ring[l].time # 0
                 /\ ring[l].nr <= s.since => /\ ring[l].time <= s.max
                                             /\ ring[l].time = s.max => l <= s.indm
      <4>1. CASE l = s.i
        BY <1>1, <1>4, <1>6, <2>3, <4>1
      <4>2. CASE l < s.i
        BY <2>1, <4>2 DEF Looking
      <4>3. QED BY <1>4, <3>4, <4>1, <4>2, LastSlot
    <3>5. QED BY <1>4, <3>1, <3>3, <3>4, LastSlot
  <2>4. QED BY <2>2, <2>3
<1>7. next.since = s.since /\ next.i \in Slots
  <2>1. s.i + 1 = N \/ s.i + 1 \in Slots
    BY <1>4, SlotArithmetic
  <2>2. After(seen.indm) \in Slots
    BY <1>4, <1>5, SlotArithmetic
  <2>3. QED BY <1>4, <1>5, <2>1, <2>2
<1>8. ASSUME SomeSound
      PROVE  /\ next.at = "look" => Looking(next)
             /\ next.at = "write" => Apt(next.i) /\ (next.since = written => Exact(next.i))
  <2>1. CASE r.time = 0
    <3>1. next.at = "write" /\ next.i = s.i
      BY <1>4, <2>1
    <3>2. QED BY <1>4, <2>1, <3>1, EmptyIsApt DEF RingInv
  <2>2. CASE r.time # 0 /\ s.i + 1 = N
    <3>1. next.at = "write" /\ next.i = After(seen.indm)
      BY <1>5, <2>2
    <3>2. \A l \in Slots : l <= s.i
      BY <1>4, <2>2, LastSlot, SlotArithmetic
    <3>3. \A l \in Slots : /\ ring[l].time # 0
                           /\ ring[l].nr <= s.since => /\ ring[l].time <= seen.max
                                                       /\ ring[l].time = seen.max => l <= seen.indm
      BY <1>6, <1>8, <2>2, <3>2
    <3>4. Apt(After(seen.indm)) /\ (s.since = written => Exact(After(seen.indm)))
      BY <1>2, <1>4, <1>6, <1>8, <2>2, <3>3, EndIsApt
    <3>5. QED BY <1>7, <3>1, <3>4
  <2>3. CASE r.time # 0 /\ s.i + 1 # N
    <3>1. next = [at |-> "look", i |-> s.i + 1, max |-> seen.max, indm |-> seen.indm,
                  since |-> s.since]
      BY <1>5, <2>3
    <3>2. \A l \in Slots : l < s.i + 1 <=> l <= s.i
      BY <1>4, LastSlot
    <3>3. s.i + 1 # 0 /\ seen.indm < s.i + 1
      BY <1>4, <1>6, <1>8, <2>3, LastSlot
    <3>4. QED BY <1>6, <1>8, <2>3, <3>1, <3>2, <3>3 DEF Looking
  <2>4. QED BY <2>1, <2>2, <2>3
<1>9. Search(next)
  BY <1>2, <1>7, <1>8 DEF Search
<1>10. QED BY <1>1, <1>3, <1>7, <1>9, SearchKept DEF RingInv

(* A record that is not sound may be written into a search: what the search  *)
(* has seen there is of no account any more, and its place stays apt.        *)
LEMMA PlacedSearch ==
  ASSUME TypeOK, RingInv, NEW i \in Slots, NEW time \in Nat, Placed(i, time), ~Sound(i)',
         time # 0,
         NEW t \in Tasks, Search(save[t]), save'[t] = save[t]
  PROVE  Search(save[t])'
<1> DEFINE s == save[t]
<1>1. /\ s.since \in Nat /\ s.i \in Slots /\ s.indm \in Slots /\ written \in Nat /\ written' = written + 1
      /\ \A k \in Slots : ring[k].nr \in Nat
  BY DEF TypeOK, Placed
<1>2. /\ \A k \in Slots \ {i} : ring'[k] = ring[k] /\ (InTurn(k)' <=> InTurn(k))
      /\ \A k \in Slots : Sound(k)' => k # i /\ Sound(k)
      /\ ring'[i].nr = written + 1 /\ ring'[i].time # 0
  BY PlacedShape, PlacedTurns DEF RingInv
<1>3. /\ s.since <= written /\ \A k \in Slots : Sound(k) => ring[k].nr <= s.since
      /\ SomeSound => /\ s.at = "look" => Looking(s)
                      /\ s.at = "write" => Apt(s.i)
  BY DEF Search
<1>4. s.since < written' /\ \A k \in Slots : Sound(k)' => ring'[k].nr <= s.since
  BY <1>1, <1>2, <1>3
<1>5. SomeSound' => SomeSound
  BY <1>2 DEF SomeSound
<1>6. ASSUME Looking(s) PROVE Looking(save[t])'
  <2>1. ASSUME NEW l \in Slots, l < s.i
        PROVE  /\ ring'[l].time # 0
               /\ ring'[l].nr <= s.since => /\ ring'[l].time <= s.max
                                            /\ ring'[l].time = s.max => l <= s.indm
    <3>1. CASE l = i
      <4>1. ~(ring'[i].nr <= s.since)
        BY <1>1, <1>2, <1>3
      <4>2. QED BY <1>2, <3>1, <4>1
    <3>2. CASE l # i
      BY <1>2, <1>6, <2>1, <3>2 DEF Looking
    <3>3. QED BY <3>1, <3>2
  <2>2. IF s.i = 0 THEN s.max = 0
        ELSE s.indm < s.i /\ (ring'[s.indm].time = s.max \/ ring'[s.indm].nr > s.since)
    <3>1. CASE s.indm = i
      BY <1>1, <1>2, <1>3, <1>6, <3>1 DEF Looking
    <3>2. CASE s.indm # i
      BY <1>1, <1>2, <1>6, <3>2 DEF Looking
    <3>3. QED BY <3>1, <3>2
  <2>3. QED BY <2>1, <2>2 DEF Looking
<1>7. ASSUME Apt(s.i) PROVE Apt(save[t].i)'
  <2>1. InOrder(s.i)'
    <3>1. \A k \in Slots : InTurn(k)' => InTurn(k) /\ ring'[k] = ring[k]
      BY <1>2 DEF InTurn
    <3>2. QED BY <1>7, <3>1 DEF Apt, InOrder
  <2>2. ~Full' => \A k \in Slots : Sound(k)' => k < s.i
    <3>1. ~Full' => ~Full
      BY PlacedShape DEF Full, RingInv
    <3>2. QED BY <1>2, <1>7, <3>1 DEF Apt
  <2>3. ~Hidden'
    <3>1. ASSUME Sound(0)' PROVE ring'[0].nr # written'
      <4>1. 0 # i /\ 0 \in Slots
        BY <1>2, <3>1, SlotArithmetic
      <4>2. ring'[0] = ring[0] /\ ring[0].nr <= written
        BY <1>2, <4>1 DEF RingInv, NumberInv
      <4>3. QED BY <1>1, <4>1, <4>2
    <3>2. QED BY <3>1 DEF Hidden
  <2>4. QED BY <2>1, <2>2, <2>3 DEF Apt
<1>8. QED BY <1>1, <1>3, <1>4, <1>5, <1>6, <1>7 DEF Search

LEMMA WriteStep ==
  ASSUME IInv, RingInv, SearchInv, NEW t \in Tasks, Write(t)
  PROVE  RingInv' /\ SearchInv' /\ \A k \in Slots : LostInTurn(k)
<1>0. PICK i \in Slots : i = save[t].i
  BY DEF IInv, TypeOK
<1>1. /\ TypeOK /\ clock \in Nat /\ clock # 0 /\ written \in Nat
      /\ save[t].at = "write" /\ Put(t, i, clock) /\ save[t].since \in Nat
      /\ exposed' = IF Disturbed(t, clock) THEN exposed \cup {written + 1} ELSE exposed
      /\ \A k \in Slots : ring[k].time \in Nat
  BY <1>0 DEF IInv, Write, TypeOK
<1>2. written + 1 \notin exposed' => ~Disturbed(t, clock)
  BY <1>1
<1>3. written + 1 \notin exposed' => /\ \A k \in Slots : ring[k].time <= clock
                                     /\ \A k \in Slots : k < i => ring[k].time # 0
                                     /\ written = save[t].since
  BY <1>0, <1>1, <1>2 DEF Disturbed
<1>4. SomeSound => Apt(i) /\ (save[t].since = written => Exact(i))
  BY <1>0, <1>1 DEF SearchInv, Search
<1>5. Placed(i, clock)
  BY <1>1, <1>3, <1>4 DEF Placed, Put
<1>6. RingInv' /\ \A k \in Slots : LostInTurn(k)
  BY <1>1, <1>5, PlacedRing, PlacedLosesOldest
<1>7. ASSUME NEW u \in Tasks, save'[u].at # "idle" PROVE Search(save[u])'
  <2>1. u # t /\ save'[u] = save[u]
    BY <1>1, <1>7 DEF Put, Idle, TypeOK
  <2>2. Search(save[u])
    BY <1>7, <2>1 DEF SearchInv
  <2>3. written + 1 \in exposed'
    BY <1>1, <1>7, <2>1 DEF Disturbed
  <2>4. ring'[i].nr = written + 1
    BY <1>1, <1>5, PlacedShape DEF RingInv
  <2>5. ~Sound(i)'
    BY <2>3, <2>4 DEF Sound
  <2>6. QED BY <1>1, <1>5, <2>1, <2>2, <2>5, PlacedSearch
<1>8. QED BY <1>6, <1>7 DEF SearchInv

LEMMA PowerLossStep ==
  ASSUME IInv, RingInv, SearchInv, PowerLoss
  PROVE  RingInv' /\ SearchInv' /\ \A k \in Slots : LostInTurn(k)
<1>1. SearchInv'
  BY DEF PowerLoss, SearchInv, Idle
<1>2. CASE UNCHANGED ringVars
  BY <1>1, <1>2, RingKept
<1>3. ASSUME NEW t \in Tasks, NEW time \in 0..clock, save[t].at = "write",
             time = 0 => ring[save[t].i].time = 0,
             ring' = [ring EXCEPT ![save[t].i] = [time |-> time, nr |-> written + 1]],
             written' = written + 1, exposed' = exposed \cup {written + 1}
      PROVE  RingInv' /\ \A k \in Slots : LostInTurn(k)
  <2>1. TypeOK /\ save[t].i \in Slots /\ time \in Nat
    BY <1>3 DEF IInv, TypeOK
  <2>2. SomeSound => Apt(save[t].i)
    BY <1>3 DEF SearchInv, Search
  <2>3. Placed(save[t].i, time)
    BY <1>3, <2>2 DEF Placed
  <2>4. QED BY <2>1, <2>3, PlacedRing, PlacedLosesOldest
<1>4. QED BY <1>1, <1>2, <1>3 DEF PowerLoss

LEMMA ClearStep ==
  ASSUME IInv, RingInv, SearchInv, ClearEventJournal
  PROVE  RingInv' /\ SearchInv' /\ \A k \in Slots : LostInTurn(k)
<1>1. /\ \A k \in Slots : ring'[k].time = 0 /\ ring'[k].nr = 0
      /\ written' = written /\ exposed' = exposed /\ save' = save /\ written \in Nat
  BY DEF ClearEventJournal, Empty, IInv, TypeOK
<1>2. ~SomeSound' /\ \A k \in Slots : ~Sound(k)' /\ ~InTurn(k)'
  BY <1>1 DEF Sound, InTurn, SomeSound
<1>3. NumberInv' /\ TimeInv' /\ FillInv'
  BY <1>1, <1>2 DEF RingInv, NumberInv, TimeInv, FillInv
<1>4. BehindInv'
  BY <1>2 DEF BehindInv, InOrder
<1>5. SearchInv'
  BY <1>1, <1>2 DEF SearchInv, Search
<1>6. QED BY <1>1, <1>3, <1>4, <1>5 DEF RingInv, LostInTurn

LEMMA RingStep ==
  ASSUME IInv, RingInv, SearchInv, [Next]_vars
  PROVE  RingInv' /\ SearchInv' /\ \A k \in Slots : LostInTurn(k)
<1>1. TypeOK /\ NumberInv
  BY DEF IInv, RingInv
<1>2. ASSUME NEW t \in Tasks, Begin(t), UNCHANGED ringVars
      PROVE  RingInv' /\ SearchInv' /\ \A k \in Slots : LostInTurn(k)
  <2>1. \A u \in Tasks : \/ save'[u] = save[u]
                         \/ save'[u] = [Idle EXCEPT !.at = "look", !.since = written]
    BY <1>1, <1>2 DEF Begin, TypeOK
  <2>2. SearchInv'
    BY <1>1, <1>2, <2>1, SearchKept
  <2>3. QED BY <1>2, <2>2, RingKept
<1>3. ASSUME UNCHANGED <<ringVars, save>>
      PROVE  RingInv' /\ SearchInv' /\ \A k \in Slots : LostInTurn(k)
  BY <1>1, <1>3, RingKept, SearchKept
<1>4. ASSUME NEW t \in Tasks, SaveEventRecord(t)
      PROVE  RingInv' /\ SearchInv' /\ \A k \in Slots : LostInTurn(k)
  <2>1. CASE Look(t)
    <3>1. UNCHANGED ringVars
      BY <2>1 DEF Look
    <3>2. QED BY <1>1, <2>1, <3>1, LookStep, RingKept
  <2>2. CASE Write(t)
    BY <2>2, WriteStep
  <2>3. QED BY <1>4, <2>1, <2>2 DEF SaveEventRecord
<1>5. ASSUME NEW t \in Tasks, Event(t)
      PROVE  RingInv' /\ SearchInv' /\ \A k \in Slots : LostInTurn(k)
  BY <1>2, <1>5 DEF Event
<1>6. ASSUME NEW e \in Errors, ErrorTested(e)
      PROVE  RingInv' /\ SearchInv' /\ \A k \in Slots : LostInTurn(k)
  <2>1. "server" \in Tasks
    BY DEF Tasks
  <2>2. QED BY <1>2, <1>3, <1>6, <2>1 DEF ErrorTested
<1>7. ASSUME \/ ErrorServerCalled \/ ErrorsCopied \/ Tick \/ SetBack \/ UNCHANGED vars
             \/ \E e \in Errors : SetErrorFlag(e) \/ ClrErrorFlag(e)
      PROVE  RingInv' /\ SearchInv' /\ \A k \in Slots : LostInTurn(k)
  BY <1>3, <1>7 DEF ErrorServerCalled, ErrorsCopied, Tick, SetBack, SetErrorFlag, ClrErrorFlag,
                    vars
<1>8. QED
  BY <1>4, <1>5, <1>6, <1>7, ClearStep, PowerLossStep
  DEF Next, Server, ErrorServer, Tasks

(* SaveEventRecord (journal.c:109): over any number of records, interrupted  *)
(* searches, clock changes and losses of power, a journal of any size gives  *)
(* up its oldest record, the stated ones excepted.                           *)
THEOREM OldestFirst == Spec => OldestGoesFirst
<1>1. Init => RingInv /\ SearchInv
  <2>1. SUFFICES ASSUME Init PROVE RingInv /\ SearchInv
    OBVIOUS
  <2>2. /\ \A k \in Slots : ring[k].time = 0 /\ ring[k].nr = 0 /\ ~Sound(k) /\ ~InTurn(k)
        /\ exposed = {} /\ written = 0 /\ \A t \in Tasks : save[t].at = "idle"
    BY <2>1 DEF Init, Empty, Sound, InTurn, Idle
  <2>3. NumberInv /\ TimeInv /\ FillInv /\ SearchInv
    BY <2>2 DEF NumberInv, TimeInv, FillInv, SearchInv
  <2>4. BehindInv
    BY <2>2 DEF BehindInv, InOrder
  <2>5. QED BY <2>3, <2>4 DEF RingInv
<1>2. IInv /\ RingInv /\ SearchInv /\ [Next]_vars
        => (RingInv /\ SearchInv)' /\ [\A k \in Slots : LostInTurn(k)]_vars
  BY RingStep
<1>3. QED BY <1>1, <1>2, Inductive, PTL DEF Spec, OldestGoesFirst

=============================================================================
