---------------------------- MODULE PulseInput ----------------------------
(***************************************************************************)
(* A pulse input of the changer: the coin acceptor's line or the bank       *)
(* terminal's (PROJECT/services/coin.c treats them alike).  Every           *)
(* millisecond the timer interrupt (InputCapture_ISR) looks at the line;    *)
(* CoinTask takes one turn in it, unless the event server, which has the    *)
(* higher priority, keeps the processor.  A pulse counts when it was long   *)
(* enough and the line stayed idle for the pause after it; the pulses are   *)
(* reported when no new one came for a while.                               *)
(*                                                                         *)
(* Times are kept as ages that stop growing once every comparison with them *)
(* is decided.  An operator directly above another one with the same        *)
(* parameters is a likely mistake in that code, used by no action.          *)
(***************************************************************************)
EXTENDS Integers

CONSTANTS
  Pulse,         \* coin_pulse: length of a pulse, in milliseconds
  Span,          \* COIN_IMP_SPAN: how much shorter it may be
  Pause,         \* coin_pause
  Silence,       \* 500: how long no pulse comes before the report
  MaxPulses,     \* bound: pulses of the line
  MaxQueued      \* bound: reports waiting in the queue

ASSUME TimesAssumption ==
  /\ Pulse \in Nat /\ Span \in Nat /\ Span < Pulse
  /\ Pause \in Nat \ {0} /\ Silence \in Nat \ {0}
  /\ MaxPulses \in Nat /\ MaxQueued \in Nat \ {0}

VARIABLES
  turn,          \* who runs next in this millisecond
  line,          \* TRUE: the line is in a pulse
  width,         \* T3CR - period_coin
  pend,          \* pend_coin_counter
  age,           \* OSTimeGet() - pend_coin_timestamp
  count,         \* CoinImpCounter
  last_count, quiet,   \* last_coin_count, OSTimeGet() - last_coin_time
  enabled,       \* coin_enabled
  queued,        \* EVENT_COIN_INSERTED in the server's queue
  fetched,       \* history: pulses the server fetched
  active, idle,  \* history: how long the line has been in a pulse, or idle
  waiting,       \* history: a pulse long enough waits for its pause
  unseen,        \* history: it had its pause, and CoinTask no turn since then
  good,          \* history: pulses long enough that had their pause
  missed         \* history: those of them CoinTask had no turn for in time

codeVars == <<width, pend, age, count, last_count, quiet>>
pulseVars == <<active, idle, waiting, unseen, good, missed>>
vars == <<turn, line, codeVars, enabled, queued, fetched, pulseVars>>

Older(t, limit) == IF t > limit THEN t ELSE t + 1

LongEnoughLess == width > Pulse - 2 * Span
LongEnough == width > Pulse - Span

PauseOverAtOnce == TRUE
PauseOver == age > Pause

Silent == quiet > Silence

ChangedFromNone(now) == now # 0
Changed(now) == last_count # now

PostedAnyway(q) == q + 1
Posted(q) == IF q < MaxQueued THEN q + 1 ELSE q

(* The event server has opened the source, and the line has been idle.      *)
Init ==
  /\ turn = "isr"
  /\ line = FALSE /\ width = Pulse + 1
  /\ pend = FALSE /\ age = Pause + 1
  /\ count = 0 /\ last_count = 0 /\ quiet = 0
  /\ enabled = TRUE /\ queued = 0 /\ fetched = 0
  /\ active = 0 /\ idle = Pause + 1
  /\ waiting = FALSE /\ unseen = FALSE /\ good = 0 /\ missed = 0

-----------------------------------------------------------------------------
(* A millisecond begins: the line has its next level and the interrupt      *)
(* handles the edge, if there is one.                                       *)

Aged ==
  /\ width' = Older(width, Pulse)
  /\ quiet' = Older(quiet, Silence)

Steady ==
  /\ turn = "isr" /\ turn' = "server"
  /\ Aged
  /\ age' = Older(age, Pause)
  /\ UNCHANGED <<line, pend, count, last_count>>

LeadingEdge ==
  /\ turn = "isr" /\ turn' = "server"
  /\ ~line /\ line' = TRUE
  /\ width' = 0
  /\ pend' = FALSE
  /\ age' = Older(age, Pause) /\ quiet' = Older(quiet, Silence)
  /\ UNCHANGED <<count, last_count>>

TrailingEdge ==
  /\ turn = "isr" /\ turn' = "server"
  /\ line /\ line' = FALSE
  /\ Aged
  /\ pend' = (pend \/ LongEnough')
  /\ age' = IF LongEnough' THEN 0 ELSE Older(age, Pause)
  /\ UNCHANGED <<count, last_count>>

(* What the line itself says, whatever the code makes of it.  A pulse is    *)
(* good when the line was active for more than Pulse - Span and then idle   *)
(* for more than Pause, and no turn of CoinTask in between found the source *)
(* closed.  CoinTask has time for a good pulse until the next one begins or *)
(* the source is closed.                                                    *)
Observe ==
  /\ active' = IF line' THEN Older(active, Pulse) ELSE 0
  /\ idle' = IF line' \/ line THEN 0 ELSE Older(idle, Pause)
  /\ LET over == waiting /\ ~line' /\ idle' > Pause
     IN /\ good' = IF over THEN good + 1 ELSE good
        /\ unseen' = ((over \/ unseen) /\ ~line')
        /\ waiting' = IF line THEN ~line' /\ active > Pulse - Span
                              ELSE waiting /\ ~over /\ ~line'
  /\ missed' = IF unseen /\ line' THEN missed + 1 ELSE missed

SeenOpen ==
  /\ unseen' = FALSE
  /\ UNCHANGED <<active, idle, waiting, good, missed>>

SeenClosed ==
  /\ unseen' = FALSE /\ waiting' = FALSE
  /\ missed' = IF unseen THEN missed + 1 ELSE missed
  /\ UNCHANGED <<active, idle, good>>

InputCapture_ISR ==
  /\ Steady \/ (LeadingEdge /\ good < MaxPulses) \/ TrailingEdge
  /\ Observe
  /\ UNCHANGED <<enabled, queued, fetched>>

-----------------------------------------------------------------------------
(* The server takes what it wants of the processor: it fetches the pulses   *)
(* for one event, opens or closes the source, or is busy with another one,  *)
(* and then sleeps or keeps the processor for another millisecond.          *)

ServerFetch ==
  /\ turn = "server" /\ queued > 0
  /\ queued' = queued - 1
  /\ fetched' = fetched + count /\ count' = 0
  /\ UNCHANGED <<turn, line, width, pend, age, last_count, quiet, enabled, pulseVars>>

ServerSwitch ==
  /\ turn = "server"
  /\ enabled' = ~enabled
  /\ UNCHANGED <<turn, line, codeVars, queued, fetched, pulseVars>>

ServerHolds ==
  /\ turn = "server" /\ turn' = "isr"
  /\ UNCHANGED <<line, codeVars, enabled, queued, fetched, pulseVars>>

ServerSleeps ==
  /\ turn = "server" /\ turn' = "task"
  /\ UNCHANGED <<line, codeVars, enabled, queued, fetched, pulseVars>>

-----------------------------------------------------------------------------
(* One turn of CoinTask.                                                    *)

(* A source that is closed keeps its count and forgets a pending pulse.     *)
TaskClosed ==
  /\ turn = "task" /\ ~enabled
  /\ turn' = "isr"
  /\ pend' = FALSE /\ age' = Pause + 1
  /\ SeenClosed
  /\ UNCHANGED <<line, width, count, last_count, quiet, enabled, queued,
                 fetched>>

TaskOpen ==
  /\ turn = "task" /\ enabled
  /\ turn' = "isr"
  /\ LET counts == pend /\ PauseOver
         now == IF counts THEN count + 1 ELSE count
     IN /\ count' = now
        /\ pend' = (pend /\ ~counts)
        /\ \/ /\ now = 0
              /\ quiet' = 0
              /\ UNCHANGED <<last_count, queued>>
           \/ /\ now # 0 /\ Changed(now)
              /\ last_count' = now /\ quiet' = 0
              /\ UNCHANGED queued
           \/ /\ now # 0 /\ ~Changed(now)
              /\ queued' = IF Silent THEN Posted(queued) ELSE queued
              /\ UNCHANGED <<last_count, quiet>>
  /\ SeenOpen
  /\ UNCHANGED <<line, width, age, enabled, fetched>>

CoinTask == TaskClosed \/ TaskOpen

Next ==
  \/ InputCapture_ISR
  \/ ServerFetch \/ ServerSwitch \/ ServerHolds \/ ServerSleeps
  \/ CoinTask

Spec == Init /\ [][Next]_vars

(* Time passes, the server sleeps again and again, CoinTask runs when it    *)
(* does, and an event is handled some time.                                 *)
FairSpec == Spec /\ WF_vars(InputCapture_ISR) /\ SF_vars(ServerSleeps)
                 /\ WF_vars(CoinTask) /\ SF_vars(ServerFetch)

-----------------------------------------------------------------------------

TypeOK ==
  /\ turn \in {"isr", "server", "task"}
  /\ line \in BOOLEAN /\ pend \in BOOLEAN /\ enabled \in BOOLEAN
  /\ width \in 0..Pulse + 1 /\ age \in 0..Pause + 1
  /\ quiet \in 0..Silence + 1
  /\ count \in Nat /\ last_count \in Nat /\ fetched \in Nat
  /\ queued \in 0..MaxQueued
  /\ active \in 0..Pulse + 1 /\ idle \in 0..Pause + 1
  /\ waiting \in BOOLEAN /\ unseen \in BOOLEAN
  /\ good \in Nat /\ missed \in Nat

(* Every good pulse of the line is counted once, fetched or still to be     *)
(* fetched, but for those CoinTask gets no turn for before the next one     *)
(* begins or the source is closed, and nothing else is counted: noise adds  *)
(* nothing, reports that come twice fetch nothing twice, a source that is   *)
(* closed keeps what it has counted.                                        *)
EveryPulseOnce ==
  count + fetched + missed + (IF unseen THEN 1 ELSE 0) = good

(* Counted pulses are fetched, unless the source is closed first.           *)
CountedIsFetched == count > 0 ~> count = 0 \/ ~enabled

=============================================================================
