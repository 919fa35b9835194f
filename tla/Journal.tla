------------------------------- MODULE Journal -------------------------------
(***************************************************************************)
(* The journal of events in FRAM and the error server (PROJECT/app/journal.c)*)
(* with the tasks that use them.  The event server, the menu task and the   *)
(* modem task save records, each looking for a place with one access to     *)
(* FRAM per record and no lock around the whole; a task of higher priority  *)
(* may save records of its own between two accesses of another.  The event  *)
(* server enters new errors in the journal once a second, while the         *)
(* validator task, the one of highest priority, raises and clears its own.  *)
(*                                                                         *)
(* A record is its time and a number given in the order of writing; channel,*)
(* event and data are written with them and read by nothing here.  One flag *)
(* of the server's own stands for those of the hopper and of the fiscal     *)
(* register, one of the validator's for all of its flags.                  *)
(***************************************************************************)
EXTENDS Integers, Sequences, FiniteSets

CONSTANTS
  N,           \* EVENT_RECORDS_COUNT
  MaxClock,    \* bound: the last second
  MaxWritten,  \* bound: records written or begun
  MaxFaults    \* bound: losses of power, times the clock is set back

ASSUME SizeAssumption == N \in Nat \ {0}

ASSUME BoundAssumption ==
  /\ MaxClock \in Nat \ {0} /\ MaxWritten \in Nat /\ MaxFaults \in Nat

Slots == 0..(N - 1)

Tasks == {"server", "menu", "modem"}

(* USER_TASK_PRIO, MENU_TASK_PRIO, MODEM_TASK_PRIO.                        *)
Above(t) == CASE t = "server" -> {} [] t = "menu" -> {"server"}
              [] t = "modem" -> {"server", "menu"}

(* The flags in the order in which ErrorServer goes through them.          *)
Errors == {"hopper", "validator"}
FirstSkipped == 2
First == 1
Place == [hopper |-> 1, validator |-> 2]
Copying == 3

Empty == [time |-> 0, nr |-> 0]

Idle == [at |-> "idle", i |-> 0, max |-> 0, indm |-> 0, since |-> 0]

VARIABLES
  ring,          \* FRAM: EventRecords
  clock,         \* GetTimeSec
  save,          \* where each task is in SaveEventRecord, and its locals
                 \* (history: since, the value of written when it began)
  flags, prev,   \* GlobalErrorsFlags and PrevFlags
  scan,          \* ErrorServer: the flag it is at, Copying, or 0 outside of it
  written,       \* history: number of the last record written
  exposed,       \* history: records written inside another search or after
                 \* one that was interrupted, by a clock that was behind the
                 \* newest record, or cut short
  known,         \* history: the flags when ErrorServer last ended
  due,           \* history: raised errors ErrorServer has to enter
  faults         \* history: for the bound

ringVars == <<ring, written, exposed>>
errorVars == <<flags, prev, scan, known, due>>
vars == <<ringVars, clock, save, errorVars, faults>>

-----------------------------------------------------------------------------

Busy(t) == save[t].at # "idle" \/ (t = "server" /\ scan # 0)

(* A task runs while none above it does.  One that waits for the SPI bus    *)
(* lets the owner finish one access, which is one step here.               *)
Runs(t) == \A u \in Above(t) : ~Busy(u)

Init ==
  /\ ring = [k \in Slots |-> Empty]
  /\ clock = 1
  /\ save = [t \in Tasks |-> Idle]
  /\ flags = {} /\ prev = {} /\ scan = 0
  /\ written = 0 /\ exposed = {} /\ known = {} /\ due = {}
  /\ faults = 0

-----------------------------------------------------------------------------
(* SaveEventRecord.                                                        *)

Underway == Cardinality({t \in Tasks : save[t].at # "idle"})

(* The bound leaves room for the errors that have to be entered.           *)
Room == written + Underway + Cardinality(due) < MaxWritten

Begin(t) == save' = [save EXCEPT ![t] = [Idle EXCEPT !.at = "look", !.since = written]]

(* The search stops at a record that was never written; otherwise it        *)
(* remembers the last one with the newest time.                            *)
NewerOnly(r, s) == r.time > s.max
Newer(r, s) == r.time >= s.max

(* The record after the newest is taken for the oldest.                    *)
AfterPastEnd(k) == k + 1
After(k) == (k + 1) % N

Look(t) ==
  /\ save[t].at = "look" /\ Runs(t)
  /\ LET s == save[t]
         r == ring[s.i]
         seen == IF Newer(r, s) THEN [s EXCEPT !.max = r.time, !.indm = s.i] ELSE s
     IN save' = [save EXCEPT ![t] =
          IF r.time = 0 THEN [s EXCEPT !.at = "write"]
          ELSE IF s.i + 1 = N THEN [seen EXCEPT !.at = "write", !.i = After(seen.indm)]
          ELSE [seen EXCEPT !.i = s.i + 1]]
  /\ UNCHANGED <<ringVars, clock, errorVars, faults>>

(* The record of t is written into another task's search, or after a search *)
(* that another record was written into, or with a time behind the newest,  *)
(* or with places before it cleared during its search.                     *)
Disturbed(t, time) ==
  \/ \E u \in Tasks \ {t} : save[u].at # "idle"
  \/ written # save[t].since
  \/ \E k \in Slots : ring[k].time > time \/ (k < save[t].i /\ ring[k].time = 0)

Put(t, k, time) ==
  /\ ring' = [ring EXCEPT ![k] = [time |-> time, nr |-> written + 1]]
  /\ written' = written + 1
  /\ save' = [save EXCEPT ![t] = Idle]

(* The end of a record of ErrorServer's leads to the next flag.            *)
Write(t) ==
  /\ save[t].at = "write" /\ Runs(t)
  /\ Put(t, save[t].i, clock)
  /\ exposed' = IF Disturbed(t, clock) THEN exposed \cup {written + 1} ELSE exposed
  /\ scan' = IF t = "server" /\ scan # 0 THEN scan + 1 ELSE scan
  /\ UNCHANGED <<clock, flags, prev, known, due, faults>>

SaveEventRecord(t) == Look(t) \/ Write(t)

(* A task has something to record: the server money, tokens or a bill, the  *)
(* menu a wrong password, the modem a report it has sent.                  *)
Event(t) ==
  /\ ~Busy(t) /\ Runs(t) /\ Room
  /\ Begin(t)
  /\ UNCHANGED <<ringVars, clock, errorVars, faults>>

(* The operator's command in the menu.                                     *)
ClearEventJournal ==
  /\ ~Busy("menu") /\ Runs("menu")
  /\ ring # [k \in Slots |-> Empty]
  /\ ring' = [k \in Slots |-> Empty]
  /\ UNCHANGED <<written, exposed, clock, save, errorVars, faults>>

-----------------------------------------------------------------------------
(* ErrorServer, in EVENT_SEC.                                              *)

IsNewAlways(e) == e \in flags
IsNew(e) == e \in flags /\ e \notin prev

ErrorServerCalled ==
  /\ ~Busy("server")
  /\ scan' = First
  /\ UNCHANGED <<ringVars, clock, save, flags, prev, known, due, faults>>

ErrorTested(e) ==
  /\ scan = Place[e] /\ save["server"].at = "idle"
  /\ \/ /\ IsNew(e)
        /\ Begin("server")
        /\ due' = due \ {e}
        /\ UNCHANGED scan
     \/ /\ ~IsNew(e)
        /\ scan' = scan + 1
        /\ UNCHANGED <<save, due>>
  /\ UNCHANGED <<ringVars, clock, flags, prev, known, faults>>

CopiedNew == prev \cup flags
Copied == flags

ErrorsCopied ==
  /\ scan = Copying
  /\ prev' = Copied /\ known' = flags /\ scan' = 0
  /\ UNCHANGED <<ringVars, clock, save, flags, due, faults>>

ErrorServer == ErrorServerCalled \/ (\E e \in Errors : ErrorTested(e)) \/ ErrorsCopied

(* SetErrorFlag and ClrErrorFlag: the validator task runs at any time, the  *)
(* server sets its own flags between two events.                           *)
Reached(e) == e = "hopper" => ~Busy("server")

(* ErrorServer has gone past e and will copy the flags.                    *)
Tested(e) == scan > Place[e] \/ (scan = Place[e] /\ save["server"].at # "idle")

SetErrorFlag(e) ==
  /\ Reached(e) /\ e \notin flags /\ Room
  /\ flags' = flags \cup {e}
  /\ due' = IF e \in known \/ Tested(e) THEN due ELSE due \cup {e}
  /\ UNCHANGED <<ringVars, clock, save, prev, scan, known, faults>>

ClrErrorFlag(e) ==
  /\ Reached(e) /\ e \in flags
  /\ flags' = flags \ {e}
  /\ due' = due \ {e}
  /\ UNCHANGED <<ringVars, clock, save, prev, scan, known, faults>>

-----------------------------------------------------------------------------

Tick ==
  /\ clock < MaxClock
  /\ clock' = clock + 1
  /\ UNCHANGED <<ringVars, save, errorVars, faults>>

(* RTC_SetTime, from the menu.                                             *)
SetBack ==
  /\ ~Busy("menu") /\ Runs("menu") /\ faults < MaxFaults
  /\ clock' \in 1..(clock - 1)
  /\ faults' = faults + 1
  /\ UNCHANGED <<ringVars, save, errorVars>>

(* Power is lost and comes back; the clock has a battery.  A record that    *)
(* was being written may be left with a time of old and new bytes, which is *)
(* not above the new one and 0 only in a place that was empty.             *)
PowerLoss ==
  /\ faults < MaxFaults
  /\ faults' = faults + 1
  /\ save' = [t \in Tasks |-> Idle]
  /\ flags' = {} /\ prev' = {} /\ scan' = 0 /\ known' = {} /\ due' = {}
  /\ \/ UNCHANGED ringVars
     \/ \E t \in Tasks, time \in 0..clock :
          /\ save[t].at = "write" /\ Runs(t)
          /\ time = 0 => ring[save[t].i].time = 0
          /\ ring' = [ring EXCEPT ![save[t].i] = [time |-> time, nr |-> written + 1]]
          /\ written' = written + 1
          /\ exposed' = exposed \cup {written + 1}
  /\ UNCHANGED clock

Server == ErrorServer \/ SaveEventRecord("server")

Next ==
  \/ Server
  \/ SaveEventRecord("menu") \/ SaveEventRecord("modem")
  \/ \E t \in Tasks : Event(t)
  \/ ClearEventJournal
  \/ \E e \in Errors : SetErrorFlag(e) \/ ClrErrorFlag(e)
  \/ Tick \/ SetBack \/ PowerLoss

Spec == Init /\ [][Next]_vars

(* EVENT_SEC comes every second and the server is above the other tasks     *)
(* that save records.                                                      *)
FairSpec == Spec /\ WF_vars(Server)

-----------------------------------------------------------------------------

TypeOK ==
  /\ ring \in [Slots -> [time : Nat, nr : Nat]]
  /\ clock \in Nat \ {0}
  /\ save \in [Tasks -> [at : {"idle", "look", "write"}, i : Slots, max : Nat,
                         indm : Slots, since : Nat]]
  /\ flags \subseteq Errors /\ prev \subseteq Errors /\ known \subseteq Errors /\ due \subseteq Errors
  /\ scan \in 0..Copying
  /\ written \in Nat /\ exposed \subseteq Nat
  /\ faults \in Nat

(* A full journal gives up its oldest record.  A younger one is lost only   *)
(* if it was exposed - one of two searches ran into the other, the clock was *)
(* behind the newest record, the write was cut short - or if it is the first *)
(* of the ring and of the same second as the last one.                     *)
Older(k) ==
  \E j \in Slots :
    ring[j].time # 0 /\ ring[j].nr < ring[k].nr /\ ring[j].nr \notin exposed
SameSecond(k) == k = 0 /\ ring[N - 1].time = ring[0].time

LostInTurn(k) ==
  ring[k].time # 0 /\ ring'[k] # ring[k] /\ ring'[k].time # 0
    => ~Older(k) \/ ring[k].nr \in exposed \/ SameSecond(k)

OldestGoesFirst == [][\A k \in Slots : LostInTurn(k)]_vars

(* ErrorServer takes no error for known that it had to enter and has not.   *)
NoErrorForgotten == due \cap prev = {}

(* An error is entered at most once each time it is raised.                *)
Entering(e) == scan = Place[e] /\ save["server"] = Idle /\ save'["server"] # Idle

EnteredOnce == [][\A e \in Errors : Entering(e) => e \in due]_vars

(* An error that is raised where ErrorServer will find it is entered, or it *)
(* goes away first.                                                        *)
ErrorEntered == \A e \in Errors : e \in due ~> e \notin due

=============================================================================
