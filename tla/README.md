# Models of the token changer

The repository is the firmware of a token changer: an LPC2368 board under
uC/OS-II that takes coins, card payments and bills, gives tokens out of a
hopper, prints a fiscal check and keeps its books in an FRAM chip. This
directory holds TLA+ modules of it, the TLC configurations that check them on
small instances, and theorems about them with proofs for TLAPS.

Paths below are relative to `src/PROJECT/` unless they start with `OS/`.
`PROJECT.json` names, for every definition that models code, the file and the
lines it stands for.

## 1. The system

### Parts, their state and their operations

| Part | Source | State it keeps | Operations |
|---|---|---|---|
| Event server | `app/app_serv.c` | the queue of events; the payout under way (`CountCoin`, `hopperOn`); `MoneyIn`, `led_on`, `press_button`, `was_critical_error`; two time stamps | `UserAppTask`: one handler per event; `PostUserEvent`, `GetUserEvent` |
| Accepted money | `app/app_serv.c:1316-1498` | four lines in FRAM (cash, card, rest, tokens seen), each with a CRC | load at start-up, set, clear, get |
| Counters | `app/journal.c:335-473` | short counters without a CRC and long ones under one CRC, in FRAM | `IncCounter...`, `CheckLongCounters`, `ClearCounters` |
| Event journal, errors | `app/journal.c` | a ring of records; the error flags and their last copy | `SaveEventRecord`, `ErrorServer`, `TstCriticalErrors` |
| Pulse inputs | `services/coin.c` | per line: pending flag, time stamp, length, count, last count reported | `InputCapture_ISR` every millisecond, `CoinTask`, `GetReset...Count`, `...Enable`, `...Disable` |
| Hopper input | `services/coin.c` | pending pulse, count, last count reported, "first" flag | the same interrupt and task, `GetResetHopperCount` |
| Hopper sensors | `services/coin.c:320-367` | two pending flags and a time stamp per line | the same; they post the error events |
| Bill validator | `services/validator.c` | `VConnStat`, `VBillCount`, the bill table, the lock `VLock` | `ValidatorTask`, `ValidatorConnect`, `GetResetBillCount` |
| CCNET bus | `drivers/ccnet/` | one command buffer `cc_buf`, one answer buffer `tmpBuffer` | `CC_Cmd...`, `Transmit`, `TransmitCMD`, `SendCommand` |
| Fiscal register | `services/fr.c`, `drivers/fiscal/` | connection state, error flags, the check being printed, the lock `FLock` | connect, status, print a check, reports, cancel |
| FRAM chip | `drivers/fram/` | the contents of the chip, the lock `SpiLock` | read, write, fill |
| Settings | `data/` | parameters and their ranges | `GetData`, `SetData`, ... |
| Menus, keyboard, display | `menu/`, `drivers/keyboard/`, `drivers/lcd/` | panel shown, value edited, key state | `MenuTask`, `KbrdTask` |
| Modem, FTP, console, host link | `app/`, `services/`, `drivers/modem/` | what is to be sent, connection state | AT commands, reports, service protocol |
| Clock, mode | `services/time.c`, `services/mode.c` | the calendar, the mode switch | `RTC_Isr`, `CheckMode` |
| Kernel, TCP/IP | `OS/` | third-party | - |

### How they interact

Everything meets in the queue of the event server. The second interrupt posts
`EVENT_SEC`; `CoinTask` posts coins, card payments, tokens thrown by the hopper
and changes of its sensor lines; `ValidatorTask` posts stacked and escrowed
bills; the keyboard task posts the customer's button; and the server posts to
itself, to start a payout and to have it checked. A post into a full queue is
lost without a trace. The amounts do not travel in the events: they wait in
counters (`CoinImpCounter`, `VBillCount`, ...) which the server takes and sets
to zero when it handles the event. The server opens and closes the sources by
flags (`coin_enabled`) and by commands over the bus (`CC_CmdBillType`), for
which it competes with the validator task. Money goes to a line in FRAM, and
from there, when the check is printed, to a counter in FRAM.

The priorities decide who can come between whom: validator task, event server,
`CoinTask`, keyboard, then the menus and the communication tasks. The server
runs in the middle of a turn of `CoinTask`; no handler of the server can be
interrupted by `CoinTask` unless it sleeps or waits.

### What is hard about it

- handlers that depend on flags set by handlers run long before, in an order
  nobody wrote down (`MoneyIn`, `press_button`, `was_critical_error`);
- events of several sources queued behind a payout, and sensor events in the
  middle of one;
- loss of power between two writes of one handler, or in the middle of one;
- counters read by one task, reset by another and remembered by a third;
- two tasks and one command buffer on a line that loses frames;
- times compared with times: pulse lengths, pauses, motor and credit timeouts.

## 2. The modules

| Module | Extends | Models | Checked by |
|---|---|---|---|
| `UserApp` | - | event server, with the tasks that post to it | `button`, `cube`, `live`, `claim_paid`, `claim_press` |
| `Bookkeeping` | - | abstract: what the changer promises about money | implemented by `UserApp`: `live` |
| `PulseInput` | - | a pulse line at the grain of the millisecond | `coin` |
| `HopperInput` | - | counting the tokens of the Cube hopper under preemption | `hopper` |
| `SavedMoney` | - | every FRAM write of the books, loss of power in each | `books` |
| `CcnetBus` | - | bill validator, two tasks and the bus | `ccnet`, `claim_bus` |
| `FiscalRegister` | - | the server and the fiscal register, exchange by exchange | `fiscal` |
| `Journal` | - | the ring of event records and `ErrorServer`, three tasks | `journal` |
| `MC...` | the module of that name | instances for TLC | |
| `...Proofs` | the module of that name and `TLAPS` | theorems | |
| `UserAppPaidProofs` | `UserAppProofs` | theorems about the machine with a button | |

`UserApp` implements `Bookkeeping` under a refinement mapping (`Books`), by run
and by theorem. The six lower modules take apart what `UserApp` takes as one
step: what `CountPulse` and `ReportPulses` do there is `PulseInput`; `HopperPulse`
and the two `Extracted` steps are `HopperInput`; the change of `credit` and `ctr`
in a handler is a sequence of writes in `SavedMoney`; `BillPacked` and the opening
and closing of the validator are conversations in `CcnetBus`; printing a check is
`PrintFiscalBill` in `FiscalRegister`, whose error flags are the ones
`TstCriticalErrors` asks for; `SetErrorFlag` and the records of the handlers are
steps of `Journal`. Their properties are what `UserApp` relies on (a pulse that
CoinTask has time for is counted once, a bill is credited once but for the lost
acknowledgements, misread reports and wrong indices that are named, each line of
money is old, new or zero after a loss of power, the server comes back from the
register). No formal mapping
connects the lower modules to `UserApp`: their steps end in its counters and
flags, and the hardware they talk to does not occur there.

In every module an operator standing directly above another one with the same
parameters (`PriceMetLess` above `PriceMet`) is a plausible mistake in that piece
of code. No action uses it. Each property is checked to fail when the mistake
takes the place of the code, so that none of them holds by the shape of the
model.

### UserApp: the event server

The variables are those of `UserAppTask`, the lines and counters it keeps in
FRAM (`credit`, `AcceptedCoin`, `ctr`), what the drivers have counted for it
(`pend`, `HopperImpCounter`), and the queue. There is one action per handler,
guarded by `Handling(e)`: the server waits and `e` is the first event. Two
handlers sleep long enough for other tasks to matter and are cut there: the
pulse loop of `EVENT_GIVE_COIN` (`PulseToken`, `PulseEnd`; the level line of the
hopper may end it) and the run-out pause of `EVENT_HOPPER_EXTRACTED` (`StopHopper`).
`SecCritical`, `SecRecovered` and `SecWork` are the three ways through
`EVENT_SEC`. The rest of the actions are the other tasks, interrupts and the
hardware. `PowerLoss` clears everything but `credit`, `AcceptedCoin` and `ctr`.

The history variables `tokens`, `given`, `forgiven`, `unsettled` record what the
code does not: tokens that left the hopper, money wiped out by a timeout, and the
price of tokens whose check was lost, in a full queue or with the power.

Choices worth knowing:

- After a start the validator is not connected and is opened by the first
  recovered `EVENT_SEC`; `Init` is the state after that.
- A bill whose index is not in the bill table (`"index"` in `Faults`) wipes out the
  bills not yet fetched and is reported all the same. `CcnetBus` has the same branch
  at the grain of the bus.
- `errors` holds one flag per device that `TstCriticalErrors` looks at.
- A line of the hopper settles for more than a second before `CoinTask` reports
  it, so that there is a clock tick between two reports (`settling`).
- The credit timeout (minutes) fires only when the queue is empty; the motor
  timeout (seconds without a token) may fire whenever the motor runs.
- `HopperCost = 0` is excluded: the code divides by it.

Properties:

- `MoneyLedger`: what the income counters know of is still accepted, or was
  counted as paid, or was given up by a timeout.
- `CoinOutCoversTokens`: no Elolution token leaves uncounted, as long as power
  stays on.
- `TokensPaidFor`: tokens given and owed, the rest and the money still to be spent
  never exceed what came in, plus `unsettled`. So a payout is paid for twice only
  when its check got lost. It holds on the button only, with a
  queue that loses events and with losses of power. The code itself does not protect
  the second case: money stays on its lines until the check.
- `MotorHasGoal`: the Cube motor runs only towards a number of tokens.
- `BooksKept`: every step is a step of `Bookkeeping` or leaves the books alone.
  Money that came in waits on two lines; it is settled as a whole, by a check or
  by a timeout, and no step does anything else to it. The mapping takes the income
  counters for what came in, the lines of cash and card for what waits, the
  payment counter for what was paid, and `forgiven` for what was given up.
- `PressServed`, `MoneyTakenAgain`, `StuckMotorStops`: liveness, see below.

### PulseInput: a pulse line

A millisecond is one round of `turn`: the interrupt sees the line's next level,
the server does what it wants with its time, and `CoinTask` takes a turn if the
server sleeps in this millisecond (`ServerSleeps`). The server has the higher
priority and may keep the processor instead (`ServerHolds`), any number of
milliseconds in a row: a handler that searches the journal in FRAM does. Times are
ages that stop growing once no comparison can change any more, so no clock is
needed and the model is finite without a bound on time.

`active`, `idle`, `waiting`, `unseen`, `good` and `missed` watch the line itself and
know nothing of the code: a pulse is good when it was active longer than
`Pulse - Span` and idle longer than `Pause` afterwards with the source open; it is
`unseen` until `CoinTask` has a turn after that, and `missed` when the next pulse
begins, or the source is closed, before that turn. `EveryPulseOnce` says that the
code's counts are the good pulses less those missed: a pulse is lost for lack of a
turn and for no other reason (the next edge clears the pending flag,
`services/coin.c:591`), and none is counted twice. `CountedIsFetched` says that a
counted pulse is reported and fetched, or the source is closed.

### HopperInput: tokens of the Cube hopper

The server may be free, busy with another event, or in the pause before it stops
the motor; `CoinTask` runs only when the server waits, and is split at the post,
after which the server runs before `CoinTask` remembers the count it reported.
`NeverShort`: the motor is not stopped before its tokens have fallen (tokens an
abandoned payout left behind count). `MotorStops`: it is stopped, although
reports get lost.

### SavedMoney: the books in FRAM

A handler is the sequence of writes it makes (`todo`), a write one step, a loss
of power may leave the cell written, unwritten or torn, and may hit the repair
of the start-up as well. A CRC is the content it was computed from; collisions
are left out. `LinesSurvive`: after any number of losses a line is what it was,
what the interrupted handler wanted, or nothing, and untouched lines are
untouched. `BooksDrift`: the ledger of `UserApp` is off by at most the money that
was on the lines of interrupted handlers.

### CcnetBus: the bill validator

A command is: fill `cc_buf`, take the lock, send up to three times, acknowledge
data, release. The reset of the bus (`CC_BusReset`) takes the same lock for its
pause, without the buffer. The device is external: it obeys frames that arrive
whole, and repeats the report of a packed bill until it is acknowledged. A bounded
number of frames is lost or damaged, or of bills reported by an index outside the
bill table. The validator task has priority: the server moves only when that waits.
A post may find the server's queue full, since other tasks fill it too; then the
event is lost and nothing tells.

- `OneOnBus`: one task at a time between the lock and its release.
- `EveryBillOnce`: an equation between the stacker and the books. What is credited,
  counted or still to be told is what was packed, but for three things that are
  counted: a lost acknowledgement adds a bill (`lostAcks`), a report that the server
  reads for its own answer takes one away (`misread`), and a wrong index takes away
  its own bill and those not fetched yet (`dropped`, `services/validator.c:214-235`).
- `CountedIsCredited`: what the validator task counted reaches the books, unless
  every event that announced it was lost (`unposted`); the money of such a bill waits
  for the next one, whose event fetches both.
- `PollGoesOn`: the polling does not stop.

### FiscalRegister: status, bills, reports

A step is one exchange with the register and what the code does before the next.
An exchange is answered, refused with a code, answered with the length or the
command of another one and the code 0, or not answered at all - and in the last two
cases the register may have obeyed. Codes are of three kinds: those in
`FiscalCriticalErrorsTable` (`"code"`), the four that set a flag but are not in it
(`"minor"`: 20, 2F, 71, 93), and those without a flag (`"unknown"`). `pc` is the command that goes out next, `job` what
the server wants (a bill for cash, one for card money, the connection, a report,
a cancellation), `ret` where `CheckFiscalStatus` goes on. `repeat` and `err` are
the locals of `PrintFiscalBill`: after a failure the attempts are spent by going
through the same command again (`AgainAfterFailure`, `AgainAfterAnswer`), and `err`
keeps an old code where there was no answer. `CheckFiscalStatus` may also return -1
for a status in order, when the pass began too late (`CheckExit`). The register is
external: it has
power, paper, a shift that ends, a document with sales, a buffer of reports, and
a printer that is busy for a while (`Ready`, `Accepts`, `After`).

- `OneBillOneSale`: at most one bill is closed for a payment, and every closed
  bill holds one sale. It is not obvious: after one failure the code does send
  sales again although they succeeded. Such a document is never closed, because
  the repetition ends only when the register refuses.
- `LockGivenBack`: when the server waits for an event the register is free.
- `RecordMeansBill`: the record of a printed bill means a closed bill, with the
  extended command format or for cash (the short format never closes a card bill).
- `EveryStepCounts`: each step of a visit to the register takes it nearer to its
  end, by a measure (`StepsLeft`) of the attempts, bills and status commands still
  to come, whatever fails on the way.
- `ServerReturns`, `ErrorsClear`: the attempts end; a register that works again is
  found, and the errors that stop the machine go away without help. The flag of a code
  outside the table does not stop it, and may stay: nothing looks for the register
  on its account.

### Journal: event records and the error server

`SaveEventRecord` is cut at each access to FRAM: it looks at the records one by
one, takes the place after the newest, and writes. Three tasks may be in it, and
a task runs only while none of a higher priority does. The validator task raises
and clears errors between any two tests of `ErrorServer`. The clock may be set
back, and power may be lost while a record is written, which leaves a time made
of old and new bytes.

- `OldestGoesFirst`: a full ring gives up its oldest record, save for the cases the
  property names: a record written inside another task's search or after a search
  that another record was written into, under a clock behind the newest record, or
  cut short; and two records of the same second at the two ends of the ring. `since`
  remembers what was the last record when a search began.
- `NoErrorForgotten`, `EnteredOnce`, `ErrorEntered`: an error `ErrorServer` has to
  enter is never taken for known, is entered once per raise, and is entered. What
  is raised between its test and the copy of the flags is not among those: the
  code never enters it.

## 3. The runs

| Run | Instance | Shows |
|---|---|---|
| `button` | tokens on the button, Elolution, coins, card and a bill of more than a token, a bill of unknown index; 7 roubles, price 3; a queue of three that loses events, one loss of power | no token uncounted; none unpaid for but after a lost check |
| `cube` | Cube, tokens at once, a credit that expires, a validator that is lost and found, a motor that sticks | types, books, a motor that has a goal and is stopped |
| `live` | button, hopper running empty at any time, one loss of power | a press is answered, the machine takes money again, every step is one of `Bookkeeping` |
| `coin` | pulses and noise of any length, a server that keeps the processor as long as it likes | each good pulse once unless `CoinTask` had no turn for it; fetched |
| `hopper` | payouts of up to `MaxGoal` tokens, any preemption | not short, stopped |
| `books` | four handlers, two losses of power | lines and drift |
| `ccnet` | two bills, two faults (frames or indices), posts lost at any time | the bus, every bill credited once, the polling |
| `fiscal` | a payment in cash, by card or both, two faults (answer lost or garbled, a code of any kind, power, paper, end of the shift), four machines: bill format and ignored errors in every combination, each way to close a shift | one bill per payment, the lock, the record, each step nearer to the end |
| `journal` | a ring of two records, four records, one loss of power or clock set back | the oldest goes first, every error once |
| `claim_paid`, `claim_press`, `claim_bus` | one property each, a comment of the source taken at its word | a counterexample |

`CHECK_DEADLOCK FALSE` stands where the bounds end the run: no money left to put
in, no handler or fault left.

### Bounds, and why they are enough

- `MaxMoney` covers a payout, the rest of one and the beginning of the next.
  Prices and denominations are chosen so that a rest occurs.
- `MaxPending = 1`: at most one copy of each event of the other tasks is in the
  queue. The code has no such bound: `CoinTask` posts every millisecond while a count
  stands, so that the queue of 256 can fill while the server sleeps. What a full queue
  does is reached in `button` by `QueueLen = 3`; a further copy of an event finds its
  counter empty. The theorems have neither bound: they hold for every `MaxPending` and
  every `QueueLen`, lost events included. `cube` and `live` have a queue with room,
  for the liveness: a lost `EVENT_GIVE_COIN` or `EVENT_PRINT_CHECK` leaves
  `press_button` set and the button dead until a restart.
- `MaxLosses` 1 or 2: one loss inside a handler, one inside its repair.
- `MaxFaults = 2` in `CcnetBus` spoils two of the three attempts of one command or one
  attempt of two commands, or joins a bad frame and a wrong index. Lost posts are not
  bounded.
- `MaxCount = 3` in `HopperInput`: tokens while the server is busy, as many as the
  largest payout; a report that gets lost needs fewer.
- `MaxSales = 2` in `FiscalRegister`: a bill with its sale in it twice is possible,
  and a register that refuses the next one. `MaxFaults = 2`: one fault starts the
  repetitions of a bill, the other meets them.
- `MCSettings` in `MCFiscalRegister`: the way to close a shift works inside
  `CheckFiscalStatus` only, the bill format in the last command of a bill only, so that
  not every combination of the two is run. The theorems hold for all settings.
- `N = 2` in `Journal`: both ends of the ring are neighbours, so each record is
  written over twice by `MaxWritten = 4`. That is enough for the hidden first
  record and for a search that is overtaken, but not for a search that comes to an
  end between records of two others: it takes a ring of four. The theorems hold for
  every `N`.
- Times in `PulseInput` are a few milliseconds (the code: tens and hundreds); the
  theorem `PulsesCounted` holds for all values.

### Fairness

- `UserApp`: `WF` of the server as a whole, since a task of its priority runs
  whenever it has an event, and of the clock interrupt. No fairness for
  customers or faults. `FairSpec` adds a hopper that throws tokens while its
  motor runs; `StuckSpec` adds instead that time passes.
- `PulseInput`: `WF` of the interrupt and of `CoinTask`; `SF` of `ServerSleeps`, since
  every handler ends or sleeps, but in no particular millisecond; `SF` of `ServerFetch`:
  the server's place in a millisecond comes and goes, and a queued event is not passed
  over forever.
- `HopperInput`: the tasks; `SF` of the interrupt, because between two pulses
  `CoinTask` takes the pending one, and the hopper is not empty.
- `CcnetBus`: the steps of `Transmit`, of the validator task and of its bus reset; `SF` of
  `VPend`, as
  each task asks for the lock every other tick and the other one leaves it free
  for longer than that between two commands; `SF` of `BillStacked`, since the
  server runs whenever the validator task waits and its queue is in order. There is no
  fairness in which posts are lost.
- `FiscalRegister`: `WF` of the server inside a job and of the register's printer;
  `SF` of `ConnectFiscalFast`, because `EVENT_SEC` comes every second but not
  while the server is in another job. None for operator, customer and faults.
- `Journal`: `WF` of the server, which runs above the other tasks that save records
  and gets `EVENT_SEC` every second.

## 4. The proofs

| Theorem | Of | Says | Rests on |
|---|---|---|---|
| `UserAppProofs!TypeCorrect` | `TypeOK` | types | inductive as it stands |
| `UserAppProofs!BooksBalance` | `MoneyLedger` | the ledger | types |
| `UserAppProofs!MotorStopsSomewhere` | `MotorHasGoal` | the motor's goal | `PayoutInv` |
| `UserAppProofs!TokensCounted` | `CoinOutCoversTokens` | counting of tokens | `PayoutInv` |
| `PulseInputProofs!TypeCorrect`, `PulsesCounted` | `TypeOK`, `EveryPulseOnce` | pulses, under any scheduling of `CoinTask` | below |
| `HopperInputProofs!TypeCorrect`, `NeverStoppedShort` | `TypeOK`, `NeverShort` | tokens | below |
| `UserAppProofs!ImplementsBookkeeping` | `BooksKept` | refinement of `Bookkeeping` | types |
| `UserAppPaidProofs!TokensPaid` | `TokensPaidFor` | no token unpaid for but after a lost check | `Config`, below |
| `CcnetBusProofs!TypeCorrect`, `OneTaskOnBus`, `BillsCreditedOnce` | `TypeOK`, `OneOnBus`, `EveryBillOnce` | the bus and the credit | below |
| `SavedMoneyProofs!TypeCorrect`, `LinesAreSafe`, `DriftIsBounded` | `TypeOK`, `LinesSurvive`, `BooksDrift` | loss of power | below |
| `FiscalRegisterProofs!TypeCorrect`, `OneBill`, `LockFree`, `RecordTrue` | `TypeOK`, `OneBillOneSale`, `LockGivenBack`, `RecordMeansBill` | the bills | below |
| `FiscalRegisterProofs!VisitsEnd` | `EveryStepCounts` | the end of a visit | below |
| `JournalProofs!TypeCorrect`, `NoneForgotten`, `OncePerRaise` | `TypeOK`, `NoErrorForgotten`, `EnteredOnce` | the errors | below |
| `JournalProofs!OldestFirst` | `OldestGoesFirst` | the order of the ring | below |

All of them hold for every value of the constants that satisfies the named
assumptions of the modules. TLC checked each invariant first.

*UserApp.* `TypeOK` is inductive, with one step per action of `Next`. For the
books, the steps are sorted first into those that write none of `credit`, `ctr`,
`forgiven` (`QuietBooks`) and the seven handlers that do, each with a lemma of its
own. `MotorHasGoal` and `CoinOutCoversTokens` share `PayoutInv`, which adds what
ties the variables of a payout together: the motor and the run-out pause occur in
the Cube regime only, the pulse loop in the other only, and there, as long as
power stays on, a server that waits has no `CountCoin` and nothing `left`; in the loop
`given` and `left` add up to `CountCoin`, which is what the credit buys.

*UserApp, tokens paid for.* `TokensPaid` assumes `Config`, and each part of it is
needed. `ButtonMode`: without a button the money of two sources starts two payouts,
and the Cube pays by its own count. `NoCriticalErrors`: a critical error makes
`EVENT_SEC` ask for a second payout of the same money (`claim_paid`), so the devices
that can raise one do not fail, or the setting that ignores the hopper's reports is
on. Nothing is assumed of the queue, of how often an event is posted, or of power:
the run `button` is an instance in which events and power are lost. The invariant: no
critical error is there or on its way (`CalmInv`); there is at most one payout, waiting
to begin, under way or waiting for its check, and while there is one the button is not
armed (`TurnInv`), whatever events were lost; and the money accepted covers what the
payout owes and has given (`PaidInv`). The check that is not made is what makes
`unsettled` grow, in two places: at the end of the pulse loop if the queue is full
(`PaidPulseEnd`), and at a loss of power in the loop or before the check
(`PaidPowerLoss`). A lost check leaves `press_button` set, so that its money can be
spent again only after a restart; the lemma about the loss of power says that even
then what is paid twice is counted.

*PulseInput.* `EveryPulseOnce` alone is not inductive, since a pulse the code
will count next is nowhere in it. The invariant adds that the pending flag is set
exactly while the line waits for the pause of a good pulse or a good pulse is
`unseen`, that inside a pulse the code's clock measures the pulse, and that while the
flag is set the other clock measures the pause. Then the turn of `CoinTask` that counts
is the one that sees the pulse; the two steps that clear the flag instead, the next
leading edge and a turn with the source closed, are the ones `missed` counts.

*HopperInput.* `NeverShort` is an action property. The invariant says that what
has been noted (`accepted`, `count` and the pending pulse) is at most what fell
since the motor started plus what was left then, and that in the pause before the
stop enough has fallen.

*CcnetBus.* `OneOnBus` (who is past `VPend` holds the lock) is inductive once the
values of `pc` are known: `BusInv`. The reason is that a task enters with a free
lock only, and only the task that holds it frees it. `EveryBillOnce` needs besides
the types that an answer "packed" on its way is about a bill that still is in the
device (`ReportIsTrue`), and that the validator task hears of a packed bill in its
poll and nowhere else (`PollInv`: while it waits for an answer it holds none yet, and
a poll in the buffer is its own). Then an acknowledgement moves the bill from the
device to the task that reads, or is lost and counted among `lostAcks`; the server,
if it is the one that reads, drops it, and that is counted by `misread`. Posts do not
occur in the argument, so it holds whichever of them are lost.

*SavedMoney.* The invariant has three modes. `Idle`: nothing is being written and
every line is whole. `Hand`: a handler is writing; each line it touches is
unwritten, half written (its CRC is still the old one) or written, and the long
counters, together with what the writes to come will add (`Due`), agree with the
lines the handler wants. `Repair`: a handler was interrupted; the lines it touched
hold anything of the old, the new and nothing or a torn value, the lines the
start-up has gone past are whole, and the counters are off by at most what was at
stake. `Plan` says what a list of writes must satisfy for a handler to enter
`Hand`; there is one lemma per handler that its writes are such a plan. The drift
is bounded because each handler's writes move the counters one way only
(`OneWay`), so that an interruption leaves them between the old and the new books.

*FiscalRegister.* The invariant has four parts: types; the lock is taken exactly
at the places inside a job (`LockInv`); which job each place belongs to
(`JobInv`); and how far the bill is at each place (`BillInv`). The core is its line
on `close`: either the document holds exactly one sale and no bill was closed, or
a bill was closed and no document is open. It holds because a command that
succeeds while `repeat` is set is made again until the register refuses it, and
from a refusal no way leads on to the next command. `VisitsEnd` rests on the same
invariant: `StepsLeft` adds up, for the place the server is at, the attempts left
of its command, the commands of the bill behind it, the bills still owed and the steps
of a status check. The bound on faults plays no part in it, so that the attempts end
with a register that never answers as well.

*Journal.* `ErrorInv`: what is due has not been gone past, and an error that is
raised, not known and not gone past is due. The search for a place stays inside
the ring for every `N` (`SlotArithmetic`).

`OldestFirst` is about records that are sound: written and not exposed. `InOrder(i)`
says that they come in the order of their numbers if one goes round the ring from
`i`, so that a record put at `i` replaces the oldest. The invariant of the ring
(`RingInv`) says of every slot that the next record is in order after it, or that it
is older than the latest sound one and loses to it in the comparison the search makes
(`BehindInv`); besides that a sound record's second is not before any older one's
(`TimeInv`) and that places are filled from the first on (`FillInv`). The invariant of
a search (`SearchInv`) says that of what it has seen only what was written since it
began can beat what it remembers. So a search that comes to the end of the ring
remembers a slot written since, which is younger than every sound one, or one that the
latest sound record does not beat: in both cases the next place is in order
(`EndIsApt`), however many records were written meanwhile. A record written into a
search is not sound, hence it disturbs no order, and the place another task has found
stays in order (`PlacedSearch`). Which task interrupts which plays no part, nor their
number. The exception for two records of a second is the one the code has: the first
of the ring, if it is the newest and of the second of the last, is hidden from the
search, which goes back to it (`HiddenIsNext`).

The property was first stated with one exception less: a record written after a search
that was itself interrupted counted as sound. TLC has nothing against that in rings of
two and three records, but the proof did not go through, and a ring of four with a
chosen initial state gave the counterexample: the modem task has looked past a slot
that the menu task then finds for its record; before the menu writes, the server writes
into that slot and the next one; the modem task goes on, takes the second of these for
the newest and puts its record after it. That record is out of order and is overwritten
before an older one.

*Bookkeeping.* `ImplementsBookkeeping` sorts the steps of `UserApp` as
`BooksBalance` does: handlers that take money in are `Accept`, the check is
`Settle`, the two timeouts are `GiveUp`, and every other step, also a loss of power
and every fault, stutters.

### What is only model-checked

Liveness under fairness (`PressServed`, `MoneyTakenAgain`, `StuckMotorStops`,
`CountedIsFetched`, `MotorStops`, `CountedIsCredited`, `PollGoesOn`, `ServerReturns`,
`ErrorsClear`, `ErrorEntered`) is beyond the prover, as is everything that needs
`ENABLED`, induction over data, or operators declared `RECURSIVE` (there are none
here). `EveryStepCounts` is the part of `ServerReturns` that is a statement about
steps. Every invariant and every action property of the passing runs is the subject of
a theorem, `TokensPaidFor` under the hypotheses above.

## 5. Where the code departs from its comments

The three `claim_` runs give the shortest histories:

1. `claim_paid`: a hopper error between the press of the button and its payout
   starts a second payout for the same money. `EVENT_SEC` posts `EVENT_GIVE_COIN`
   because `MoneyIn` is still set, and the money is cleared only by
   `EVENT_PRINT_CHECK`, queued behind both.
2. `claim_press`: `EVENT_SEC` lights the button for a credit and wipes the expired
   credit a few lines later. A press before the next second sets `press_button` and
   starts a payout that finds no money; nothing asks for the check that would
   clear `press_button`, and the button is dead until the restart.
3. `claim_bus`: the server's command replaces the validator task's in the buffer;
   a repetition then sends the wrong command. The other way round a poll goes out for the server, with no
   fault of the line: if a bill has just been packed, the server reads the report,
   acknowledges it and drops it, and the bill is credited to nobody (`misread` in
   `EveryBillOnce`).

Other departures met on the way have no run of their own:

- An error that only `EVENT_PRINT_CHECK` sees leaves the machine closed for good:
  the sources were closed by the payout, the check does not open them because of
  the error, and `EVENT_SEC` opens them only after an error it saw itself
  (`was_critical_error`, `app_serv.c:226-252`). `live` with
  `Faults = {"validator"}` shows `MoneyTakenAgain` violated.
- Tokens that fall while the server is busy bring the count up to the value
  `CoinTask` remembers from before, and are not reported (`coin.c:296`), although
  the comment at `coin.c:298` says the event is sent almost at once. The motor runs
  until one more token falls.
- Power lost between the two steps of `CheckLongCounters` leaves the short counters
  as they were, and the next start sees nothing to repair (`journal.c:462`, whose
  comment says they are cleared too).
- A check is asked for even when no token left (`app_serv.c:730`); a late hopper
  pulse ends a payout that does not exist (`:958`); money of another source between
  the price and the check starts a second payout (`:416`); a bill stacked during an
  error opens the validator (`:552`); a critical error keeps the motor timeout from
  its work (`:240`).
- A pulse of good length and pause is erased by the next one if the server has kept the
  processor from the end of the pause until then (`services/coin.c:591`; `missed`).
- A lost `EVENT_BILL_STACKED` is not posted again, unlike the coins: the bill waits in
  `VBillCount` for the next one (`app_serv.c:1116`, `unposted`).
- An index outside the bill table wipes out bills already counted and not yet fetched
  (`services/validator.c:219`, `dropped`).
- The codes 20, 2F, 71 and 93 set a flag (`services/fr.c:503`, `562`, `589`) and are not
  in `FiscalCriticalErrorsTable` (`:1011-1094`): `EVENT_SEC` does not look for the register
  on their account, and the flag stays until the next payment.
- If the check of a payout finds the queue full, or power is lost before it, the money
  stays on its lines, and after the restart the button gives tokens for it again
  (`app_serv.c:730`, `1116`; `unsettled`).
- After one failure `PrintFiscalBill` repeats commands that succeeded
  (`services/fr.c:785`), so that after a lost answer no bill is completed at all,
  and a document with several sales stays open until it is cancelled by hand.

## 6. What is not modelled, and why

- Of the fiscal register: `EnableFiscal` switched off, the keys for the X-report and
  for the reports from the buffer, sums and texts of a bill, and the bytes of the
  link level (an exchange is one step that may fail before or after the register
  obeyed).
- The hopper's sensor lines below the level of their reports; the counters by
  nominal; `EVENT_INCASSATION`; printing the journal and the counters.
- Settings, menus, keyboard beyond the customer's button, display: tables and
  layout. Settings are constants here; changing one in the middle of a payout is
  not covered. `EVENT_CASH_INSERTED` has no sender in this build.
- Settings that change while the machine runs also reach `coin.c`: other pulse
  lengths, a source switched off, the other hopper regime.
- The bytes on the serial lines, CRC computation, flash programming.
- Modem, console, host link: input and output. FTP is not compiled in.
- Kernel and TCP/IP: third-party. The modules assume priorities, a queue that
  refuses when full and counting semaphores. Most lines of the repository are
  these two (`OS/`, and there the TCP/IP stack), followed by the tables of `data/`
  and `menu/`; the program's own control is in the few files the modules translate.

## 7. Plan

1. `SensorLines`: the two flags and the time stamp per line, refining the two
   signals of `UserApp`.
2. The counters by nominal, incassation, and the modem task that reports and
   clears them.
3. `UserApp`'s pulse counting implemented by `PulseInput`, which needs a version of
   `UserApp` at the grain of the millisecond.
4. Proofs: the safety part of the liveness properties of the other modules, as
   `EveryStepCounts` is for the register.
