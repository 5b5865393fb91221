# CanFestival in TLA+

Formal models of the CanFestival CANopen stack: the C library under `src/src`, its drivers under
`src/drivers` and its headers under `src/include`. The models are translated from the code; they are
checked with TLC on small instances and, where said so, proved with TLAPS for every instance.

## 1. The system

A CANopen node is one `CO_Data` structure: an object dictionary and the state of each protocol. Three
kinds of thread work on it, one at a time, because each takes `CanFestival_mutex` first:

* the **receive thread** of a CAN port (`canReceiveLoop`) reads a frame and calls `canDispatch`, which hands
  it to the protocol its COB-id names, if the node's communication state has that protocol switched on;
* **notification threads**, one per expiry of the POSIX timer, run `timer_notify` and so `TimeDispatch`,
  which calls the callbacks of the alarms that are due;
* the **application**, between `EnterMutex` and `LeaveMutex`.

| component | state | operations | hard because |
|---|---|---|---|
| alarm table `timer.c` | rows, `last_timer_raw`, `total_sleep_time` | `SetAlarm`, `DelAlarm`, `TimeDispatch` | unsigned arithmetic, callbacks change the table while it is scanned, handles without owners |
| POSIX timer driver `timers_unix.c` | mutex, `last_sig`, one hardware timer | `timer_notify`, `setTimer`, `getElapsedTime`, `StartTimerLoop`, `StopTimerLoop` | the stamp is taken outside the mutex, notification threads overlap |
| port driver `unix.c`, `can_socket.c` | `canports`, receive threads | `canOpen`, `canClose`, `canSend`, `canReceiveLoop` | threads are cancelled while they may hold the mutex |
| SDO `sdo.c` | `transfers[]`: lines shared by server and client roles | `proceedSDO`, `SDOTimeoutAlarm`, `read/writeNetworkDict*`, `get*ResultNetworkDict`, `closeSDOtransfer` | two ends, watchdogs, late and lost frames, lines that must be released |
| node states `states.c` | `nodeState`, communication flags, node id | `setState`, `canDispatch`, `setNodeId` | one transition calls six others' start and stop |
| NMT `nmtMaster.c`, `nmtSlave.c` | none of its own | state commands, boot-up | broadcast, reset of the node id |
| life guarding `lifegrd.c` | heartbeat tables, guard counters, alarm handles | producer, consumers, node guarding | timeouts against late messages, toggles, counters that wrap |
| PDO `pdo.c` | transmit status, inhibit and event alarms | `buildPDO`, `sendPDOevent`, `proceedPDO`, alarms | counter and flags in one byte, inhibit time, SYNC |
| SYNC `sync.c` | one alarm | `startSYNC`, `proceedSYNC` | alarm restarted by dictionary writes |
| EMCY `emcy.c` | error list, `error_state`, `error_register` | `EMCY_setError`, `EMCY_errorRecovered` | bounded list, derived register |
| DCF `dcf.c` | cursor in the concise file, status | `init_consise_dcf`, `write_consise_dcf_next_entry` | a chain of SDO callbacks |
| LSS `lss.c` | LSS mode, fast scan state, alarms | master requests, slave answers | timeouts, bit-wise search |
| object dictionary `objacces.c` | the dictionary | `getODentry`, `setODentry`, callbacks | sizes, types, callbacks on write |
| dictionary editor `objdictgen`, examples, HCS12 headers, `symbols.c` | | | generated code, samples, export lists: not modelled |

The components meet in three places. Every protocol sets alarms in the one table; its callbacks run on
notification threads. `switchCommunicationState` starts and stops the protocols together. SDO servers write the
dictionary, whose callbacks restart heartbeat, SYNC and PDO alarms.

### What makes each part correct

* **Alarms**: an alarm is called once per delay, by the row its owner's handle names, neither early nor never; a
  deleted alarm is not called; arithmetic on the unsigned times never wraps where it matters.
* **SDO**: what is written or read is whole and is what was asked for; a transfer ends, is reported once, and
  gives its line back.
* **Life guarding and NMT**: a node that is believed in is watched; silence is noticed, a living node is never
  reported dead; the table of states follows the nodes.
* **PDO and SYNC**: inhibit times are kept and end; events, timers and SYNCs publish the last value; nobody's timer
  is lost or taken by another.
* **EMCY**: the error register is the union of the active errors, and register, table, history and what a consumer
  heard tell one story.
* **DCF**: a slave that the master starts is configured; the status that makes other slaves wait ends with the
  transfer it stands for; nobody who waits is forgotten.
* **LSS**: an answer is true of the slave it is taken for; node ids are distinct, the bit rate is one, and scan after
  scan every slave gets its id.
* **Object dictionary**: what a client wrote it reads back, and what it may not write it cannot change.
* **Port driver** (not modelled yet): no port or mutex is lost with a thread.

The hazards behind these, line by line, are listed in `PROJECT.json`.

## 2. Modules

| module | models | extends / uses |
|---|---|---|
| `Timer` | the alarm table: one operator per function of `timer.c`, and `setTimer` | |
| `UnixTimer` | threads, mutex, time and users around `Timer` | `Timer`, `AlarmService` |
| `AlarmService` | what the table promises: alarms are pending, called or deleted | |
| `UnixTimer_proofs` | the theorems about `UnixTimer` | `UnixTimer`, TLAPS |
| `SDOLine` | `transfers[]`: finding, opening, closing lines, their buffers and watchdogs | |
| `SDO` | `proceedSDO` at both ends, timeouts, users, bus and node faults | `SDOLine` |
| `SDOBlock` | block transfers next to the plain ones, on the same lines | `SDO` |
| `SDO_proofs` | the theorems about `SDO` | `SDOBlock` for one frame, TLAPS |
| `SDOBlock_proofs` | the theorems about `SDOBlock` | `SDO_proofs` |
| `Alarms` | the alarm table as the protocols use it, exact and on time | |
| `LifeGuard` | heartbeat producer and consumers, node guarding, the master's requests | `Alarms` |
| `NodeState` | `setState`, NMT commands at both ends, dispatch of frames | `LifeGuard` |
| `Network` | nodes on a bus: time, delays, losses, crashes, users, writes | `NodeState` |
| `Network_proofs` | the theorems about `Network` | `Network`, TLAPS |
| `PDO` | transmit PDOs and SYNC: one operator per function of `pdo.c` and `sync.c` | `Alarms` |
| `ProcessData` | a producer of PDOs and a consumer on a bus that may lose frames | `PDO` |
| `ProcessData_proofs` | the theorems about `ProcessData` | `ProcessData`, TLAPS |
| `ObjDict` | reading and writing entries of the dictionary, one operator per function of `objacces.c` | |
| `Emergency` | a producer of EMCY, its dictionary, SDO clients and a consumer | `ObjDict` |
| `Emergency_proofs` | the theorems about `Emergency` | `Emergency`, TLAPS |
| `DCF` | a master that checks, configures and starts its slaves | |
| `DCF_proofs` | the theorems about `DCF` | `DCF`, TLAPS |
| `LSS` | a master with its user and slaves, LSS and fast scan | |
| `LSS_proofs` | the theorems about `LSS` | `LSS`, TLAPS |
| `MCUnixTimer`, `MCSDO`, `MCSDOBlock`, `MCNetwork`, `MCEmergency`, `MCDCF`, `MCLSS` | values of the constants for TLC | |

`Timer` and `Alarms` are two models of one table. `Timer` is the table of the code, with its elapsed times, wake-ups and
late threads; `Alarms` is the table with time made exact, for the protocols. `UnixTimer` justifies the step between
them: it implements `AlarmService`, names every row by one handle, and, without overlapping notification threads, calls every alarm
on time (`timer_ontime`). What the simplification leaves out is lateness and the early call of section 5.

### Timer and UnixTimer

A row is a record of `state`, `callback`, `val` and `interval`; `callback` stands for the triple callback, `d`, `id`.
`SetAlarm(cb, value, period, handle)` is the relation between the table before and after the call and the handle
returned. The first pass of `TimeDispatch` is one step (`PassOne`, no callback runs in it), the second pass one step
per callback (`Call`) with the callback's own calls to `SetAlarm` and `DelAlarm` between it and `CallbackReturns`.
`elapsed` is the time since `last_sig`; it restarts at `Stamp`, when a notification thread writes `last_sig`, and
`EnterDispatch` happens later, when that thread has the mutex: the two steps are two lines of `timer_notify` with
`EnterMutex` between them. `getElapsedTime` reads the time first (`CallSetAlarm`, `StartTimerLoop`, `EnterDispatch`) and `last_sig`
second (`Arm`, `InitArmed`, `Dispatch`); between the two time passes and other threads stamp, so that the difference in `sample` may be negative, and, when a
stamp falls between the two fields of `last_sig`, off by any of `Tears`. It is unsigned for `SetAlarm` (`Elapsed`), which then stores a `val`
near `TIMEVAL_MAX` if the delay is shorter than the gap; `TimeDispatch` keeps its lower 32 bits (`Overrun`). The ghost `across` holds the
rows set by such a call, and `Farthest`, half of `TIMEVAL_MAX`, tells delays from differences that were negative. Users keep a handle each and follow the discipline of `lifegrd.c`, `sync.c` and `pdo.c`:
set only when the handle is `TIMER_NONE`, keep what `SetAlarm` and `DelAlarm` return, and forget the handle of a
one-shot alarm when it is called.

### SDOLine and SDO

A connection is a client entry (0x1280 ...) of one node's dictionary and the server entry (0x1200) of another's; frames
travel in two first-in-first-out queues per connection, `req` and `resp`. Each handler is one branch of the `switch`
of `proceedSDO` for one role: `ServerDownloadSegment` is `case 0` for a server, `ClientDownloadSegment` is `case 1` for a
client, and so on. Byte counts are the code's; the bytes themselves are abstracted to the value they are a prefix of,
and to `Mixed` when segments of two values, or segments out of order, meet in one buffer. `abortCode` is left out: the
only test on it (after the timeout callback) decides between a line reset by the callback and one reset after it.
A refusal by the dictionary (`setODentry`, `getODentry`) is a choice of the environment. The user asks for one transfer at
a time on a connection, with a callback, and takes the result in the callback or later. `HasClientEntry` names the nodes whose
dictionary has client entries: on the others `SDOTimeoutAlarm` returns early and leaves the line as it is. `LateAnswers` says
whether frames may be in flight when a watchdog rings, a node comes back or, for answers, a user starts a transfer.

### SDOBlock

What a line keeps of a block transfer (`blksize`, `seqno`, `lastblockoffset`, `objsize`, `endfield`, `rxstep`, `tmpData`) is
a record `block[n][i]` beside the line of `SDO`, so that the plain handlers are used as they are: a step of `SDO` leaves
`block` alone, but for lines that are reset. `proceedSDO` reads every frame as block data while a line receives a block
(`sdo.c:843`), whatever its first byte; the first byte of a segment is its number and the last flag, which a line
that does not receive reads as a command. Producer and consumer are the same operators for a downloading client and an
uploading server; their handlers are separate actions, one per `sub` of cs 5 and 6, as in the code. Answers come in time.
The CRC, which the code neither computes nor checks, is left out.

### Alarms, LifeGuard, NodeState and Network

The functions of the code are operators from the state `d` of a node, the part of `CO_Data` they use, to its next state;
`d.out` collects the frames handed to `canSend`, in order. This keeps the order of calls inside a handler, as when
`setState` stops life guarding, starts it again and sends a boot-up, while one handler stays one step, as the mutex makes it.
`Network` has one record per node, an inbox per node in which each frame ages, and the actions of the three kinds of
thread: `Receive`, `CallAlarm` and the users' calls. A crash forgets everything but the defaults of the dictionary. The
toggle bit of guarding answers is left out, since the receiver does not look at it.

Loops over nodes, entries of 0x1016, PDOs and client entries are recursive functions of the loop's counter here and in `PDO`
and `DCF`: entry `k` is the state after `k` rounds. The array of node ids has `NMT_MAX_NODE_ID` elements, as in the code.

### PDO and ProcessData

Again operators on a record `d`. `transmit_type_parameter` is one byte with three uses, as in the code: a count of SYNCs
for cyclic types, and in its first bit `PDO_INHIBITED` and `PDO_RTR_SYNC_READY`, which are the same bit. `last_message` is
the frame the comparison in `sendOnePDOevent` looks at; `PDOEventTimerAlarm` makes it differ by a COB-id 0. A PDO's
content is one value; whether `buildPDO` accepts its mapping is the constant `Buildable`. `ProcessData` adds the
application, which changes and signals values, masters, who write every communication parameter, requests and SYNCs at any
time, the states of the node, and a consumer. In `setState` SYNC is switched before PDO, as in `switchCommunicationState`.

### ObjDict and Emergency

`_getODentry` and `_setODentry` are functions from a dictionary to a result: which of access, presence, size, range and
callback refuses first is the order of the code, and strings and domains are sequences of bytes. A write to a domain longer than `maxsize`, 65536 in the code, is refused. The buffer of a
domain is as long as its initial value (`objdictgen/gen_cfile.py:77`), with which the code does not compare: what a write between the two lengths
does to the memory behind is not modelled, and `EmergencyAssumption` excludes such writes. The register 0x1001 is a
set of bits; an error code stands for the code and its additional information. The test of `valueRange_EMC`, which lets a client
write nothing but 0 to the count of 0x1003, is that of the tables `objdictgen` generates (`TestSlave.c:28`). `EMCY_setError`
and `EMCY_errorRecovered` are one action each: table, register, history and frame change under one mutex.

### DCF

`d` is what the code uses of the master's `CO_Data`: the status, the table of states, the client entries 0x1280 and one line
per entry. An action is one call: `post_SlaveBootup`, or the callback of a transfer with the next transfer it starts,
which `OneLinePerPeer` of `SDO` allows to be one line per entry. The frames of a transfer are abstracted to a request that the
slave serves once or that is lost, and an answer. A slave's objects live beside those it has saved; it reboots when reset or
after a crash with the saved ones. Whether `DCF_SAVE_NODE` is defined is a choice at the start.

A transfer ends without the callback in three ways, and in all of them the code waits for good: the SDO client takes no request, as no line is
free or `canSend` fails (`Refuse` turns that on and off at any time), or what is written is longer than `SDO_MAX_LENGTH_TRANSFER`; an object read is longer than the line
(`ReceiveTooLong`); a frame comes that does not fit the transfer (`Stray`). The last two are `failedSDO`, which leaves the line in `SDO_ABORTED_INTERNAL`.
`d.dropped` remembers that it happened. The cast of the size to `UNS8` in a write is the function `Cut` from a value to what is left of it.
Left out are late frames that do fit the transfer in progress, of which the client does not look at the index, and an abort that the slave sends
after its answer (both in section 5, *SDO*).

### LSS

An identity has `Fields` numbers of `Bits` bits, 4 of 32 in the code, and the services of one kind for each number are one
service with a field `sub`. The master's part is `lss_transfer` with its alarms; a slave's part is `lss_transfer`, its id, the
node id its COB-ids follow from, its bit rate and the handle of its port. The user of the model is the one of the manual:
it scans, gives the slave it found an id and scans again, and in between runs one of a few sequences of other commands. Answers
are in time: an alarm or the next command waits until no frame is on its way. A command whose `canSend` fails (`SendFails`) changes what is set before
the call (`Unsent`), starts no timer and leaves the transfer as it was; its user tries again or breaks off. It counts as a loss, as a frame of an alarm or of a slave
that is not sent is one that is lost.

## 3. Properties and runs

| run | checks | what it shows |
|---|---|---|
| `timer_races` | `TypeOK`, `NoRowIsLost`, `HandlesMatchRows`, `NoAlarmForgotten`, `ImplementsAlarmService` | with a receive thread, two overlapping notification threads and callbacks that set and delete alarms, no alarm is mixed up, called twice or called after it was deleted, and none is lost but one that is set while `last_sig` is stamped |
| `timer_ontime` | `OnTime`, `EveryAlarmIsServed` | without overlapping notifications, one hardware timer shared by three rows never shifts a call by a tick, and every alarm is called |
| `sdo_late` | `OneLinePerPeer`, `WatchdogGuardsTransfer`, `OnlyWholeRequestedWrites`, `NoLineLeaks` | timeouts and restarts that overtake frames, a lost frame and refusals: no line without watchdog, no leaked line, no second line for a peer, and without losses no torn write |
| `sdo_shared` | `TransfersEnd` | both roles share one array of lines, no watchdog helps, and every transfer ends |
| `sdo_block` | `FinishedMeansServed`, `NoHoles`, `NothingLeft`, `BlockTransfersEnd` | block and plain transfers follow one another on the same lines; with one lost frame and every timeout that follows, and a server whose watchdog does not close its line, `SDO_FINISHED` tells the truth, to a callback that runs once, and blocks are repeated without a hole |
| `network_watch` | `AlarmsMatchHandles`, `WatchedOrReported`, `NoFalseError` | a master that guards and a slave that consumes heartbeats, under state changes, writes, delays and a crash |
| `network_live` | `SilenceIsNoticed`, `TableGetsRight` | with a lost frame, a crash and restarts, silence is noticed and the table of states gets right |
| `pdo_producer` | `TimersMatchHandles`, `NoPDOIsStuck`, `EventTimerGoesOn`, `InhibitTimeIsKept`, `SyncFollowsDictionary`, `ConsumerFollows` | values, parameters and states that change at any time: timers keep their owners, inhibition is kept and ends, the consumer ends up with the last value |
| `pdo_rtr_sync` | `RequestIsAnsweredByPDO` (violated) | a request is answered with a frame of COB-id 0 |
| `emcy` | `RegisterTellsActiveErrors`, `HistoryIsNewestFirst`, `ConsumerKnowsErrors`, `ReadsBack` | errors that share a bit, a table and a history that fill, clients that write both and a node that stops in between: one story in all four places; what a client wrote it reads back, and a domain write that is too long is refused |
| `dcf` | `StartedMeansConfigured`, `StatusFollowsTransfer`, `NobodyForgotten`, `EveryCheckEnds` | slaves that boot at any time, one with other objects than its DCF, one whose object is short, longer than the check's buffer or longer than a line and that has nothing to save with, one without DCF: who is started is configured, and the chain of callbacks ends whatever is lost, aborted or too long for the check, unless the SDO client drops a transfer without the callback; then exactly the status and the line that failed stay |
| `lss_configure` | `AnswersAreTrue`, `NodeIdsDistinct`, `OneBitRate`, `PortComesBack`, `EverySlaveGetsANodeId` | a scan finds one slave and no other stays in configuration mode, ids are distinct and followed by their COB-ids, the rate is switched everywhere |

**Bounds.** Timer: two or three rows, so that the table fills, rows are reused out of order and one callback may free
the row of another; delays of 0 to a few ticks around one another; two notification threads, the least at which one
overtakes the other; `MaxLag`, `MaxIdle` and `MaxElapsed` bound the time that passes, and half of `TIMEVAL_MAX` is larger than any sum
of them, as 2^63 microseconds is; `UNS32_MAX` is half of `TIMEVAL_MAX` or less, and less than a negative difference taken as unsigned, so that the casts show.
A torn read of `last_sig` is off by -1 in `timer_races`, besides the differences a stamp makes negative; `MaxSample` bounds how large it can be. In `timer_ontime` notification threads do not overlap (`Races` is false): repeated races let
lateness grow without bound, and the bound on time would then stop the clock. SDO: values of 4, 14 and 15 bytes, an
initiate frame, exactly two segments and two and a byte; two or three transfers per connection, the least at which a frame of one can
meet another and a third shows the effect; one lost frame and one stop of a node; two lines, which both roles share in
`sdo_shared`. SDOBlock: values of two segments and of four, the last of one byte, in blocks of three, so that a transfer has a
block that is full, one that is not, and a last segment that is held back; three transfers, of either kind; one lost frame, as with two the
properties fail (section 5). Network: two nodes, one watching the other in each of the two ways; a consumer time of 3, a heartbeat of 1 or 2
and frames up to one tick late, so that a heartbeat can come at the last moment; a guard time of 2 and a life time
factor of 2, so that the counter passes through every value to 0; bytes of 2 bits (`MaxUNS8 = 3`), so that a counter below
0 shows; `NMT_MAX_NODE_ID`, 128 in the code, is one more than the last node, as ids without a node do nothing in the loops; one command, one write, one crash and one loss, of every kind and at every moment. `Longest` stops the ghost clock beyond
the longest of these times. ProcessData: one PDO, since the loops treat PDOs one by one and share only the table, whose rows
the SYNC alarm shares too; the types 0 (acyclic), 2 (a count that can be missed), 252 and 254; inhibit times 0 and 2 and
event times 0 and 1, so that the event timer expires while the PDO is inhibited; one write after any initial choice of
parameters; one lost frame. Emergency: two rows and two elements of history for three errors, so that both fill, rows are
reused and the history shifts; two of the three errors share a bit; a domain buffer of two bytes and a `maxsize` of three. DCF: three slaves, of which two wait for the third; the objects and DCFs in them, and the sizes in `MCSize`, are such that a check can end in each
way but one: a value longer than a line is never to be written, which ends as a refusal does; two client entries, one of them preset; one frame lost or stray, one crash and one time at which the SDO client refuses, at any point. LSS: three slaves, two without id
whose identities differ in the last bit, one with an id, of two numbers of two bits, the least with a bit before the last
and a field after the first; one further sequence of commands, one reset and one frame lost or not sent at every point.

**Fairness.** *UnixTimer*: threads that started run, and `SetAlarm` returns (weak fairness). The clock ticks, callbacks return and the mutex is given
back, strongly fair: time passes whatever the threads do, but the bounds hold it back while they work, and a callback or a holder of the mutex that calls `SetAlarm` again and again
goes on in the end. A notification thread gets the mutex in the end although the receive thread takes it again and again: strong
fairness, since the receive thread blocks in `read()` without the mutex between frames. *SDO*: receive threads dispatch every
frame and alarms are called. *Network* and *ProcessData*: time passes, alarms are called and frames are dispatched, as one weakly fair action,
since a tick waits for the due alarms and for the frames whose time has come; that alarms are called is what
`EveryAlarmIsServed` checks of the driver. *SDOBlock*: as SDO. *DCF*: requests are served or time out, and the master handles
what came of them; the `ENABLED` of this weak fairness is written out, as the state has it. *LSS*: frames are dispatched, alarms
called, and the user of `EverySlaveGetsANodeId` goes on with its plan, as the manual tells it to. Other users, the bus and
failing nodes owe nothing.

## 4. Proofs

### UnixTimer

`UnixTimer_proofs` proves, for every size of the table, every set of users, values and periods and every number of
threads:

| theorem | establishes |
|---|---|
| `TypeCorrect` | `TypeOK`, with the ranges the unsigned arithmetic relies on |
| `RowsWithinLast` | `AboveLastFree`: loops that stop at `last_timer_raw` overlook no used row |
| `RefusalMeansFull` | `RefusedOnlyWhenFull` |
| `TableIsSound` | `NoRowIsLost`, the two together |
| `HandlesNameOwnRows` | `HandlesMatchRows`: nobody deletes another's alarm |
| `TriggersAreCalled` | `NoTriggerLeftBehind`: a row marked by the first pass is visited by the second, whatever callbacks do to the table |
| `WrapNeverMatters` | `WrapIsHarmless`: where `total_sleep_time + overrun` may wrap, no row is armed but those set across a stamp |
| `WakeupNeverLost` | `NoLostWakeup`: while an alarm within reach is armed, an expiry or a notification thread is on its way |
| `OnlyTornReadsLose` | `OutOfReachOnlyAcross`: a row gets a `val` beyond half of `TIMEVAL_MAX` only when a stamp falls between the two reads of the `SetAlarm` that sets it |
| `NobodyIsForgotten` | `NoAlarmForgotten`: the last three and `TriggersAreCalled` together |
| `DriverImplementsService` | `ImplementsAlarmService`: initial states map to initial states, steps to steps or stutters |

**Assumptions.** `TableAssumption` (the table has a row, a callback is not `NoCallback`, `UNS32` is narrower than `TIMEVAL`) and
`UnixTimerAssumption`, of which two parts carry weight. A delay or period plus the largest difference `getElapsedTime` computes stays within
half of `TIMEVAL_MAX`, 292271 years. No period has 0 in its lower 32 bits, as `TimeDispatch` divides by these (`timer.c:147`); periods of other values beyond 2^32
microseconds are covered, with the modulo the cast makes of them. TLC evaluates both in every run of `UnixTimer`.

**Argument.** Type correctness and `AboveLastFree` are inductive as they are. `HandlesMatchRows` is not: a step may use the row
of another user unless rows of different users are known to differ, used rows to have a callback, and the alarm of
`StartTimerLoop` to be set once; `Ownership` is the conjunction. Nor are the wake-ups: that a row within reach is not
forgotten, and that no row meets the wrap but those set across a stamp, follows from `Wakeups`, which adds that `total_sleep_time` is out of reach only
while no other rows are armed (`SleepInReach`), and that otherwise the hardware timer runs or a notification is on its way (`SleepCovered`). A stamp that
makes the difference negative has its own thread, which still waits for the mutex (`StamperWaits`), so that whatever this `SetAlarm` does to
`total_sleep_time` and the hardware timer, the next dispatch sets both right for the rows within reach. The refinement needs
`Ownership` and `KindMatchesState`, that a row's state says whether its alarm is periodic. Each invariant is preserved action by
action; the actions that do nothing but `SetAlarm`, `DelAlarm` or the first pass cite one lemma about each.

### SDO

`SDO_proofs` proves of `SDO`, for every number of nodes, connections, lines, transfers, losses and stops, with refusals and with
answers as late as they like but where the table says otherwise; `SDOBlock_proofs` proves the last five rows of `SDOBlock`:

| theorem | establishes |
|---|---|
| `LinesInvariant` | the strengthening below |
| `PeersHaveOneLine` | `OneLinePerPeer`: `getSDOlineOnUse` never has a choice |
| `LinesComeBack` | `NoLineLeaks`: after the result and `closeSDOtransfer` the user holds no line |
| `TransfersAreWatched` | `WatchdogGuardsTransfer`, where every `SetAlarm` finds a row and every node has client entries |
| `DataIsInvariant` | the second strengthening below, about the frames |
| `WritesAreWhole` | `OnlyWholeRequestedWrites`: a server stores only complete values that were asked for, unless a frame is lost |
| `ServedIsInvariant` | the third strengthening, the dialogue of client and server, where answers are in time and no dictionary refuses |
| `FinishedTransfersAreServed` | `FinishedMeansServed`, in the same conditions: `SDO_FINISHED` means that this transfer was served, and its callback called once, whatever frames are lost and whichever nodes stop |
| `PartiesAgree` | of `SDOBlock`, the fourth strengthening: both ends agree on how far a transfer has come, plain or in blocks |
| `NoLineIsLeft` | of `SDOBlock`, `NothingLeft`: with the result taken and nothing in flight neither end holds a line |
| `OrderedUnlessMisread` | of `SDOBlock`, the fifth strengthening, for any number of lost frames, until `NoRequestIsMisread` fails |
| `NoHolesUnlessMisread`, `ServedUnlessMisread` | in the same conditions `NoHoles`, and `FinishedMeansServed` for transfers in blocks as well |
| `OneLossMisreadsNothing`, `OneLossLeavesNoHoles`, `OneLossServed` | with at most one lost frame `NoRequestIsMisread` holds, and so `NoHoles` and `FinishedMeansServed` do without further condition |

**Assumptions.** `LineAssumption` and `SDOAssumption`, which say what the constants are, and for `TransfersAreWatched` the two
named in it: `sdo.c:143` is wrong without the second. `ServedIsInvariant` and `FinishedTransfersAreServed` need `~LateAnswers` and
`~MayRefuse`: the property fails without either (section 5). `PartiesAgree` and `NoLineIsLeft` need `~LateAnswers` and
`MaxStops = 0`, and say nothing once a frame is lost: a server that hears no more keeps its line until its watchdog rings, which closes
it only where the node has client entries. The last three rows need `~LateAnswers`, `~MayRefuse` and `MaxStops = 0`. In the first two of them
`[]NoRequestIsMisread` stands before the arrow: it is not true of every behaviour (it may fail with two losses, as section 5 tells),
and the theorems say that nothing else can go wrong; those of the last row have `MaxLosses <= 1` in its place. `~LateAnswers` says that watchdogs ring and nodes come back when nothing of their connections is in
flight, and that a user starts a transfer when no answer to an earlier one is. The last part is not implied by the others: a server whose line
outlived two lost frames, or a client that stopped, answers the next initiate request with an abort, and a user who then starts
again gets every answer one transfer late.

**Argument.** `OneLinePerPeer` is not inductive: it speaks of lines `getSDOlineOnUse` can find, and that function skips
`SDO_ABORTED_INTERNAL`. `LineInvariant` speaks of the lines `getSDOlineToClose` finds, of which each peer and role has at most one.
A server opens a line when it has none on use; that it has none at all follows as a server is never in `SDO_ABORTED_INTERNAL`
(`failedSDO` resets it). A client opens one when its user has closed the last one, so the invariant adds that a user who is not in a
transfer holds no line. What a step does to the lines of a node is then one of two things: it leaves, resets or goes on with
lines (`Narrows`), or it opens one for a peer that had none (`Opens`), and either keeps the invariant; each handler is shown to do
one of them. That the search loops find a line if there is one rests on the well-foundedness of the natural numbers.

`OnlyWholeRequestedWrites` speaks of a value in a dictionary, which was put together from segments of a line. `DataInvariant` adds
what joins them, as long as nothing is lost: the frames of a connection come in the order they were sent, so what the server's line
has received, the frames on their way and what the client's line has still to send form one `Stream`. In it, each segment follows
the frame before it (`Follows`: an initiate request of the same size and a requested value, or the segment with the bytes before);
the first segment on its way resumes the server's download, if it has one (`Resumes`); the last frame is followed by what the client
sends next; and a last segment ends its value. Handling a frame takes it off the front of the stream (`StreamTail`): the
server's line resumes with the next one, or is gone and waits for nothing. Sending puts a frame at the end (`StreamAppend`). Everything
that cuts a transfer short, a timeout, an abort, a refusal, a node that stops, only takes a line out of the stream (`StreamFewer`), and
the frames it leaves behind still follow one another up to an initiate request, which makes a server with a line on use fail. The
toggle bit is not used, nor that answers come in time. A lost frame breaks the stream, and with it the property.

`FinishedMeansServed` holds with losses too, but only as frames do not pile up. `ServedInvariant` says that on each connection nothing
is on its way but an abort, or the client has asked (`Asking`: one request, perhaps behind an abort of an earlier transfer), or
the server has answered (`Answering`: one response and no request). A request is the next one of the client's line (`RequestFits`), a
response tells of what the server has done for that line (`ResponseFits`): it has stored the client's value once all is sent,
or its line has received as many bytes as the client has sent, or sent as many as the client will have. Server lines are spoken of
with "every server line of the connection", as a server may have lost its line by a stop or an abort: it then fails the request, and
nobody is told that all is well. A handler is a turn of one side (`ServerTurn`, `ClientTurn`), and each of the ten is shown to say
the next thing or to fail; a lost frame leaves both silent until the watchdog rings. What a handler does is told of a line
without its toggle and its watchdog (`View`), which the argument does not need.

`NothingLeft` joins the client's lines, the server's lines and the frames of a connection. `Talk` says how they stand: nobody waits for
anything, but perhaps a frame is on its way that closes a line the server has left (`Quiet`); the server has given up and said so
(`GivenUp`); the client has asked or the server has answered in a plain transfer or at the start of one in blocks (`Asks`, `Answers`);
or both are at the same transfer in blocks (`BlockDownloads`, `BlockUploads`), where the producer has sent a block of which the
consumer has received the first segments (`Streaming`), or the consumer has acknowledged it (`Acks`), or both know that all is sent
(`Over`). `Streaming` counts: the numbers of the segments on their way follow the consumer's, the last flag is on the last segment of
the value and on no other, and the consumer's offset, the bytes on their way and the producer's offset add up. That is what rules
out, frame by frame, every branch in which a handler fails on its own; those in which a dictionary refuses lead to `GivenUp`.
Without it the invariant would break at the last segment, of which the consumer learns only in the end frame how much is data. Where
no frame is in flight only `Quiet` without a server's line remains (`NobodyTalks`). Two cases are easily overlooked: a client that has
been refused leaves an abort behind which its next request is sent (`Closes`), and the server may still hold a line of a block upload when the
next request arrives, if the frame that ends it is just ahead of that request.

`NoHoles` and `FinishedMeansServed` of blocks are about the values, and are asked with frames lost, where `Talk` says nothing. `Ordered`
says of each connection how a client at a transfer in blocks, the server's lines and the frames between them stand (`InBlocks`): the
request is on its way (`BlockAsks`), both ends are at it (`DownloadGoesOn`, `UploadGoesOn`), the server has confirmed it or given
up, or a frame was lost and both are `Silent` until a watchdog rings. Of a producer and a consumer it tells four positions: nothing
has been sent (`Fresh`); a block is on its way (`Flows`), of which the first frames may be lost, so that the segments the consumer
took are those up to the first gap and all later ones are out of its count; the answer to the block is on its way (`Heard`), with the
number of segments that came, from which the producer goes back exactly as far; and the consumer keeps the last segment until the end
frame tells its size (`HasLast`). In each, what the consumer has is a first part of the producer's value and reaches at least to
`lastblockoffset` (`Covers`), which is `NoHoles`; and the sizes add up when the value is stored or handed over, which is
`FinishedMeansServed`. A segment lost before the last of its block makes the consumer count a gap; the last one of a block or an answer
lost makes both `Silent`. Plain transfers keep the `Dialogue` of `ServedInvariant` with two things added (`InSegments`), which is
how one kind may follow the other on the same lines.

What can spoil it is a server's line left over in a block download (`Stale`), as such a server takes every frame for data. After the
first loss such a line is there, but then the client's watchdog has put an abort ahead of whatever the client sends next; only a second loss,
of that abort, leaves the line without one. `NoRequestIsMisread` excludes that the request is then taken for a segment. So it holds
with one loss, and with more it is the one condition: once the request is not misread, there is no line left over.

### Alarms, and loops

`Network_proofs` and `ProcessData_proofs` begin with what they need of the alarm table: while every handle is of a row of its owner and every used
row is held (`Matched`), `SetAlarm` finds a row that is nobody's, `DelAlarm` frees the owner's, and a call or a tick touches no other
(`SameAlarm`). The functions that visit all entries, PDOs or nodes are recursive functions of the number of rounds.
That such a function is defined, and that what one round preserves holds in the end, are the lemmas `LoopIsDefined` and
`LoopInduction` of the modules that need them, which rest on induction over a set of natural numbers.

**Assumption.** `RowsAssumption`, of `LifeGuard` and of `PDO`: the table has a row for every alarm of the component. `SetAlarm` returns
`TIMER_NONE` when the table is full, and its callers in `lifegrd.c`, `pdo.c` and `sync.c` do not look: without the assumption a
heartbeat would go unwatched and an inhibited PDO stay inhibited.

### Network

`Network_proofs` proves, for any nodes, entries of 0x1016, times, delays, and numbers of commands, writes, losses and crashes:

| theorem | establishes |
|---|---|
| `NodesStayInOrder` | `NetworkInvariant`, the inductive invariant |
| `HandlesAreRight` | `AlarmsMatchHandles` |
| `SilenceIsWatched` | `WatchedOrReported`: whoever is believed in has an alarm running |

**Argument.** A node is down, without alarms and with no protocol on, or it is up, with life guarding on and watching (`InOrder`). Within
`setState` neither holds: life guarding is stopped and started again between the other protocols, so the invariant is followed
through each function of `lifegrd.c` and `states.c` and restored by the last one. `WatchedOrReported` alone is not inductive: the
consumer's handle says something only if it names the consumer's own row, and the table of states is written for ids that
frames, users and requests name.

### PDO and ProcessData

`ProcessData_proofs` proves, for any number of PDOs, any types, times, values and writes:

| theorem | establishes |
|---|---|
| `ProducerStaysInOrder` | `ProducerInvariant`, the inductive invariant |
| `TimersBelongToTheirPDO` | `TimersMatchHandles` |
| `PDOsAreNotStuck` | `NoPDOIsStuck` |
| `EventTimersGoOn` | `EventTimerGoesOn` |
| `InhibitTimesAreKept` | `InhibitTimeIsKept`: what is left of the timer is no less than what is left of the inhibit time |
| `SyncIsGenerated` | `SyncFollowsDictionary` |

**Argument.** The four properties need one another: `transmit_type_parameter` says nothing of the inhibit timer unless it is known
that PDOs are off or initialised, what `last_message` is (a frame of the PDO itself or the COB-id 0 of the event timer), and
which of SYNC, event and inhibit alarms is periodic. `InOrder` states it of one PDO and the ticks since it was sent; each
function of `pdo.c` is shown to restore it for its PDO and to leave the others' timers, flags and messages alone. Beyond `RowsAssumption`
it is assumed that ghost time runs past the longest inhibit time (`ProcessDataAssumption`); that is about the model's clock, not the code.

### Emergency

`Emergency_proofs` proves, for any codes and masks, any sizes of table and history, any data that clients write and any number of
errors, losses and stops:

| theorem | establishes |
|---|---|
| `RowsAndRegisterAgree` | the invariant of table and register |
| `RegisterIsRight` | `RegisterTellsActiveErrors` |
| `DictionaryIsInOrder` | each entry keeps its length, its type and its range |
| `HistoryIsRight` | `HistoryIsNewestFirst` |
| `WhatIsWrittenReadsBack` | `ReadsBack` |
| `ConsumerIsTold`, `ConsumerIsRight` | `ConsumerKnowsErrors`, and the invariant it needs |

**Assumptions.** `EmergencyAssumption`: data written is not empty, and that of a string ends before its first zero byte, which is
where the code ends it (`objacces.c`); data written to a domain fits its buffer, of at most `maxsize` bytes, or is longer than `maxsize`.
What the code does with data in between, overrun the buffer, is undefined, and nothing is claimed of it.

**Argument.** A row in use has the mask of its code, an active row is in use, no code has two rows, and entry 0x1001 is known as a whole: that
clients may not write it is why a client's write leaves it alone, and `RegisterIsReadOnly` shows it of `_setODentry`. The history
is stated of the list of errors since it was cleared, of which 0x1003 holds the first elements; that shifting an array in place is
prefixing a sequence is a lemma. What the consumer knows is stated together with the frames still on the wire:
unless it missed one, the active codes are among those it will have heard of, and none when none is active.

### DCF

`DCF_proofs` proves, for any slaves, DCFs, sizes, objects they lack, client entries, losses, stray frames, crashes and refusals of the SDO client,
with and without `DCF_SAVE_NODE`:

| theorem | establishes |
|---|---|
| `MasterStaysInOrder` | `DCFInvariant`, the inductive invariant |
| `StatusIsRight` | `StatusFollowsTransfer`, which says what stays behind when the client drops a transfer |
| `StartedIsConfigured` | `StartedMeansConfigured`, up to the cast of sizes to `UNS8` |
| `WaitingSlavesAreLookedFor` | `NobodyForgotten`, an action property |

**Assumptions.** `DCFAssumption`, of which two parts carry weight besides the meaning of `Cut` (a value of less than 256 bytes is not cut). A slave is in one preset client entry at most: `GetSDOClientFromNodeId`
finds the first, so another would never be used. A DCF is consistent: entries for the same object have the same
value, since a slave cannot be as both say.

**Argument.** `dcf_status` is `INIT` and no line is on use, or exactly one line is, and it asks for what the entry last fetched says in
the way the status says (`Busy`). With `k` entries fetched, the slave agrees with the first `k - 1`, and with the `k`-th once the answer to its
write is here (`Agrees`, `Progress`). Or a transfer was dropped: the status is not `INIT`, at most the line that failed is on use, and as no callback comes
and boot-ups are refused the master does nothing more. A slave that boots while the master is at it falls back to what it saved; the invariant
speaks of the others. Starting is then safe for those, and what a command on its way will start is configured when it is
sent and stays so, as only the master writes.

### LSS

`LSS_proofs` proves, for any number of slaves with different identities, of any number and width of fields, for any plans
of the user as `IsSession` describes them, and any delays, losses and resets:

| theorem | establishes |
|---|---|
| `CommandIsInvariant` | `CommandInvariant`: one command at a time, whose frames alone are on the bus, and at most one timer of the master |
| `RateIsInvariant`, `BitRatesAgree` | `OneBitRate`, and the invariant it needs |
| `AnswerIsInvariant`, `AnswersAreRight` | `AnswersAreTrue`, and the invariant it needs |
| `IdIsInvariant`, `IdsAreDistinct` | `NodeIdsDistinct`, and the invariant it needs |

**Assumptions.** `LSSAssumption`: identities differ, and `128` and `255` are no bit and no field. `ExtrasAssumption` is about the user,
who is not in `src/`: slaves that may be in configuration mode are sent back to waiting in the end, a scan comes first, a
selection or an identification names each field once, and a change of the bit rate is the whole `BitRatePlan` with nothing
else. Both `OneBitRate` and `AnswersAreTrue` hold of sessions only: a second scan would meet the slave the first has
left in configuration mode, and a field asked for twice with two values leaves the first one in the mask. The theorems about node
ids assume `IdsAreGivenOnce` besides, which says what `lss.c` leaves to the user: ids are distinct at first, those given are new and
distinct, and one is given only after a scan or after a selection by all fields. The latter only where there is one extra session
(`MaxExtras <= 1`): with a second selection two slaves may be in configuration mode, as section 5 says, and get one id. TLC evaluates
it for the values of `lss_configure`.

**Argument.** All rests on `CommandInvariant`: a frame a slave takes is that of the last command. Then the change of the
bit rate is a walk through four stages (`Ahead`, `Entering`, `Choosing`, `Switching`), in which each slave and the master has
the old rate, or the new one and its first delay over; only in the last do they differ, and its end is awaited. Likewise a scan is
`Starting`, `Narrowing`, `Confirming` or over. While it narrows, what has been found of a field is the part the user knows and no
more above it than the bits asked for can hold (`FoundSoFar`), so that a slave that confirms the number agrees with the user
(`AgreesWithKnown`); those that have confirmed a field have the same number in it (`Alike`), those that have not stay
behind for good (`InField`), and with the last field one identity is left. That a slave answers only to the end of what was asked of
it follows from `Masks`: the fields of this session that a mask holds are true of the slave, whatever an earlier session has left
in it besides. `NodeIdsKept` keeps a reset from giving a slave an id in the middle of a scan, and `Sessions` keeps slaves from
being in configuration mode when one begins.

For the node ids, a slave owns the id it has and the one it will take (`OwnIds`), and no two slaves own one together (`IdsOwned`). Only a
slave in configuration mode gets one it did not own, so an id on its way must be new and meant for the only slave in that
mode (`IdsOnTheirWay`). After a scan that is the slave `AnswersAreTrue` speaks of. After a selection, `FirstSelection` says that
what is in a mask has been asked in this session, so a slave selected has all the fields asked for, and two of them
would have one identity. `CobFollows` is the other half of `NodeIdsDistinct` and holds with losses too.

### Only model-checked

The liveness and on-time properties, as liveness under fairness is beyond the prover (`OnTime`, `TransfersEnd`, `BlockTransfersEnd`,
`EveryAlarmIsServed`, `SilenceIsNoticed`, `TableGetsRight`, `ConsumerFollows`, `EveryCheckEnds`, `PortComesBack`,
`EverySlaveGetsANodeId`); `NoFalseError`, which is about the time frames take. What the recursive functions compute as a whole is
proved only as far as each round preserves it.

## 5. Disagreements between code and text

`pdo_rtr_sync` shows one in a run: an RTR_SYNC PDO whose event timer expired answers a request with COB-id 0.

The models contain the others that follow, as the code does them; each is a hazard or a limit of a property, and the properties are
stated for the rest.

* *Alarms.* A notification thread stamps `last_sig` before it has the mutex (`timers_unix.c:38`). If the receive thread sets an
  alarm between, the alarm is counted from the new stamp and then shortened by the time before it: it may run early.
  `OnTime` is checked without such overlaps. If the stamp falls between the two reads of `getElapsedTime` (`timers_unix.c:149`, `timers_unix.c:153`), the
  difference is negative. An alarm set then with a delay shorter than the gap gets a `val` near 2^64 (`timer.c:86`) and is
  never called, whereas one with a longer delay is not harmed; in `TimeDispatch` `overrun` becomes nearly 2^32 microseconds, 71 minutes, by which
  every alarm is called early. `NoAlarmForgotten` shows that only the alarm set across the stamp is lost, and that it takes no other along. A
  period whose lower 32 bits are 0 is a division by 0 (`timer.c:147`).
* *SDO.* Responses are not matched against index and subindex (`sdo.c:1290`), so that an answer overtaken by the timeout
  finishes the next transfer; with a frame lost besides, the toggle bit takes a late segment for the missing one, and the value
  written is torn. `FinishedMeansServed` is checked and proved for answers in time, `OnlyWholeRequestedWrites` while nothing is lost.
* The server confirms the last segment before it stores the value (`sdo.c:896`, and `sdo.c:1702` for blocks) and aborts when it
  cannot: the client's callback runs twice. An error the client itself finds ends in `SDO_ABORTED_INTERNAL` without a callback
  (`sdo.c:427`). A server without client entries never closes a line by timeout (`sdo.c:143`).
* *Blocks.* The response to the end of a block download finishes line 0 if the client has no line on use (`sdo.c:1584`). `SDO_FINISHED`,
  of which `sdo.h:460` says "datas are available", may be false after two lost frames, one of a block download and the abort the client
  sends when it gives up. A server without client entries, whose watchdog does not close the line, is left in the download and
  takes the request of the next one for a segment (`sdo.c:843`). Its answer, with the segment number of the first download, makes the client go
  on from there; the server's line gets the end of the second value behind the beginning of the first, stores both as
  one, and confirms. With `MaxLosses = 2` in `SDO_block.cfg` TLC shows
  the hole in 13 states (`NoHoles`) and, asked for `FinishedMeansServed` alone, the false result in 18.
* *PDO.* A PDO made invalid is still sent by its event timer and on request (`pdo.c:490`, `pdo.c:647`); the event time of a received
  PDO is read from the wrong offset (`pdo.c:297`).
* *NMT and guarding.* `masterRequestNodeState(0)` asks node 0, which does not exist, and forgets every state
  (`nmtMaster.c:101`); a consumer entry whose time is 0 is armed by the first heartbeat (`lifegrd.c:158`).
* *Dictionary.* A write to a domain is compared with 65536, "To be set to the right value" (`objacces.c:199`), and copied to a buffer as long as the
  domain's initial value. `ReadsBack` is about writes that fit the buffer and those that are refused.
* *EMCY.* The callback of 0x1003 takes any count (`emcy.c:66`); only the range test of the generated dictionary stops a client.
* *DCF.* Slaves that wait are not started after a check that found everything right, as the status is still
  `READ_CHECK` then (`dcf.c:130`), nor after a save; the loops before it say they are (`dcf.c:89`). An object longer than
  `buf[4]` is never configured. `sdo.h:326` says that the callback is called at the end of the exchange, on success or abort; it is not when the request is
  refused, which `dcf.c` only logs (`dcf.c:261`, `dcf.c:279`, `dcf.c:298`), nor when the client aborts by itself (`sdo.c:427`): `dcf_status` stays, and no slave
  that boots afterwards is checked or started (`dcf.c:73`). `StatusFollowsTransfer` and `EveryCheckEnds` say so. A value of 256 bytes or more is written with the lower
  8 bits of its size (`dcf.c:255`), and the slave started with what is left of it. A slave that boots again during its check is not checked anew (`dcf.c:73`) and may be started as it is.
* *LSS.* The masks of selection and identification keep the fields of a service that was broken off and mix them with the next
  one's (`lss.c:805`, `lss.c:840`): after any selection, of one slave or of none, the next one may select
  two slaves. `lss_configure` has one such sequence per behaviour, so ids given after two selections are not covered by
  `NodeIdsDistinct`, and its theorem excludes them. A lost answer to bit 0 of a fast scan makes the master take the confirmation for the answer to the
  check (`lss.c:938`, `lss.c:217`), so that two slaves can get one id. With a switch delay of 0 the second period never ends, and a
  slave that is activated again while silent loses the handle of its port (`lss.c:757`).
* *Driver.* `canOpen` does not look whether a port was free (`unix.c:176`), and `WaitReceiveTaskEnd` cancels a thread that may hold
  the mutex (`timers_unix.c:122`).

## 6. Not modelled, and the plan

| part | why not yet |
|---|---|
| port driver: opening, closing, the receive thread's end | next: threads cancelled while they hold the mutex; a small model of its own |
| `startLSS`, `stopLSS` and a slave that stops in the middle of a service | the slaves of `LSS` stay in states with LSS |
| transfers of a user on the client entries DCF uses | `DCF` has the master's own transfers alone |
| bits of PDO mappings, byte order, the CRC of blocks, storing to disk | data; no property tells them apart |
| timers of received PDOs | off by default |
| `objdictgen`, examples, HCS12 headers, `symbols.c` | an off-line editor, samples and the tables it generates for them, other targets, a list of names: together more than half of the lines of the repository, and no behaviour of the stack |

Planned compositions: `SDO`'s watchdogs on the shared table, and SYNC, PDO and life guarding in one node.
