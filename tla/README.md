# s7nodave: models and proofs

s7nodave is device support for EPICS that reads and writes the memory of Siemens S7 PLCs.
This directory holds TLA+ models of it (threads that meet in a record, requests packed into
the PDU of a PLC, bits at odd places, connections that break, addresses and their grammar,
values and their conversions, records and poll groups that come and go), the TLC runs that
check them, and proofs that TLAPS checks.
All paths below are relative to `src/s7nodaveApp/src/` unless they say otherwise.

Contents: 1 inventory, 2 modules, 3 runs, 4 fairness, 5 proofs, 6 where the code and its
documentation differ, 7 what is not modelled, 8 plan.

## 1. Inventory

| Part | State | Operations | Interacts with |
|---|---|---|---|
| **PortDriver** (one per PLC) | `connected`, `connectMutex`, the Snap7 client (socket, negotiated `PDULength`, sequence number) | `asynConnect`, `asynDisconnect`, `asynPlcRead`, `asynPlcReadMultipleItems`, `asynPlcWrite`, `asynPlcWriteBit` | called by asynManager's port thread, by poll groups and by `initRecord`, always under the port lock; calls Snap7; raises exceptions to asynManager |
| **PortDriverReadOptimizer**, **PortDriverReadItem** | trees of read items (included items, blocks), built for one poll | `optimizeWithinArea`, `addReadItem(s)`, `dispatchResults` | used by `asynPlcReadMultipleItems` around the packing loop |
| **PollGroup** | `requesters` under `instanceMutex`, `requests` of the running poll, an epicsTimer, an asynUser; all `pollGroups` under `staticMutex` | `create`, `find`, `startPollGroups`, `process`, `registerRequester`, `unregisterRequester` | reads through the driver under the port lock; hands results to input records |
| **S7nodaveInputRecord** | `newData`, `processCallbackError` under `newDataMutex`; `ioScanPvt`; the record's `pact`, `nsev`, `udf`, value | `processRecord`, `asynProcessCallback`, `processPollResponse`, `preparePollRequest`, `getIoIntInfoRecord` | scan and callback threads (scan lock), port thread, poll group thread |
| **S7nodaveOutputRecord** | `newData`, `processCallbackError`; the record's `pact`, `nsev`, `rpro` | `initRecord`, `processRecord`, `asynProcessCallback` | scan, callback and once threads (scan lock), port thread |
| **S7nodaveRecord** | asynUser, address, buffer sizes | `initRecord`, `initRecordError`, `readFromPlc`, `writeToPlc` | base class of both |
| **S7nodaveRecordAddress**, **PlcAddress** | immutable once parsed | `parseRecordAddress`, `create` from a text or from numbers, `toString` | `initRecord` |
| **Analog-, Long-, Binary-, MultiBinary-, String-, ArraySupport** | the record's `VAL`, `RVAL`, `MASK`, `B0` to `BF`, slope and offset; limits of the device | `readInternal`, `writeInternal`, `getPlcDataType`, buffer sizes | called by the records with the scan lock held |
| **Record classes** (`S7nodave*Record.h`) | none | bind a record type to a support and a direction; some override `initRecord`, `processRecord`, `extractDeviceParameters` | |
| **Entry points** (`s7nodaveAsyn.cc`, `s7nodaveRecordDefinitions.c`, `s7nodaveRegistrar.c`) | tables, the ports and poll groups that exist, whether these are started | `init_record`, `get_ioint_info`, `process` of each table, `s7nodaveConfigureIsoTcpPort`, `s7nodaveConfigurePollGroup`, the hook for states of the IOC | EPICS Base calls them; they create records, ports and poll groups |
| **utilities**, **Optional** | none | trim, split; an optional value | |
| **Snap7** (`../snap7`, bundled) | socket, `cntword`, PDU | ISO transport, S7 telegrams, `ReadMultiVars`, `ReadArea`, ... | PLC |
| **asynManager, EPICS Base** (external) | queue and lock of the port, scan locks, scan lists | `queueRequest`, `lockPort`, `dbProcess`, `scanOnce`, `scanIoRequest`, `callbackRequestProcessCallback` | all of the above |

How a value travels. *Polled input*: the timer thread of a poll group copies `requesters`,
lets every record allocate a buffer (`preparePollRequest`), locks the port, has the driver read
all items at once (optimizer, packing loop, Snap7), unlocks the port, and calls
`processPollResponse` of every record, which puts the buffer into `newData` and requests an
I/O Intr scan; a scan thread then runs `processRecord`. *Asynchronous input*: `processRecord`
finds nothing in `newData`, sets `pact` and queues the record's asynUser; the port thread runs
`asynProcessCallback`, which reads, stores the result in the same `newData` and, if `pact` is
set, queues a process callback; the callback thread runs `processRecord` again. *Output*: the
same with a buffer that travels the other way.

What is hard about it, by part, and what makes the part correct:

- **Records.** Three or four threads work on a record, and only two of them hold the scan
  lock; `pact` is read without it. Results of polls and of asynchronous reads share one slot.
  Correct means: an active record has exactly one thing on its way to complete it; no buffer
  leaks or is freed twice; a younger value is not replaced by an older one; the last put
  reaches the PLC; a failure shows in the severity and a success clears it.
- **Packing loop.** One iterator goes round a list whose elements leave it in three ways,
  with four conditions for sending. Correct means: the request and its reply fit, no request
  is empty or avoidable, each item is asked for once, a failure in the middle leaves no
  unread item looking like a read one, and the loop ends.
- **Optimizer.** Items that are equal, nested, overlapping or near each other. Correct means:
  no item is lost, a block fits a request, and every item gets its own bytes, or none if the PLC
  refuses its block or the request fails.
- **Bits.** Arrays of any number of bits at any bit of a byte, written in up to three
  pieces each of which may fail. Correct means: all bits of the array, and only they, change.
- **Connection.** Snap7 takes the first answer it gets for the answer to its last request.
  Correct means: an operation never gets an earlier operation's answer, asynManager's idea
  of the connection follows the driver's, and a broken connection is replaced.
- **Addresses.** Four nested ways to write an area, two languages, optional parts, and a
  second way to create the same address from numbers. Correct means: what is accepted is an
  address the program can have, an address that is written and read again is the same, and
  layout has no meaning.
- **Conversions.** Eight PLC types, ten element types and sixteen record types, with widths,
  signs, masks, shifts, limits and NaN. Correct means: a value that fits is shown by the input
  record as the output record has written it, an array shows the PLC's numbers uncut, a record
  starts with the value of the PLC, and processing it then changes nothing.
- **Initialization.** Nine ways to fail, each with something to undo, and a `dpvt` that is set
  all the same. Correct means: a failed record is never processed, asynUsers and connections
  are balanced, and a poll group has exactly the records that ask for it, whatever the order of
  commands and however often `SCAN` changes.

`PROJECT.json` lists the hazards one by one, each at its line, with the properties that watch
it, or the reason why none does.

## 2. Modules

| Module | Models | Proofs | TLC |
|---|---|---|---|
| `ReadBatch` | what a poll group expects of `asynPlcReadMultipleItems` (s7nodaveAsyn.h, PollGroup.cc) | | through `MultiItemRead` |
| `MultiItemRead` | `asynPlcReadMultipleItems`, `sendRequestToPlc`, `processPlcReadResult` | `MultiItemReadProofs` | `MCMultiItemRead` |
| `InputRecord` | `S7nodaveInputRecord` and `PollGroup::process` | `InputRecordProofs` | `MCInputRecord` |
| `AsyncWrite` | what a client may expect of a record with asynchronous writes (S7nodaveOutputRecord.cc, dbProcess) | | through `OutputRecord` |
| `OutputRecord` | `S7nodaveOutputRecord` | `OutputRecordProofs` | `MCOutputRecord` |
| `PortConnection` | connection handling of `PortDriver` with the Snap7 client | `PortConnectionProofs` | `MCPortConnection` |
| `ReadOptimizer` | `PortDriverReadOptimizer`, `PortDriverReadItem` | `ReadOptimizerProofs` | `MCReadOptimizer` |
| `BitTransfer` | `S7nodaveRecord::writeToPlc`, `readFromPlc`, realignment in `processPollResponse` | `BitTransferProofs` | `MCBitTransfer` |
| `PlcAddress` | `PlcAddress`: both `create` functions, `toString`, sizes | `DeviceSupportProofs` | `MCAddresses` |
| `RecordTypes` | the tables of the record types, and `getPlcDataType` of every support | | through `RecordLoop`, `DeviceSupport` |
| `RecordAddress` | `S7nodaveRecordAddress`, splitting and trimming in `utilities` | `DeviceSupportProofs` | `MCAddresses` |
| `Addresses` | texts that are parsed and written again in other ways | `DeviceSupportProofs` | `MCAddresses` |
| `RecordValue` | `readInternal`, `writeInternal` and the record's own routines, bytes of the PLC | `RecordProofs` | through `RecordLoop` |
| `RecordLoop` | an output record, the PLC, the input records that read it, and restarts | `RecordProofs` | `MCRecordLoop` |
| `DeviceSupport` | commands, states of the IOC, `initRecord`, `getIoIntInfoRecord`, poll groups and their timers | `DeviceSupportProofs` | `MCDeviceSupport` |

How they fit together: `InputRecord` and `OutputRecord` treat a read or write as one step of
the port thread that may fail. `PortConnection` says what such a step is on the connection,
`MultiItemRead` what it is for the items of a poll group, `ReadOptimizer` what happens to the
items before and after, `BitTransfer` what it does to the bits of one record, and
`RecordValue` what its bytes mean. `ReadBatch` is the contract between a poll group and the
driver: any items may fail, an answer is final, and success means that every item has been
answered. `InputRecord!PollRead` assumes no more than that (any subset of the items may fail),
`MultiItemRead` is checked and proved to implement it. In the same way `AsyncWrite` is what a
client sees of an output record (one write at a time, of the value the record had when it
began, over when its outcome has shown), and `OutputRecord` is checked and proved to implement
it. `DeviceSupport` says how a record comes
to be processed and polled at all; what it calls a usable record is decided by the operators of
`RecordAddress`, `PlcAddress` and `RecordTypes`. `RecordLoop` uses `RecordValue`, and that
`RecordTypes` too, so that the data types are chosen in one place.

Some modules define an operator that nothing uses, directly before a similar one: it is that
operator with a bug a programmer might make (a lost reset, an off-by-one, a dropped
condition). `PROJECT.json` names, for every property of a passing run, the variant it
notices.

### MultiItemRead
The `std::list` of items is the set `items` of item numbers (the list keeps the order of the
numbers), the iterator is `cursor`. One turn of the `while` loop is `NothingToSend` or
`SendSucceeds`/`SendFails` for the block that sends, followed by one of the five branches for
the item at the iterator: `DropEmptyItem`, `AddToPDU`, `ReadAreaSucceeds`/`ReadAreaFails`,
`SkipItem`. `Finish` is the end of `asynPlcReadMultipleItems`. `RequestAccepted` is what
Snap7 itself checks before it sends. Every single item of an accepted request may be refused
by the PLC. Assumption: the PDU has at least 24 bytes, the room for one item header
(`PDUAssumption`); the code does not check this, and PLCs negotiate 240 or more. `WordItems` are
the items in the areas of timers and counters, for which Snap7 replaces the word length of the
request and keeps the amount, so that twice the bytes are asked for (`BytesAsked`, section 6).

### InputRecord
The timer thread is `PollStart`, `PollRead`, then `PollStore` and `PollRequestScan` per record;
`newDataMutex` makes `PollStore` one step, and the I/O Intr request comes after the mutex was
released. The port thread is `PortRead`, `PortStore`, `PortNotify`, with the port lock held
throughout, which is what keeps `PollRead` out (`PortLock`). `processRecord` is two steps:
`Take`, under the mutex, and one of `FinishWithError`, `StartRead`, `StartReadFails`,
`FinishWithoutError`; it may be entered for a client, a scan or the callback. A value is the
number of changes the PLC memory had seen when it was read, so that values have an age.
`live` counts buffers; `polled` and `stale` are history variables. A change of `SCAN`
(`getIoIntInfoRecord`) is atomic and excludes `processRecord`, since both run under the scan
lock. `MaxScans` stands for the ring buffer of the scan task: `PollRequestScan` waits while it
is full.

What does *not* hold, and is therefore not stated: that a record never shows an older value
after a younger one. A poll group that has read its items holds their values while it delivers
them one after the other; a record that is processed for another reason meanwhile shows
the value of its own read, and is given the older one of the poll after that.
`RecordsCatchUp` says that this passes.

### OutputRecord
`StartWrite` (newData, then `pact`) and `QueueWrite`/`QueueWriteFails` are `processRecord` of
an inactive record, `FinishWrite` that of an active one. The port thread takes the buffer
(`PortTake`), writes (`PortWrite`), records the error in `processCallbackError` and the new severity
without the scan lock (`PortReport`), and looks at `pact` (`PortNotify`). Of EPICS
Base, `Put` is `dbPutField`, `Process`/`ProcessActive` are `dbProcess` of an inactive and an
active record (with its `lcnt`/`MAX_LOCK` alarm), `ProcessOnce` serves `scanOnce`, and
`Complete` is what the record support does at the end (`recGblResetAlarms`,
`recGblFwdLink`, `pact`). A failed write may have changed the PLC or not, but does not change
it later. `unreported` and `outcome` are history variables. Alarms for limits and for an
undefined value are left out.

What does *not* hold, and is therefore not stated: the severity set by the port thread need
not survive until the write is completed, because `dbProcess` may report it earlier when it
finds the record active too often. What holds is that it has been reported by then
(`Done` of `AsyncWrite`, and `FailuresReported`). `processCallbackError` is accessed without `newDataMutex` at
S7nodaveOutputRecord.cc:93 and 146, although S7nodaveRecord.h:193-194 asks for it;
`OneContinuation` shows that writer and reader are never active for the same record at once.

### PortConnection
A request or answer is its sequence number, `toPlc` and `fromPlc` are what is under way.
`Send`, `Receive` and their failing forms are one exchange, used by `asynConnect` (two
exchanges: ISO connection, PDU length) and by every transfer (one or more exchanges). `Fail` is the error handling that
all transfers share: ISO send, receive and short-packet errors lead to `asynDisconnect`,
other errors do not. `Disconnect` is its part under `connectMutex`, `RaiseDisconnect` and
`RaiseConnect` the exceptions after it. Sequence numbers wrap at `NumWords`. Nothing in the
model or in Snap7 compares them. PortDriver.cc:127-128 says that the mutex avoids double
connection attempts, which it could only do if `asynConnect` looked at `connected`; since
asynManager only calls it while it believes the port to be disconnected, `ExceptionsAlternate`
holds all the same.

### ReadOptimizer
For one memory area, with items numbered in the order of the sorted list. The first loop
(`TakeToInclude` ... `KeepFirst`) moves an item into the one that includes it (`parent`), the
second (`TakeToJoin` ... `CloseBlock`) joins neighbours into a block (`block`, `blockEnd`).
`ReadList` leaves in every element of the list all of its bytes, an error (the PLC has refused
it), or no bytes with the status of a success (its request has failed as a whole); `Dispatch`
passes results on. A buffer is the address of its first byte, so that "the right bytes" means the
right address.

### BitTransfer
Bits have no values: a bit is the place it comes from (bit *i* of the record, bit *j* of the
PLC as it was, cleared, behind the record, outside of the buffer), so one behaviour
stands for all contents. `WriteFirstBit`, `WriteBytes`/`NoBytes` and `WriteLastBit` are the
three parts of `writeToPlc`; each call may fail, before or after it took effect, and
`WriteBytes` after any byte. `ReadFromPlc` and `PollResponse` are the two ways of
reading.

### PlcAddress, RecordAddress, Addresses
A text is a sequence of tokens. For PLC addresses a token is a letter, a dot or a whole number
(`Digits(n)`, what `atoi` makes of the digits); for device addresses it is a word, white space
or a punctuation mark, and `Spelling` gives the letters of a word that may be a PLC address. An
operator that can fail returns a set with at most one element, as the code returns an
`Optional`. `Parse` is `PlcAddress::create` of a text with its functions for areas, DB numbers,
sizes and positions, `Create` the one of numbers, `Text` is `toString`. `ParseRecordAddress` is
`S7nodaveRecordAddress::create` with the loops that find the parentheses, the parameters, the
address and the data type. `Addresses` takes any text and rewrites it: in its canonical form
(`WritePlcAddress`), with the letters of the other language (`TranslatePlcAddress`), with
white space removed where it is optional (`RemoveSpace`: at the ends, and next to the parentheses
of the parameters and to the commas and the first `=` of each parameter inside them), with
parameters in another order (`RewriteRecordAddress`). None of these steps may change what is
parsed.

### RecordTypes, RecordValue, RecordLoop
`RecordTypes` has, for each of the sixteen device support tables, the class behind it, its
direction, its address field and its functions, and the data type that the class chooses from
the request of the user or the size of the memory. `RecordValue` has the conversions of the six
supports in both directions. Bytes have `ByteBits` bits, and every width of the code (1, 2,
and 4 bytes) is kept in proportion, so that narrowing, sign extension and wrapping happen at
numbers small enough for TLC to try; the proofs are for every `ByteBits` from 2 on, 8 among them. A float is a whole number, NaN, Inf or -Inf.
`RecordLoop` lets an output record start with the PLC's value (`InitRecord`), be put to and
be processed, and be stopped and started again while the PLC may change; at every
moment the properties look at what an input record would show that reads the same memory. What
a configuration, a value put into a record and the contents of the PLC may be is stated in three
assumptions (`OutputsAssumption`, `ValuesAssumption`, `ContentsAssumption`): any record type, data
type, size, number of elements, mask and shift, up to sixteen state values, and values that the
field of the record can have. `Fits` are the values that need not be cut off, `WritesWhereItReads`
the multi-bit records and values for which the code writes to the bits it reads (section 6).

### DeviceSupport
An asynUser is the name of the record or poll group that has created it. `users` are those that
asynManager has created and not freed, `connected` those it has connected to a port, `myAsynUser`
the objects whose pointer is not null, and `step` says which call an object makes next.
`ConfigureIsoTcpPort` and `CreatePollGroup` are the commands of the shell, which may be given
at any time and again. A poll group is created in steps: `CreatePollGroup`, `ConnectDevice`,
`InsertPollGroup` (`findInterface`, and on failure the `disconnect` of PollGroup.cc:133),
and if one of them fails `DestroyPollGroup` (the destructor's `disconnect`) and `FreeAsynUser`. Meanwhile
`staticMutex` is held, for which `find` (called by `getIoIntInfoRecord`) and `startPollGroups` wait.
Records are initialized one after the other: `InitRecord` (`createAsynUser`), `CheckAddress` (every
check before the connection), `ConnectDevice`, `FindInterfaces`, and if one of them fails `InitRecordError`,
which sets `PACT`, asks `isConnected`, which says whether the PLC is connected, disconnects if so,
and in any case goes on to `FreeAsynUser`. Of asynManager it is assumed that `freeAsynUser` disconnects an
asynUser that is still connected to a port, which the code relies on while the PLC is not connected.
`IocInit`, `AfterIocRunning` and `IocPause` are the states of the IOC of which the hook is told.
`Process` and `Complete` are as much of processing as matters here, a request in the queue
of the port. `ScanAdd` and `ScanDelete` are `getIoIntInfoRecord` for a change of `SCAN`,
`Expire` and `Respond` the timer of a poll group, which works on a copy of its requesters.
The history variable `polled` holds the records that were given a response since they were
registered, `early` the poll groups that are older than the IOC's first start: a poll group that is
created later is never started (section 6).

## 3. Runs

| Run | Instance | Distinct states | Shows |
|---|---|---|---|
| `multi_item_read` | 5 items of lengths 0, 1, 7, 14, 50, one of them in the area of timers; PDU 48; 20 items per request | 288,570 | requests fit, and so do replies without timers and counters, no request is avoidable, items move forward, the loop implements `ReadBatch`, every turn of it is progress, and it ends |
| `input_record` | 1 record, 2 changes of the PLC, 1 failure, 2 changes of SCAN, 2 queued scans | 107,814 | one continuation, buffers balance, no older value than polled, at most two stale results, reads complete, records catch up |
| `output_record` | 1 record, 3 puts, 2 failures, MAX_LOCK 1 | 5,313 | one continuation, buffers balance, a quiet record is written, the record implements `AsyncWrite`, the last put arrives |
| `port_connection` | 3 sequence numbers, 2 exchanges, 3 troubles | 563 | no foreign answer, exceptions alternate, the port recovers |
| `read_optimizer` | 4 items, 5 starts, 4 lengths, payload 16 | 661,232 | every item in one place, blocks fit and cannot be joined further, every item gets its bytes, the optimizer ends |
| `bit_transfer_simple` | 1 to 18 bits at a byte boundary or within one byte | 638 | only the bits of the array change, and only to what they should be, all are written, both ways of reading return what was written |
| `addresses` | all texts of up to 4 tokens, `DB12.DB` with up to 4 more, device addresses put together from their parts | 33,262 | what is parsed is valid, and neither canonical form, language, layout nor order of parameters change it |
| `record_loop` | 8 output records, every data type and size, bytes of 2 bits | 421,563 | a written value is shown, a start takes the PLC's value, a restart is bumpless, arrays show the PLC's numbers |
| `device_support` | 2 records with 9 configurations each, 1 port, 1 port of another driver, 2 names of poll groups | 250,129 | poll groups have exactly their usable records, a failure leaves no asynUser behind, failed records are not processed, registered records are polled |
| `read_area_unreported`, `timer_reply`, `bit_write_unaligned` | | | counterexamples, section 6 |

Why the bounds are enough:

- *multi_item_read*: with 34 bytes and three items per request, the lengths give an item that is
  empty, one that never fits, ones that fit three, two and one to a request, and odd ones.
  Both limits (bytes and items) are hit, the list is gone round several times, and every request
  may fail. `CHECK_DEADLOCK FALSE`, because a call that has returned stops.
- *input_record*: two changes are needed for an order of three values, two changes of SCAN to
  leave the poll group and come back, two queued scans for one that is late. Records share only the port
  thread and the poll cycle, so one record already meets every thread; the same
  invariants with two records (1 change, 1 failure, 1 change of SCAN, 1 queued scan: 9.4
  million states, four minutes) hold as well, and the proofs cover any number.
- *output_record*: three puts give a value written, one waiting for it and one that replaces it;
  two failures give a refused request followed by a failing write. Two records (2 puts, 1
  failure, 156,029 states, with the liveness properties) behave the same.
- *port_connection*: two exchanges give an answer that is late for the next one of the same operation or
  of the next operation; three sequence numbers make the number wrap; three troubles allow a
  failure while another one is dealt with.
- *read_optimizer*: starts and lengths are chosen so that two items may be equal, nested,
  overlapping, adjacent, four and five bytes apart, and the block limit of twelve
  bytes is reached and exceeded; four items allow nesting inside a block and two blocks.
- *bit_transfer*: 18 bits span three bytes and a rest at every first bit.
- *addresses*: four tokens are an area, a size and a position with a bit, or any wrong mixture of
  them; the longer texts complete a data block. Numbers are 0, 7, 8 (the first bit there is not)
  and 12. Device addresses have every part present or absent, with white space or without in every place.
  `CHECK_DEADLOCK FALSE`, because a text that nothing rewrites stops.
- *record_loop*: the numbers put are the ends of every width, their neighbours and some between, the
  contents of the PLC are all zeros, all ones, the least numbers and a mixture. `EGUL` and `EGUF`
  are the limits of the device times 1, 2 and 3 with an offset, so that slope and offset come out as whole
  numbers. The limits of the device are those of the data type, or `DLV` and `DHV` within the range of
  a word and beyond that of a byte (0 and 6, as 0 and 27648 are in 16 bits), beyond both ends of several
  types (-3 and 20), and equal (5 and 5), where `ESLO` and `EOFF` are those of the record. Arrays have up to three elements. Multi-bit records have a mask of up to three bits at
  any of three places, and state values in order, or with a duplicate and a gap. Excluded are 32-bit
  integers written as floats, which are rounded.
- *device_support*: the configurations are good records of both directions with and without
  parameters, and one for each kind of failure: a limit without the other, a size that does
  not match, a port of another driver, a data type the record does not have, a link that is not
  `INST_IO`. Two records may share a poll group or not; ports and poll groups are also created
  after the records, and their steps are interleaved with those of the initialization. Of the PLC
  only matters whether it is connected when `initRecordError` asks.

## 4. Fairness

- *multi_item_read*, *read_optimizer*: one thread that runs; the only calls that block are
  Snap7's, and they time out. Weak fairness of the next step.
- *input_record*, *output_record*: every thread runs for ever: weak fairness of its steps. A step that waits
  for a lock others take and release over and over (the port lock, a scan lock) or for its turn
  in the queue of the port has strong fairness: asynManager serves requests of equal priority
  in order, and mutex waiters get their turn. Clients are never obliged to do
  anything. Liveness of the port thread includes that the port is connected again some
  day, since asynManager only serves the queue of a connected port; `Recovers` is the
  property of `PortConnection` behind this.
- *port_connection*: asynManager retries to connect, poll groups keep transferring (weak
  fairness of `StartConnect` and `StartTransfer`), an operation that was begun goes on, and
  the PLC answers. What goes wrong is bounded by `MaxTroubles` and never fair: `Recovers` is a statement
  about the time after the last trouble.
- *device_support*: `iocInit`, once called, initializes every record and starts the IOC, a paused
  IOC is resumed, a poll group whose creation has begun gets finished (weak fairness of
  `InitializeRecord` and `FinishPollGroup`), and the timer queue
  serves each poll group (weak fairness of `Expire` and `Respond` of each). `AfterIocRunning` has
  strong fairness: `startPollGroups` waits for `staticMutex`, which every command releases again, and
  commands come one by one from a shell. Commands, changes
  of `SCAN` and processing are not fair.

## 5. Proofs

All proofs are checked by TLAPS and hold for every value of the constants that
satisfies the module's `ASSUME`: any number of records, items, ports and poll groups, any bounds,
PDU sizes from 24, texts of any length. The state machines follow from an inductive invariant
`IInv`, with one case per action. The properties themselves are mostly not inductive: whether a
record has one continuation, for example, is decided when the port thread reads `pact`, and
that it reads the right value follows from what the record's other threads can be doing at that moment.

- **MultiItemReadProofs** (`PDUAssumption`): type correctness includes that the unsigned
  `bytesLeft` and `itemsLeft` never go below zero. `Accounting` ties the counters to the request
  being built: items in it and slots left add up to the maximum, and the payload is untouched
  exactly when the request is empty. `RunInv` says what the current pass over the list has
  established: as long as it has not sent anything, every item behind the iterator is
  not empty and does not fit, and there is none while the request is empty. Neither `NeverSendEmptyRequest` nor
  `RequestsAreMaximal` is inductive without these two: at the end of the list they turn "nothing
  was sent in this pass" into "no item that is left fits". `Refinement` proves
  `Spec => ImplementsReadBatch`: every action is `Answer`, `Succeed`, `Fail` or a stutter of
  `ReadBatch`. `RepliesFit`, for requests without timers and counters, is about a sum over the items, defined by a recursive function:
  that the function exists, and that an item changes it by its own padded size, is proved by
  induction (`SetOfAllNaturals`: a set of natural numbers whose complement would have a least
  element). The reply then is the payload taken from `bytesLeft`, but for the padding of the last
  item. `LoopMakesProgress` is what makes the loop end for every list: with each step the tuple
  `Remaining` of natural numbers falls in lexicographic order: the part of the call, the work that is left (an
  item in the list counts twice, one in the request once), whether the pass has sent anything,
  and the place in the pass (`PassInv`: the iterator only goes back to the beginning after
  a pass that has sent something).
- **InputRecordProofs** (`RecordAssumption`): `Typed`; `Threads` (what a thread holds at each
  of its steps); `OneContinuation`; `BuffersBalanced`; `Results` (from the moment the port
  thread has stored its result until the processing it asks for, data or an error is waiting,
  because only a processing takes it away and none can start while the record is
  active); `PollOrder` (what the port thread has read and not stored yet is not older than what the poll group has
  stored or holds, since the two read under the port lock); `StaleBound` (a record that has
  left its poll group has been given stale data, has some waiting, or has some under way, at
  most twice in all).
- **OutputRecordProofs** (`RecordAssumption`): `Typed`; `Threads`; `OneContinuation`;
  `DataInPlace` (whoever is going to need a buffer finds one in `newData`);
  `BuffersBalanced`; `AlarmOnItsWay` (a failure no severity has shown is known to the port
  thread or in the new severity of a record that is still active); `AlarmIsFresh` (an alarm on
  its way is one of the last write); `ValueOnItsWay` (an active record that will not be
  processed again has its value on its way to the PLC, or there already). `Refinement` proves
  `Spec => ImplementsAsyncWrite`, with the state of the abstract write read off from where the
  record's one continuation is. Besides `IInv` it needs that all values under way were put
  earlier (`PastValues`), since the abstract write knows younger values only. That a failure has
  shown when the record is inactive (`FailuresReported`) and that a success clears the
  alarm (`SuccessClearsAlarm`) are also theorems of their own.
- **PortConnectionProofs** (`ConnectionAssumption`): `NoLeftovers` (at most one message is
  under way and it is the current one, and there is none outside of an exchange unless the
  connection is about to be closed); `JobFits` (exchanges belong to `asynConnect` before the
  driver is connected and to a transfer after); `ExceptionsAlternate`.
- **ReadOptimizerProofs** (`ItemAssumption`): `EveryItemInOnePlace` needs to know where the
  iterators of the inner loops stand (`IteratorInv`). `ApartInv` says that of two items that have been
  compared neither includes the other, first for those behind the iterator and in the end for
  all. Only because of this the end of the item that is added last is the end of the block
  (`BuildingInv`), from which follow `BlocksFitPayload`, that a block holds its items
  (`BlockInv`), and `ListIsJoined` (`JoinedInv`: blocks that are finished are separate from each other
  and from what comes after). For `EveryItemGetsItsBytes` the nesting must not have
  cycles: an item is only put into a longer one, or into an equal one that comes later
  (`ParentInv`), so among items that wait for a result one is not outranked, and it has no
  parent to wait for.
- **BitTransferProofs** (`TransferAssumption`): the theorems have the hypothesis
  `SimpleTransfer`, that the array starts at a byte boundary or lies within one byte, since for
  others the code is wrong (section 6); they hold for any number of bits. `Progress` says which
  bits each of the three parts of a write has written, and `SimpleSizes` and `AlignedSizes`
  relate the sizes of the code's buffers to the number of bits.
- **DeviceSupportProofs**, PLC addresses (`TextAssumption`: a text is a sequence of tokens): facts about
  functions, with one case for each of their returns. `ParsedTextIsValid` collects what every branch
  has checked. `WrittenAddressIsReadAgain` follows the canonical form token by token through the
  functions that read it, for each kind of area. `TranslationKeepsMeaning` holds because the first
  letter is only looked up in the table of areas. From these follow `ParsedAddressesAreValid` and
  `PlcTextKeepsMeaning` for every behaviour.
- **DeviceSupportProofs**, device addresses (`WordAssumption`: the names of data types are words, and words are
  none of the other tokens; `TextAssumption`: a run of white space is one token): `RecordTextKeepsMeaning`,
  for any number of parameters and any words in their values. The invariant is that the text is
  such a text (`IsRecordText`). *White space*: `SubOfWithout` says what a part of a text becomes
  when an element before it, after it or in it is left out. `AddressAt` reduces the parser to a
  layout: where the port ends, where the parentheses are, what is between and behind them.
  `PartWithoutSpace` says that white space that is optional in the list of parameters belongs to
  one of the parts between the commas, and there to the end of a name or a value, which are
  trimmed; `RemoveSpaceKeeps` goes through the places where it can be in the layout. *Canonical form*: the text of one
  parameter is read as this parameter (`ParameterTextIs`), and behind a comma the next part
  begins without changing those before it, so that the text of n parameters is split into exactly these
  n (`NextList`, by least counterexample); port, PLC address and data type are found before and
  behind the parentheses (`AddressTextParses`).
- **RecordProofs** (`SizeAssumption`, `OutputsAssumption`, `ValuesAssumption`,
  `ContentsAssumption`, see section 2): the four properties of `RecordLoop`, for every record type,
  data type, width of a byte, number of elements, mask, shift, state value, slope and content of the
  memory. Nearly all of it is arithmetic, in layers that only use the one below. *Digits*: the recursive
  definitions of `TwoTo` and `SumOf` have solutions (`SumStep`, `TwoToStep`, by least
  counterexample), a number is the sum of its digits (`SumOfDigits`), and a sum of digits has
  these digits (`DigitsOfSum`), for bits and for bytes alike. *Numbers*: bits of `And`, of
  remainders and of multiples (`BitsOfAnd`, `BitsOfRemainder`), masks, two's complement
  (`SignedRange`), special floats (`FloatIsKept`), and `DecodeEncoded`: decoding inverts encoding
  in the range of the data type, and otherwise keeps the low bits, so that encoding again gives the same
  bytes. *Buffers*: what is left over from a buffer is what is written of it (`Buffers`), parts of
  joined parts, strings up to their end, packed bits. *Records*: for each kind,
  `ShowsWritten` (reading what `rec` has written gives its value, if it fits) and
  `WritesAgain` (a record that has read it writes the same bytes): `FloatRecord`, `AnalogRecord`
  (the raw value of an engineering value of a raw value is this raw value), `LongRecord`,
  `BinaryRecord`, `StringRecord`, `StringsRecord`, `BitsRecord`, `NumbersRecord`,
  `StateIsShown`, `StateIsWrittenAgain`. The inductive invariant `LoopInv` has three parts:
  `LoopTypeOK`, where `IsRecord` says what a record of each kind can have in its fields (an `mbbo`
  record has the unknown state only with an `RVAL` it has read, which its mask lets pass);
  `RecordIsOfPhase` (a record that has started is what initialization makes of the memory as it
  still is, one that has written has an `RVAL` that belongs to its `VAL`, and its bytes are in the
  memory); and `WrittenMemoryIsKept` (if the record has written where it reads, a restart and a
  processing would leave the memory as it is). `RestartIsBumpless` needs the last one because between the
  write and the start nothing of the record survives but the memory.
  `ArraysShowTheNumbersOfThePlc` needs that the sum with a negative weight for the highest bit
  is the two's complement (`MeaningOfBytes`), and that no type an array accepts is wider than
  its elements (`ElementsHoldPlc`).
- **DeviceSupportProofs**, entry points (`DeviceSupportAssumption`: a record is not named like a poll group,
  and the words that are PLC addresses are those whose letters parse): `AsynUsersFollowSteps` says
  where the asynUser of a record or poll group is between any two of its steps: it exists until its
  owner is done, is connected while the interfaces are looked for, and stays if and only if all
  calls have succeeded; `AsynUsersBalanced` is what is left of it when the owner is done, and cannot be
  proved without the steps before. `GroupsKnowTheirRecords` is about one table, but a poll group only forgets a record if
  `getIoIntInfoRecord` still succeeds for it: `ScannedRecordsCanBeScanned` says that it does,
  because nothing a scanned record depends on goes away. `FailedRecordsAreDisabled` says that a
  failed record has `PACT` set, which is why nothing is queued for it.

Only model-checked: all liveness properties (`Termination`, `OptimizerEnds`, `ReadsComplete`,
`RecordsCatchUp`, `LastPutReachesPlc`, `Recovers`, `RegisteredRecordsArePolled`), which involve
fairness and `ENABLED`, out of reach for this prover. Every safety property the runs check is
a theorem, except those of the three runs that find a counterexample.

## 6. Where the code and its documentation differ

Each of these is a run that TLC finishes with a counterexample.

- `read_area_unreported`: an item too big for one PDU is read with `ReadArea` (PortDriver.cc:391), but its
  `bytesRead` stays 0, so `PollGroup` reports it as failed although the call succeeded.
- `bit_write_unaligned`: an array that starts within a byte and does not end in it is not written
  as it is. In the counterexample 9 bits are written from bit 7 on: the whole bytes are taken from the
  beginning of the intermediate buffer, not from `bytesOffset` (S7nodaveRecord.cc:421).
- `timer_reply`: for items in the areas of timers and counters Snap7 replaces the word length of the
  request and keeps the amount (s7_micro_client.cpp:332-341), which the loop gives in bytes
  (PortDriver.cc:378-379), so that the reply has twice the bytes that were taken from `bytesLeft`.
  In the counterexample a request whose items fit "in the PDU" (PortDriver.cc:373) asks for a reply
  that does not.

`writeToPlc` and `readFromPlc` have more of the kind of `bit_write_unaligned`, which come to light
when this first one is corrected: the bits of the last byte are taken from the buffer that was not
shifted (S7nodaveRecord.cc:429), and `startBit + n % 8` instead of `(startBit + n) % 8` of them are
written (:430). In reading, `bytesRead` is compared with the size of the record's buffer and not
with that of the intermediate one (:290), so an array that touches one byte more than it is
long cannot be read asynchronously, and a poll leaves foreign bits in the last byte of such an
array (S7nodaveInputRecord.cc:231). The bit properties hold for all other arrays
(`bit_transfer_simple`): those that start at a byte boundary and those within one byte, which
covers `bi` and `bo`.

Met while modelling, and followed by the models as the code has it:

- A string record of a bit reads eight bits (StringSupport.cc:114), where the
  manual (docs/manual.xml:1233-1235) promises one, so that the string is `TRUE` if a neighbour is set.
- A float that is NaN is one for a `bi` or `bo` record, since `!=` with NaN is always true
  (BinarySupport.cc:70); docs/manual.xml:1128-1130 says that it is zero.
- A record that starts with the PLC's value sets `RVAL`. An `mbboDirect` record with a mask and
  `SHFT`, or an `mbbo` record without state values and with `SHFT`, does not write back what it has
  read: `VAL` is written unshifted (MultiBinarySupport.cc:65-93) where it was read shifted. An `mbbo`
  record without state values also ignores its mask when it writes, so that a value beyond `NOBT`
  changes bits it never reads.
- If two states of an `mbbo` record have the same value, the first one is shown after the second one
  has been written.
- An `aao` record of `FLOAT` or `DOUBLE` refuses integer types of the PLC, which the table of
  the manual lists.
- Any character is accepted as the separator after the number of a DB (PlcAddress.cc:244), and
  `DB1.DBX.3` is an address.
- `s7nodaveConfigurePollGroup` declares three arguments for the shell and uses four
  (s7nodaveRegistrar.c:96 and 104).
- A poll group that is created after the IOC has been started is never polled, not even after
  `iocPause` and `iocRun`, because `startPollGroups` returns at once the second time (PollGroup.cc:62).
- If `PollGroup::process` cannot allocate a read item it gives no response to its requesters,
  although its comment says that this "has to be done always" (PollGroup.cc:257).
- Equal limits leave slope and offset as they were (AnalogSupport.cc:201). Floats, which have
  limits of zero unless the user gives others, are not converted, so that it does not matter for them.

## 7. What is not modelled

- Allocation failures: buffers come from `pasynManager->memMalloc`, which suspends the thread
  and does not return null.
- Telegram contents, fragments of the ISO transport and slices of big transfers in Snap7; an
  answer arrives whole. Malformed telegrams and a negotiated PDU answer of the wrong size
  are excluded: the PLC speaks the protocol. A PDU below 24 bytes, with which the unsigned payload
  size could wrap (PortDriver.cc:284), is excluded by `PDUAssumption`.
- Time: a poll may start at any moment, and a timeout may happen whenever no answer is there. The
  rule for the next interval (PollGroup.cc:84) is therefore left out.
- Concurrent calls of the driver: all callers hold the port lock, so `connectMutex`
  (PortDriver.cc:125) is never contended in the models.
- Optimizer: that areas are kept apart and that timers and counters are not merged. The
  models of the optimizer and of the packing loop are not composed yet; the optimizer's assumes that an element
  of its list is read in full or not at all.
- Floating point: rounding and precision of floats and of the slope. Whole numbers and the special
  values are modelled. Slopes of the conversion are positive whole numbers; a negative one, one that
  is a fraction, and changes of `EGUL` and `EGUF` while the IOC runs are not covered.
- State strings without state values: the states of an `mbbo` record are given by their values.
- `ReadArea` of an item in the areas of timers and counters, where Snap7 takes the amount for
  words, too: `MultiItemRead` says whether an item was read and not what its bytes are.
- Input records: the `SCAN_ALARM` that `dbProcess` raises for a record that it has found active
  `MAX_LOCK` times. If the ring buffer of a scan task is full, EPICS Base drops a request;
  `PollRequestScan` waits instead, so that a dropped request, which a later poll makes up for, is
  not covered.
- The first read of an output record and its `lockPort` in `DeviceSupport`, which do not touch the asynUser;
  the memory of a record's own object, which stays when its initialization fails.
- Numbers in addresses that do not fit an `int`, for which `atoi` is undefined; leading zeros;
  `toUpper` and `toLower`, since tokens are in one case.
- The texts of the shell's arguments, messages and the trace output.
- asynManager and EPICS Base appear as far as the records use them, from how the code calls
  them; their definitions are marked external.

## 8. Plan

Done, in this order: `MultiItemRead` with its abstract specification and proofs; `InputRecord`,
`OutputRecord` and `PortConnection` with proofs; `ReadOptimizer` and `BitTransfer`
model-checked; `PlcAddress`, `RecordTypes`, `RecordAddress` and `Addresses`, with proofs for
PLC addresses; `RecordValue` and `RecordLoop` model-checked; `DeviceSupport` with proofs; proofs
of `ReadOptimizer`, of `BitTransfer`, and of the size of replies and the progress of
`MultiItemRead`; `AsyncWrite`, implemented by `OutputRecord`; proofs of `RecordLoop`; proofs for
device addresses.

Left:

1. `PollRead`: `ReadOptimizer` composed with `MultiItemRead`: what a poll group gets for its
   items, as a refinement of `ReadBatch` with overlapping items, and several areas.
2. The interval rule of the poll groups, with a clock.
