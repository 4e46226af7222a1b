# Verification of the ESP8266 AT-command library

The library lets application threads on a microcontroller drive an ESP8266
Wi-Fi module over a serial line: API calls become requests, requests become AT
commands, and the text that comes back becomes results, callbacks and network
data.  This directory holds TLA+ models of it, the TLC configurations that check
them on small instances, and TLAPS proofs that hold for every instance.  Paths
below are relative to `src/`.

## 1. The system

### Components

| Component | State it keeps | Operations | Hard behaviour |
|---|---|---|---|
| Command core (`src/esp/esp.c`, `src/esp/esp_thread.c`) | `espGlobal.msg`, `mbox_cmd_req`, `mbox_cmd_resp`, `sem_th_sync`, the recursive core mutex and `locked_cnt`, each `espMsg_t` with its `res` and `sem` | `eESPsendReqToMbox` (every API function ends in it), the request thread, the response thread, the receive interrupt | two threads, any number of callers, an interrupt, callbacks that call back in, timeouts racing answers, memory freed by one thread and used by another |
| Line parser (`src/esp/esp_parser.c`) | none of its own; writes `msg->res` and the end-of-response flag | `vESPparseRecvATrespLine` and one helper per command | results that depend on how text is cut into chunks, several ends of response per command |
| Reassembly (`src/esp/esp_recv_buf.c`) | line buffer, previous character, `last_active_ipd` | `eESPprocessPieceRecvResp` | text and network data interleaved in one stream |
| Connection table (`esp_parser.c`, `src/api/esp_conn.c`) | `dev.conns[]`, `active_conns`, `evt_server` | status lines, `CIPSTATUS`, start, close, delete | table against the device's truth, no reservation of a free slot |
| Network data (`esp_parser.c`, `src/esp/esp_pktbuf.c`, `esp_conn.c`) | `espIPD_t`, packet chains, one receive mailbox per netconn | set-up, copy, deliver, grab, delete | ownership of buffers, a blocking put under the core lock |
| Client send (`esp_conn.c`) | position in the data | `eESPconnClientSend` | one piece of several failing |
| Life cycle (`esp.c`, `src/api/esp_misc.c`) | `initialized`, `dev_present`, threads, mailboxes, power state | init, deinit, reset, power on/off | requests in flight when everything is torn down |
| Station (`src/api/esp_sta.c`, `esp_parser.c`) | `dev.sta`: connected, address at hand, the addresses | join, quit, get and copy the address | the end of one answer read as the next one's, status lines nobody reads |
| Helpers (`src/esp/esp_util.c`) | none | number and token parsing | edges of the number range |
| FreeRTOS port (`src/system/esp_system_freertos.c`) | queues, semaphores, mutex | wrappers | full mailbox in an interrupt |
| STM32 driver (`tests/integration/src/hardware/stm32f446/stm32f446_config.c`) | DMA ring | idle and completion interrupts | ring wrap |

They meet in `espGlobal`: API functions hand messages to the request thread
through `mbox_cmd_req`; the interrupt hands buffers to the response thread
through `mbox_cmd_resp`; the response thread parses them into `espGlobal.msg`,
which the request thread sets and clears; `sem_th_sync` tells the request thread
that a response has ended and `msg->sem` tells a blocked caller that its request
is complete.  Both threads hold the core lock except while they wait.  Callbacks
run inside the two threads, with the lock held, and may call the API again
without blocking.

What makes each component correct is listed, hazard by hazard, in `PROJECT.json`.

### Plan

1. `RespLine`, `ATCore`: the command core. Done, its safety properties proved, those
   of the run `punctual` from hypotheses on time and on the device's answers.
2. `CmdQueue`, `ATCoreRefines`: what the core promises its callers, and that it
   does. Done, the refinement proved.
3. `NetData`: network data, packet ownership, receive mailboxes. Done, its safety
   properties proved.
4. `ConnTable`: the connection table against the device's truth. Done, its safety
   properties proved.
5. `ClientSend`: sending in pieces, with a piece that fails or times out between
   two that succeed, and two senders on one connection. Done, its safety
   properties proved.
6. `Lifecycle`: init, deinit, reset, restore, sleep and power: what exists, who
   serves, what the flags say. Done, its safety properties proved.
7. `Station`, over `RespLine`: joining, quitting, and the cached address. Done, its
   safety properties proved.

Every safety property, action property and refinement that a passing run checks is a
theorem (section 4); liveness stays with TLC.  What is left is to free theorems of
hypotheses that TLC finds them not to need: `HearsCorrect` of `OnlyMainResets`.

## 2. Modules

### `RespLine`

`ParseLine(cmd, k, res, end)` is `vESPparseRecvATrespLine`: the set of pairs
(new `msg->res`, new end flag) when a line of kind `k` arrives under command
`cmd`.  A line is one of thirteen kinds, those the code's `strncmp` calls tell
apart; a command stands for all that share a branch of the switch (`GMR` for
every branch that leaves result and flag alone, `CWMODE` for every command
without a branch).  Fields the parser copies out of a line are left out.

### `ATCore`

One variable per piece of state named above, a program counter for each thread,
and one action per stretch of code between two points where another thread may
act.

| Code | Actions |
|---|---|
| `pxESPmsgCreate` and the API function around it | `ApiCall` |
| `eESPsendReqToMbox` | `ApiCheck` (the critical section), `ApiPut` / `ApiPutFails` (the mailbox put), `ApiMark` (the store of `espINPROG` and the test of `is_blocking`), `ApiWake` (the wait, the read of the result and the delete) |
| `eESPthreadATreqIteration` | `ReqGet`, `ReqStart`, `ReqResetDone` (hardware reset), `ReqWake` / `ReqTimeout`, `ReqRelock` (to the event callbacks), `ReqFinish`, `ReqDelete`, `ReqClear` |
| `eESPthreadATrespIteration`, `eESPprocessPieceRecvResp` | `RespGet`, `RespStart`, `RespParse` (a line), `RespPrompt` (`> `), `RespEnd`, `RespSignal`, `RespYield` |
| `eESPappendRecvRespISR` | `DevAnswer`, `DevUnasked` |

A callback is not an action: while the request thread runs event callbacks or
`api_cb`, or the response thread parses, `ApiCall` is enabled for that thread,
which then goes through the same steps as an application thread, lock included
(`LockedCnt`).

Memory is modelled by allocating each member of `Msgs` once and freeing it once:
a use after free is a use of a message in state `"freed"`.  What a program reads
there is arbitrary: `ApiMark` on a freed message goes both ways, and a caller
that takes garbage for "blocking" ends in `"wild"`.

The device is the environment. `Answers` gives the chunks it may send to each
command, `DataAnswers` those it may send to the data of `AT+CIPSEND`, `UrcLines`
what it may say unasked.  Each may arrive at any later time, or never.  Two
switches restrict the environment in the runs that need it: `Punctual` (no answer
after the timeout of its command) and `MarkFirst` (the caller stores `espINPROG`
before the answer).  Both are assumptions about time that the code makes and
does not enforce; `MarkFirst` is not guaranteed by the priorities that
`docs/DEVELOPER.md` asks for. The run `late` shows what happens without the
first. Without the second the caller of a non-blocking request may write
`espINPROG` to a message that is already freed; that happens in the run `any`,
whose properties hold all the same: nobody else's use of the memory is touched.

`plan` and `out` are history variables: what the device was going to answer, and
what the call reported.

The mailbox put in the interrupt drops the chunk when the mailbox is full: the
repository defines no `configASSERT`, so the assertion on the result of the put
is the empty default.

Left out of `ATCore`: allocation failure (`pxESPmsgCreate` does not check its
`malloc`), semaphore creation failure, the `initialized` test, the text of
commands and lines, network data inside a chunk.

### `CmdQueue` and `ATCoreRefines`

`CmdQueue` is the abstract service: `Accept`, `Refuse`, `Serve` in FIFO order,
`Reply` once.  `ATCoreRefines` maps the core to it: the queue is `reqBox`, headed
by the request in the hands of the request thread until its caller has been woken
or called back; a request is refused when its call reports so, accepted from the
mailbox put on, served when it has left the queue.

### `MCATCore`

The small devices used by the runs and the symmetry of threads and messages.

### `ATCorePunctual` and `MCPunctual`

What the run `punctual` assumes of the device, as two definitions for any device,
and the invariants that follow:

- `AnswersEndOnce`: only the last chunk of an answer holds a line that ends the
  response, and no line sent unasked does.  The first excludes `AT+CIPSEND`, whose
  OK before the prompt ends the response (run `send`); the second excludes unasked
  lines together with commands that any line ends (`CWJAP`, `CWMODE`).
- `AnswersEndWithVerdict`: OK or ERROR ends an answer and is nowhere else in it, the
  result is not overwritten by the command's own branch, and an answer fits the
  response mailbox together with the lines sent unasked.

`MCPunctual` is the instance of the run; it assumes both, so that TLC evaluates them
there.

### `NetData`

A server's data path: bytes from the device to an application thread that loops
over `eESPnetconnGrabNextPkt`, as the HTTP server of the integration tests does.

| Code | Actions |
|---|---|
| interrupt, mailbox get, core lock of the response thread | `RespGet`, `RespLock`, `RespUnlock` |
| `eESPprocessPieceRecvResp` | `RespText`, `RespCopy`, and `todo`, what remains of the chunk |
| `eESPparseNetConnStatus` | `RespConnect`, `RespClosed` |
| `eESPparseIPDsetup`, `eESPparseIPDcopyData`, `eESPparseIPDreset` | `RespSetup`, `CopyData`, `RespReset` |
| `vESPconnRunEvtCallback`, `eESPnetconnRecvPkt` | `RespCallback`, `RespPut` (waits for room with the lock held) |
| `eESPnetconnGrabNextPkt`, `eESPconnClientSend`, `vESPpktBufChainDelete` | `AppGrab`, `AppReply`, `AppFree` |
| `eESPnetconnDelete`, `eESPflushMsgBox`: the free, the `memset`, the flush, the end | `AppDelete`, `AppZero`, `AppFlush`, `AppDeleted` |
| the request thread, as far as it needs the lock | `ReqSend`, `ReqComplete`, `ReqReset` |

A chain of packet buffers is named after its packet, so that freeing it twice,
or using it after, is a state of `mem`.  The device cuts its bytes into chunks
anywhere, but sends the payload after its header without a line in between.  The
content of a packet is which packet each byte belongs to.

`Replies` says that the application answers each packet with a blocking send, as the
HTTP server does.  A reset and the deletion of the netconn come at any time, and
neither takes the parser into account: `eESPnetconnDelete` holds no lock at all.
`rpc = "dead"` is the response thread following a NULL or what is freed.  The history
`harm` says what they have come upon, and the properties what holds without it:

- `"packet"`: a connection was zeroed while its packet was being read.
  `last_active_ipd` still points into it, and the next byte of the packet is copied by
  way of its NULL.
- `"callback"`: the netconn was deleted while another connection had its callback,
  which is handed the freed netconn with the next packet.
- `"open"`: the netconn was deleted while its own connection was active.  The `pbuf`
  of that connection is the last packet handed over, not an incomplete one, and it is
  freed twice.
- `"between"`: something was on its way from the device, or a connection was open;
  packets may be left out.

The HTTP server of the integration tests stops its server, after which a connection
that opens has no callback, and deletes its netconn without waiting for those that
are open (`tests/integration/src/demo_apps/http_server.c:193-194`), so that all of
these may come of it.

### `ConnTable`

The table `espGlobal.dev` against `link`, what the device really has open.

| Code | Actions |
|---|---|
| `pxESPgetNxtAvailConn`, `eESPconnClientStart`, `eESPconnClientClose`, `eESPgetConnStatus`, `eESPnetconnDelete` | `AppPick`, `AppStart`, `AppClose`, `AppStatus`, `AppDelete` |
| `eESPstartServer`, `eESPstopServer` | `AppServer`, whose start is `AT+CIPSERVER` and then `AT+CIPSTO` |
| the request thread | `ReqSend`, `ReqDone`, `ReqTimeout` |
| `eESPparseNetConnStatus` | `RespUp`, `RespDown` |
| `eESPparseCIPstatus` | `RespStatus`, `RespEntry` |
| the end of a response, `vESPparseTCPserverEn` | `RespEnd`, `TCPserverEn` |
| the device and remote clients (external) | `DevCommand`, `DevVisit`, `DevHangup` |

Lines reach the parser in order over `wire`, one at a time, after the fact: the
table always lags behind, and an application that picked a free connection may
find it taken.  An application goes on whatever `eESPconnClientStart` returned,
as the MQTT client does; it may then close a connection that is another's, and
the table must still be right.

Switches, all set so that the code works in the passing run; TLC finds a
violation with any of them turned:

- `Ext`: connections are announced with `+LINK_CONN` (after
  `AT+SYSMSG_CUR`), which says who opened them.  With plain `n,CONNECT` a remote
  client that connects during an `AT+CIPSTART` is taken for its answer and given
  the application's callback (`RoleRight`).
- `Late`: a command is carried out after its timeout.  A connection that opens
  under another command takes its callback from that command's body
  (`RoleRight`), and a listing that is cut off by the timeout has already
  forgotten all connections (`TableTracks`).  A server that starts after the
  timeout of its command is unknown to the library (`ServerTracks`).
- `FreeRelease`: `eESPnetconnDelete` zeroes the connection even when a remote
  client has been given it since; the device has it open, the table does not
  (`TableTracks`).

The part the device plays in an entry of `AT+CIPSTATUS` is taken as the code
takes it, nonzero for a client; the same field of `+LINK_CONN` is read the other
way round (`esp_parser.c:40` and `:455`).

### `ClientSend`

One connection and the threads that send on it.  A sender's data is a stream of
numbered bytes, a call sends the next bytes, and a piece is an interval of them.

| Code | Actions |
|---|---|
| `eESPconnClientSend`, its test of the connection | `SendCall` |
| one turn of its loop, with `eESPconnClientSendLimit` and the put of `eESPsendReqToMbox` | `PutPiece`, `PutFails` |
| the return of a blocking piece, the `break`, the end of the loop | `Returned` (in `Complete`), `SendReturn` |
| the request thread under `AT+CIPSEND` | `ReqTake`, `ReqWake`, `ReqTimeout` |
| `eESPcmdStartSendData`, `eESPparseConnSend` | `Data`, `Ends` |
| the device (external), and the table that follows it | `DevAccept`, `DevRefuse`, `DevForgets`, `DevDeliver`, `DevLink`, `RespLink` |

Answers are not late here, and OK and the prompt come in one chunk; `ATCore` has
both cases (`late`, `send`).  `Paced` says that the pause the code makes between
two requests (`ESP_CFG_SEND_PKT_INTERVAL_MS`) is enough for the device; without
it `OkHanded` fails, because `SEND OK` of one piece ends the next.  `OkHanded` also
excepts a call one of whose pieces timed out or found the mailbox full: those
do not end the loop, so that a call may report espOK with a gap in its data.

### `Lifecycle`

An operation (`eESPinit`, `eESPresetWithDelay`, `eESPrestore`, `eESPcloseDevice`,
`eESPpowerOn`, `eESPpowerOff`, sleep, `eESPdeinit`) is a sequence of steps,
`Steps(o)`; a step is a critical section, a call of the low level, or one request.
For a request the sequence says which results let the operation go on and whether
its API function asks `eESPdeviceIsPresent` first.

| Code | Actions |
|---|---|
| `eESPinit`, `eESPinitInterTaskCommu` | `CallInit`, `InitCreate`, `InitDevice`, then the steps of a reset |
| `eESPdeinit` | `CallDeinit`, `DeinitTear`, `DeinitDelete` |
| `eESPresetWithDelay`, `eESPrestore` | `RecvStop`, `RecvStart` and their requests |
| `eESPcloseDevice`, `eESPpowerOff`, `eESPpowerOn` | `CloseTest`, `CloseAbsent`, `PowerOff`, `PowerSupply`, `PowerStore` |
| `eESPsendReqToMbox` | `ReqCheck`, `ReqPut` |
| the two threads | `ReqTake`, `ReqResetPin`, `ReqTimeout`, `RespParse` |
| the device (external) | `DevAnswer` |

`crashed` is a lock, put or wait on an object that does not exist.  The way of a
request is that of `ATCore`, shortened: one is served at a time and answered in
time or not at all.

Switches and bounds, set so that the code works in the passing run.  With each of
them turned, TLC finds the property in brackets violated:

- `HwReset` FALSE: without the reset pin `AT+RST` is sent while reception is
  stopped, times out, and `eESPinit` fails every time (nothing is ever running;
  the tests' configuration sets the pin, `tests/integration/esp_config.h:12`).
- `RestoreOnInit` TRUE: `AT+RESTORE` is sent before reception is started, and has
  no branch in the parser, so that its best result is `espSKIP`: `eESPinit` fails
  every time. For the same reason `eESPrestore` never gets to its reset.
- `Retry` TRUE: after an `eESPinit` that failed, a second one makes a second pair of
  threads (`Served`).
- `BusyDeinit` TRUE: a caller whose request is dropped is never woken (`OpReturns`).
- `ReqCap` less than the number of applications and 3 (`Roomy`): with the mailbox full
  of their requests, the request of a reset gets `espERRMEM` after reception has been
  stopped (`Hears`).  The bound is tight, with 1 application and 3 slots or 2 and 4
  TLC finds it; the default of 16 slots (`esp_config_default.h:98`) is enough for 13
  threads.
- `AppOps` with a reset, a power-off or a close: the application undoes what Main's
  `eESPinit` or reset is about to report (`OkMeansOnline`); `OnlyMainResets` and
  `OnlyMainSwitchesOff` exclude it.
- `"mutex"` in `MayFail`: nobody tests the mutex; the next lock has none
  (`NoDeadObject`).
- `"start"` in `MayFail`: the same as a full mailbox (`Hears`).

### `Station` and `MCStation`

`eESPstaJoin`, `eESPstaQuit`, `eESPstaCopyIP` and a reset by pin, over `RespLine`'s
`ParseLine`: what matters here are the lines of an answer, where the chunks that
carry them end, and which request is there when the rest arrives.

| Code | Actions |
|---|---|
| `eESPstaJoin`, `eESPstaQuit`, a reset | `Call` |
| `eESPstaCopyIP`, line by line: the test of `has_ip`, `eESPstaGetIP`, the store, the copies, the return | `CopyTest`, `CopyAsk`, `CopyStore`, `CopyField`, `CopyReturn` |
| the request thread | `ReqTake`, `ReqReset`, `ReqWake`, `ReqTimeout` |
| `vESPparseRecvATrespLine`, `vESPparseJoinStatus`, `vESPparseAPstaIP` | `RespParse` with `StaAfter` |
| the device (external) | `Answers`, `DevTake`, `DevSend`, `DevRoam` |

`net` is the address the device has, a number that grows; `seen` collects what it
was during a call.  The gateway is left out: it is read, written and copied between
address and mask.  `eESPstaCopyIP` holds no lock, so that between any two of its steps
the response thread may parse a line and another thread may do anything; the four bytes
of a field are copied as one.
`vESPparseAPstaIP` copies from offset 12 of the line buffer without looking how
long the line is, so that a short line under `AT+CIPSTA_CUR?` copies what an
earlier line has left: `behind`.  `astray` says that a line has met another
request than its own, or a status one that does not read it.  `raced` says that
`has_ip` was about to be stored when a status line or a reset cleared it, so that the
store marks an address of before as at hand.  `lost` collects, for each copy, whether
one of these was so at its store, or the address was written under its hands (`"torn"`).
Lines may be late.
A semaphore given as its request times out is left to `ATCore`.

### The proofs

`ATCoreProofs` (over `ATCoreRefines`), `ATCoreTruth` (over `ATCorePunctual`),
`ClientSendProofs`, `NetDataProofs`, `ConnTableProofs`, `LifecycleProofs`,
`LifecycleOnline`, `StationProofs`: section 4.

## 3. Runs

| Run | Checks | Instance |
|---|---|---|
| `any` | `TypeOK`, `ParserLive`, `CallerLive`, `MailboxLive`, `NoSelfBlock`, `ResultFrozen`, `ImplementsQueue` | 2 threads, 2 messages, plain, prompted and reset commands, a two-slot mailbox, any timing |
| `punctual` | `FreshToken`, `OwnAnswer`, `TruthfulResult` | 2 threads, 3 messages, plain, list and reset commands, one unasked line, `Punctual`, `MarkFirst` and answers that end once, with a verdict |
| `live` | `CallReturns`, `AllFreed`, `ServesQueue` | 1 thread and callbacks, 2 messages, any timing, fairness |
| `netdata` | `TypeOK`, `PacketsWhole`, `InOrder`, `NoDoubleFree`, `NoCrash`, `PacketsFreed` | 2 connections, 3 packets of 2 bytes over a two-slot mailbox, replies, a reset and the deletion at any time, fairness |
| `table` | `TypeOK`, `TableTracks`, `RoleRight`, `ServerTracks` | 3 connections, 2 applications, 3 remote clients |
| `pieces` | `TypeOK`, `InOrder`, `OkHanded`, `StopsAtError`, `SendEnds` | 2 senders of 3 bytes each in pieces of up to 2, a one-slot mailbox, blocking or not, fairness |
| `lifecycle` | `TypeOK`, `NoDeadObject`, `Served`, `Hears`, `PresentTrue`, `OkMeansOnline`, `OpReturns` | Main with every operation, one application, two inits, a device that may refuse or stay silent, fairness |
| `station` | `TypeOK`, `JoinOk`, `QuitOk`, `CopiedIP`, `TracksDevice` | 2 threads with every operation, 2 addresses, every answer cut and delayed in every way |

What they show: whatever the timing, no thread of the core uses a message it may
not use, requests are served in order and each caller gets one reply, and every
call returns.  The result it returns is right when answers are in time
(`punctual`) and may be another command's when they are not (`late`).  Network
data reaches the application whole and in order, whatever resets and the deletion of the
netconn leave out of it, and is freed once unless the netconn is deleted while its own
connection is open; the connection table is right as long as commands are not carried
out late.  What several
threads send arrives in each one's order without repetition, a refused piece stops
its call, and espOK means that the data was handed over.  Init and deinit leave
neither a dead object in use nor a second thread, whatever fails on the way, and a
reset that gives up leaves reception on.  A join or quit that reports espOK has
happened, and what `eESPstaCopyIP` reports is one address that the device had during
the call, but for three cases: a line met another request than its own or none that
reads it, `has_ip` was stored over what a status line or a reset had cleared, or the
address was written while it was being copied.

Bounds.  Two threads and two messages give every pair of a caller and a served request.
Three messages fill a two-slot mailbox while one is being served or put, hence refusals
and order, and let a token left by the first request meet the second while the third
waits.  The response mailbox has one slot, so that chunks are lost, or three in
`punctual` and `send`, where a lost chunk would only hide the question.  `MaxUrc` bounds
the lines sent unasked: none in the runs whose properties do not depend on what a line
says, one in `punctual`.  Two connections and packets of two bytes (`Lens`, `MaxLen`)
give every cut of a chunk (before, in and after a packet, and a header behind a
payload); the invariants of `netdata` hold with packets of one and two bytes mixed as
well, over 5.7 million states instead of 1.1 million, on which `PacketsFreed` would take
longer than a run should.  With `RecvQLen` slots, `RecvQLen + 1` packets are the most
that can arrive while the application waits without the mailbox stopping the response
thread, and one more is the run `stall`.  Three connections leave one free when two
applications and a visitor meet. `MaxBytes` of 3 in pieces of 2 gives two pieces, a
whole one and a rest, of which the first or the second may fail; the one-slot mailbox is
full whenever both senders put. `MaxInit` of 2 is a start, a stop and a start again.
`ReqCap` of 4 in `lifecycle` is the least that holds all that Main and one application
can queue, as the default of 16 slots does for 13; a full mailbox is among its switches.
`MaxNet` of 2 tells an address from the one before; `MaxLines` bounds the busy lines a
device puts before an answer it still owes, not the answer. `MaxCmds` is one: the
request thread sends a command at a time.

Fairness of `ATCore` (`FairSpec`): the scheduler runs a thread that can run, so
each of the two system threads and each call is weakly fair.  Every wait in the
code except that of a blocked caller, of a mailbox get, and of the lock has a time
limit, so `ReqTimeout` and `ApiPutFails` are part of the fair steps.  Weak fairness
is enough for the lock because the number of chunks the device sends is finite in
the model.  In `NetData` the response and application threads are weakly fair; the
request thread is strongly fair, because a FreeRTOS mutex is handed to its waiter
of highest priority and the device may send lines for ever.  In `ClientSend` the
senders, the request thread, and the device's handling of a command it has are
weakly fair; the last only because `Paced` makes the request thread wait for it. In
`Lifecycle` Main, the applications and the threads are weakly fair.  Nothing else
is assumed of the device.

Deadlock is checked in all runs but those of `NetData`, where everything ends when the
response thread has followed a NULL or the netconn is deleted with every packet sent, and
`lifecycle`, where it rightly does after an `eESPinit` that failed or the last
`eESPdeinit`.

Disagreements between the code and what its comments, headers and tests say, each
a run that TLC must find violated:

| Run | Shows |
|---|---|
| `late` | A late answer leaves a token in `sem_th_sync`; the next command is completed by it at once. |
| `send` | `AT+CIPSEND` whose OK and prompt come in two chunks reports OK and sends nothing. |
| `stall` | The response thread waits for room in a receive mailbox with the core lock, the application that would make room waits for a command that needs it. |
| `copyip` | A join leaves the address of the network before marked as at hand; `eESPstaCopyIP` then reports one the device does not have. |

Read in the code while modelling it, without a run of their own; the first three are
in the model, and a property excepts what they do:

- `eESPnetconnDelete` is to "clean up all" of the "incomplete IPD data leaving pointed
  by espConn_t" (`esp_conn.c:139-140`), but `conn->pbuf` is stored only when a packet is
  complete (`esp_parser.c:592`) and is not cleared when it is handed over.  What it
  frees (`:142`) is the last packet delivered, which is in the mailbox, where `:146`
  frees it again, or was freed by the application.  `NoDoubleFree` excepts a deletion
  while the connection is open (`"open" \in harm`).
- An incomplete packet is known to `last_active_ipd` only.  When `:144`, or a reset,
  zeroes its connection, `eESPparseIPDcopyData` takes the rest with a `rem_len` of 0 and
  writes by way of `ipdp->conn`, which is NULL (`esp_recv_buf.c:76-90`).  `NoCrash`
  excepts it (`"packet" \in harm`).
- `eESPstaCopyIP` stores `has_ip` (`esp_sta.c:143`) some time after it has tested it, or
  fetched the address, and without the core lock.  When the `WIFI CONNECTED` of another
  thread's join clears it in between, the old address is marked as at hand again,
  although it "must be update for each time ESP device connected to some AP"
  (`esp_parser.c:194`), and reported until the next join, with every line read by its own
  request.  `CopiedIP` and `TracksDevice` except it (`raced`).
- The caller stores `espINPROG` after the put; when the request completes first, a
  blocking call returns `espINPROG`, and a non-blocking one writes to freed memory
  (`esp.c:262`). `MarkFirst` excludes it.
- A command without a branch in the parser (`ATE0`, `RESTORE`, `CIPMODE`,
  `CIPAP_SET`) reports `espSKIP` although it was carried out (`esp_parser.c:424`).
- The OK behind a confirmed join is parsed as another line of the join and turns
  its result into `espERR` when it comes in the same chunk; in the same way the
  reason of a failed join (`+CWJAP_CUR:n`) is overwritten, and a join over a join
  has an error at `WIFI DISCONNECT` (`esp_parser.c:198-230`, `:370`).
- `AT+CWQAP` that is answered OK before `WIFI DISCONNECT` reports `espERR`
  (`esp_parser.c:232-240`).
- `WIFI DISCONNECT` that comes unasked is read by nobody: `is_connected` and
  `has_ip` stay set.
- A line nobody asked for is taken for an access point by a list command, even
  after the OK that ended the list; `TruthfulResult` excepts that case.
- `eESPconnClientStart` stores the address of its own parameter in a request
  that, without blocking, outlives the call (`esp_conn.c:259`); the pointer to the
  data of `eESPconnClientSend` does the same, and its test of the connection is made
  once for all pieces.
- `eESPping` uses its message after `eESPsendReqToMbox` may have freed it
  (`esp_ping.c:24`).
- The `api_cb` of a message is called for non-blocking ones only
  (`esp_thread.c:36-44`), so that of a blocking reset or restore never runs;
  `docs/DEVELOPER.md:42` makes no such difference.
- `eESPdeinit` leaks the messages that are queued and leaves `initialized` set;
  called after an `eESPinit` that made no thread it deletes its caller.
- The command buffer has 64 bytes: an access point's name and password of more than
  44 characters together, three addresses of 15 characters, or a host name of more
  than 34 do not fit (`esp_cmd.c`).
- An access point is written to the list before the room in it is tested
  (`esp_parser.c:89`).
- `iESPparseFirstNumFromStr` reads the byte before a text that begins with its number
  (`esp_util.c:23`); `uiESPcvtNumToStr` computes the digits of a negative number in
  an unsigned byte (`:62`).

## 4. Proofs

Every theorem holds for any sets of threads, messages, connections or packets and any
mailbox sizes.  What the constants of a module are assumed to be is the `ASSUME` at its
head; anything else a theorem needs stands in its statement and is named below.

### The command core

For any device and any timing:

- `TypeCorrect` (`ATCoreProofs`): `TypeOK`. Inductive together with `Pairing`
  (a thread is in a call exactly when the call has a message; `espGlobal.msg` is
  the message the request thread serves), which is needed to know that the
  functions are applied to messages and not to `NoMsg`.
- `InvCorrect` (`ATCoreProofs`): the inductive invariant `IInv`, i.e. `TypeOK`,
  `Pairing`, and
  - `LockInv`: who holds the core lock is a function of the program counters;
  - `CallInv`: two calls never share a message, and a call in a callback does not
    block;
  - `MemInv`: who may still use a message keeps it alive: its caller before the
    mailbox put, the request thread until it completes the request, a blocked
    caller to the end.
- From it: `ParserLiveCorrect` (the response thread parses into a live message:
  it holds the lock, so the request thread is not between completing a request
  and clearing `espGlobal.msg`), `MailboxLiveCorrect`, `NoSelfBlockCorrect`,
  `CallerLiveCorrect`, and the action property `ResultFrozenCorrect`.
- `QueueRefined` (`ATCoreProofs`): `ImplementsQueue`, the core is the FIFO of `CmdQueue`.
  Each action maps to a step of it or to a stutter.  Besides `IInv` this needs that
  nothing but a refusal is reported as one (`ResInv`) and that nothing is reported on a
  request that its caller or the request thread has still to report on (`OutInv`),
  both in `ReportsCorrect`; and that memory nobody has initialised does not happen to
  hold a refusal (`RefusalAssumption`): a caller that reads one from a message it was
  given would be told of a refusal that did not occur.

`MemInv` is what the safety properties lack to be inductive: that a message in
the mailbox is alive depends on the caller that put it not being able to free it,
that depends on its semaphore not being given, and that on the request thread not
having it.

For any device whose answers are in time (`ATCoreTruth`):

- `FreshTokenCorrect` and `OwnAnswerCorrect`, from `Punctual` and `AnswersEndOnce`, by
  `PunctualInv`: where a request is tells what of its answer may still be on its way,
  from the device through the response mailbox and the chunk to `sem_th_sync`; the end
  of the answer is the last of it; and a token is that of the request being
  waited for, with nothing of its answer behind it.
- `TruthfulResultCorrect`, from these, `MarkFirst` and `AnswersEndWithVerdict`, by
  `TruthInv`: what the lines still on their way will say together with what
  `msg->res` says already is the device's verdict, and no store of `espINPROG` is
  left to overwrite it.

### Client send

- `TypeCorrect`, `SendsInOrder` (`ClientSendProofs`) from the inductive `IInv`.
  `InOrder` speaks of what has arrived; to be inductive it needs that every piece
  on its way is behind what has arrived and ahead of what follows it, from the
  mailbox through the request thread to the device (`Ordered`), and that no piece
  reaches beyond what its sender has cut so far (`Bounded`), so that a new piece is
  behind all of them. `Reach` never falls, whichever way a piece ends.
- `StopsAtErrorCorrect` (`ClientSendProofs`) from `ErrInv`: a blocking piece is the
  last of its sender (`Awaited`), hence what is behind it is neither given nor queued
  when it is refused, and every later piece starts after that (`Behind`).
- `OkHandedCorrect`, under `Paced`, from `OkInv`: a request is answered with OK only
  when its bytes have been handed over, and the bytes of a call's earlier pieces were
  (`Handed`).

### Network data

`NetDataProofs`, for any number of connections and packets of any length, with no
hypothesis: `NetTypeCorrect`, `NoCrashCorrect`, `InOrderCorrect`, `PacketsWholeCorrect`
and `NoDoubleFreeCorrect`.  `NetCorrect` has the three inductive invariants they come
from.  Two hold whatever resets and the deletion do:

- `PointerInv` says who has which packet, and in what order.  `HandInv`, what the
  response thread has in hand is the packet of the IPD object in use; `HarmInv`, that
  object is still whole, and the netconn of a callback still there, for want of harm;
  `OrderInv`, packets taken, then those in the mailbox, then the one in hand, then one
  whose header is still in the chunk are each earlier than the next; `HeldInv` and
  `PbufInv`, what the application holds is one it has taken, and what the netconn's
  connection points to is earlier than what is still to be put; `OwnSafe`, nothing of
  this is freed as long as the netconn is not deleted over its open connection.  For
  that the `pbuf` of a connection that is not active must be a packet nobody has:
  a CLOSED line zeroes it with the connection, and a packet whose connection was
  zeroed between its header and its last byte is never put.
- `ByteInv` says which bytes a chain holds.  `AheadInv` and `GatherInv`: behind a header
  in the chunk, and behind the bytes already gathered, comes the rest of the packet,
  then what the device has still to send of it.  A reset makes the device forget that
  rest, and leaves no connection with a callback: a packet cut short is gathered from
  whatever comes next, but is put in no mailbox.  Hence all that is put is whole.

`NetInv` holds until one of them comes in between (`"between"`), and gives what needs
the device's side: that no packet is left out.

- `ChunkInv`: what is left of the chunk in the response thread's hands begins with
  bytes awaited of the packet in progress, then comes at most one line or header, and
  behind a header bytes of its packet; the device has still to send the rest of it;
- `ConnInv`: a connection that is not active is zero, all but that of the packet in
  progress have an unused IPD object, and the flags are those of the device but for the
  one line not parsed yet;
- `CurInv`: the packet in progress, its connection, and where the response thread is
  with it;
- `QueueInv`: the packets in the mailbox, in order, are those between the one the
  application has taken last and the one that is arriving;
- `ChainInv`: so much of a packet has come as is in its chain, and the chains in the
  mailbox, in the application's hands and about to be put are live.

### Connection table

`ConnTableProofs`, for any number of connections, applications and remote clients:

- `ConnTypeCorrect`, with no hypothesis.
- `ConnCorrect`, without `Late`: `OrderInv`, `ServeInv` and `WireInv` below.
- `ServerTracksCorrect`, without `Late`.
- `TableTracksCorrect`, without `Late` and `FreeRelease`.
- `RoleRightCorrect`, with `Ext` and without `Late`; `FreeRelease` may be on.

These hypotheses are those of section 2, each needed: with `Late` TLC finds all three
properties violated, with `FreeRelease` `TableTracks` and without `Ext` `RoleRight`.

The properties speak of the moments at which every line has been parsed.  What makes
them inductive is what the lines still on `wire` will do to the table:

- `OrderInv`: the device has at most the command in progress, an answer on the wire is
  that of this command and has one end (`CmdInv`); a line of a listing, or the
  announcement of an application's connection, has that end still behind it
  (`AnswerInv`).  This is what `Late` breaks.
- `ServeInv`: `evt_server` differs from what the device does only while the OK of
  `AT+CIPSERVER` is on the wire, and the announcement of a remote client meets
  `evt_server` set: the OK is in front of it, that of the stop behind it.
- `WireInv`: for each connection and each thing that lines set (flag, part, bit), the
  last line on the wire that sets it sets it as the device has it.  A connection is
  opened and closed many times before a line is parsed; only the last counts.
- `TableInv`, `RoleInv`: what no line on the wire will set is in the table as the
  device has it.  A listing clears all bits with its first line and sets them again one
  by one, hence `BitLines` counts that first line as one for every connection.

### Life cycle

For any set of applications, device and failures of creation but those named:

- `LifeTypeCorrect`, `NoDeadObjectCorrect`, `ServedCorrect` (`LifecycleProofs`),
  without `Retry`, `BusyDeinit` and a mutex that fails to be created, from the inductive
  `LifeInv`.  Objects and threads exist as far as Main's operation has got
  (`MainInv` in `PhaseInv`), nobody else is in an operation unless the library runs
  (`PhaseInv`), a request is queued or served exactly when a caller waits for it or
  does not wait (`ReqInv`), and a caller is at a step that its operation has
  (`CallInv`): hence a step that uses an object finds it.
- `PresentTrueCorrect`, with no hypothesis: `dev_present` is set by an answer in hand,
  which is that of a device that has told its version (`PresentInv`).
- `OkMeansOnlineCorrect` (`LifecycleOnline`), moreover with nobody but Main resetting
  and switching off: behind the fifth step of a reset the device is known, and nothing
  but a reset or a power-off forgets it (`OnlineInv`).
- `HearsCorrect` (`LifecycleOnline`), moreover with `HwReset`, threads that can be
  started and `Roomy`: the steps between the stop and the start of reception cannot
  fail, hence a reset that gives up does so with reception on (`HearInv`).  None of
  them is refused by a full mailbox: its blocking requests are each another
  application's, Main itself waits for none of them, and the two that a reset does not
  wait for are two different commands, gone before the request that Main waits for
  behind them is (`TellInv`).  That makes applications and two, whence the three of
  `Roomy`.

All these hypotheses hold in the run `lifecycle`, and each case they exclude is one for
which TLC finds a violation (section 2), with one exception: `HearsCorrect` needs
`OnlyMainResets` for its count of requests only.  With more room in the mailbox TLC
finds `Hears` to hold when an application resets too; that is not proved.

### Station

`StationProofs`, for any threads, addresses and device, answers that are late or cut
included, with no hypothesis: `StationTypeCorrect`, `JoinOkCorrect`, `QuitOkCorrect`,
`CopiedIPCorrect` and `TracksDeviceCorrect`, from the inductive `StationInv`
(`StationCorrect`):

- `CallTypes`, `ReqTypes`, `DevTypes`: the types; `CallInv`: a thread waits exactly while
  its request is queued or served, and no two requests are of one thread;
- `WorkInv`: what the device has still to send tells of one change at most and of an
  address only as it is (`Tells`), and it belongs to the command in progress or to
  nobody (`Owned`);
- `SeenInv`: a copy or a quit under way has seen the present address, and a join or quit
  about to report espOK has seen what it reports;
- `CopyInv`: while the OK of a copy's own answer is on its way, each field of the address
  is copied already or in a line in front of that OK, and when the OK is all that is left
  the line buffer holds nothing older (`Copying`);
- `KnowsInv`: unless a line went astray, `is_connected` says whether the device has an
  address, and one that is at hand, or about to be marked so, is the present one in
  every field, unless the store of `has_ip` was raced;
- `WholeInv`: what a copy has and what it has still to copy are together one address
  that the call has seen, unless that copy is `lost`.

`CopiedIP` is where cut answers matter: the address comes in lines of its own and
`has_ip` is set by the OK behind them, so that the proof has to follow each field from
the device to the cache with the answer cut at any line, and to show that an OK that
was another's has set `astray`.

### What is only model-checked

Liveness (`CallReturns`, `AllFreed`, `ServesQueue`, `PacketsFreed`, `SendEnds`,
`OpReturns`), which is out of the prover's reach.

## 5. Not modelled

Allocation failure (`malloc` is not tested, `esp.c:25`); the text of commands, the
number and text helpers and the fields copied out of lines, which are pure functions
of their text that a unit test reaches; lines longer than their buffer; ping and the
soft access point, whose calls are the request of `ATCore` and nothing else; the
STM32 receive driver, which belongs to the tests; and the demo applications, which
only decide what the environment actions of the models may do.  `PROJECT.json` gives the reason for each component.
