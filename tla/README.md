# Verification of kcp_cpp

kcp_cpp is a small UDP client/server framework in C++: the KCP protocol (an
automatic-repeat-request protocol over datagrams), a channel per peer with
message framing, a timer manager, a worker loop in each process, threads, a
logger, and a foundation library of its own. This directory holds TLA+ modules
that model it, TLC configurations that check them on small instances, and
theorems proved with TLAPS.

`PROJECT.json` lists components, runs, mutants, the map from definitions to
source lines, findings, hazards and theorems. Paths below are relative to
`src/`; `NetCommon/` stands for `KcpCommon/KcpCommon/NetCommon/` and `kcp/` for
`KcpCpp/include/kcp/`.

## 1. Inventory

### KCP ARQ: `NetCommon/ikcp.cpp`
- **State** (`ikcpcb`): `snd_queue` (fragments without a number), `snd_buf`
  (numbered, unacknowledged), `rcv_buf` (received out of order), `rcv_queue` (in
  order, waiting for the user), `snd_una`, `snd_nxt`, `rcv_nxt`, `rmt_wnd`,
  `acklist`, `probe` and `probe_wait`; timing (`rx_srtt`, `rx_rto`, `ts_flush`),
  congestion (`cwnd`, `ssthresh`), `state`.
- **Operations**: `ikcp_send`, `ikcp_recv` (with `ikcp_peeksize`), `ikcp_input`,
  `ikcp_update` (which calls `ikcp_flush`), `ikcp_check`, setters.
- **Hard**: lost, repeated and reordered segments; windows and acknowledgements
  that are stale when they arrive; a full receive queue that closes the window;
  a lost window announcement; wrap-around of clocks, clocks that are set back.
- **Correct when**: each user obtains the other's messages whole, in order and
  once; nothing is discarded before the peer has it; buffers respect windows;
  what is due is flushed, resent and probed; nothing gets stuck.

### Connections: `KcpServer/KcpServer.cpp`, `KcpClient/KcpClient.cpp`
- **State**: server `_sessionIdRefChannel`, `_convRefChannel`,
  `_addrRefKcpChannel`, `_maxConv`, `_maxSessionId`, close lists, one
  acknowledgement timer per connection; client `_convRefChannel`, its channels,
  the linking timer.
- **Operations**: `_OnWork` (read every readable channel, run close loop, drive
  timers, update channels), `_OnWillConnect`, `_OnConnected`, `_OnNetPacket`,
  `_CreateChannel`, heartbeat timeout, `Close`.
- **Interaction**: SYN from client, ACK with the conversation number from the
  server, then KCP data. On the server all channels share the monitor socket; on
  the client each channel has a socket.
- **Hard**: lost, repeated, late SYN/ACK; heartbeat timeouts racing with data;
  numbers issued again after a restart; three maps that must agree.
- **Correct when**: the maps agree, data reaches only the control block it was
  meant for, a heartbeat timer goes with its channel, and every client channel gets
  a conversation or is closed.

### KcpChannel: `NetCommon/KcpChannel.cpp`, `.h`
- **State**: the control block, close/receive/read/write flags, heartbeat count,
  `_waitingSendMsgStream` (bytes ikcp did not take yet), `_leftMsgStream` (bytes
  of an incomplete message), receive buffer.
- **Operations**: `Send`/`_SendStream`, `_ContinueSend`, `OnReadable`
  (`ikcp_input`, then one `ikcp_recv`), `OnUpdate`, `RawSend`, `Destroy`.
- **Hard**: a failed `ikcp_send` in the middle of a stream; several messages
  completed by one datagram; order of waiting bytes and new messages.
- **Correct when**: the bytes decoded by one end are the bytes framed by the
  other, in order, and all of them in the end.

### Timers: `kcp/TimerMgr.h`, `.cpp`, `kcp/LibTimer.*`
- **State**: `_expireQueue` ordered by expiry, `_driving`, `_asynDirty` (deferred
  operations, one flag word per timer), `_pending` (thread-safe additions).
- **Operations**: `Drive`, `Register`, `UnRegister`, `OnTimerDestroy`, `AddTimer`.
- **Hard**: callbacks that reschedule, cancel or delete timers (their own, or
  others that have expired too) while `Drive` iterates over the queue.
- **Correct when**: a cancelled or deleted timer does not fire, the last
  operation on a timer wins, no freed timer is used.

### Threads: `kcp/LibThread.*`, `kcp/ConditionLocker.*`
- **State**: task list, `_enableAddTask`, `_isWorking`, `_isDestroy`; per
  condition lock `_isSinal`, `_waitNum`, and the system's event or condition.
- **Operations**: `AddTask`, `Start`, `HalfClose`, `FinishClose`, the worker's
  loop; `Wait`, `TimeWait`, `Sinal`.
- **Hard**: a signal against a wait, without a lock; `FinishClose` against the
  worker; a task added while the list is being emptied; spurious wake-ups.
- **Correct when**: every task accepted is run or released once, closing ends,
  and the closer is alone with the list.

### Logging: `kcp/LibLog.*`, `kcp/SpecifyLog.*`, `kcp/LibLogFile.cpp`
- **State**: per log two lists (one written to, one drained), the open file, its
  day and size; a count of what is cached; flush threads and their locks.
- **Operations**: `WriteLog`, `FlushAll`, a flush round (swap, reopen for the
  day, partition a file that is too large, write, flush), `Start`, `Close`.
- **Hard**: writers and flush threads racing `Close`; midnight anywhere; a crash
  between copy and deletion of a file.
- **Correct when**: every accepted entry is written once, in order, into a file
  of its day; what is on the disk stays there; urgent entries do not wait.

### Framing: `NetCommon/Protocol/ServerClientProtocolStack.cpp`, `kcp/LibStream.h`
- **State**: read and write positions of a byte stream; a header with length.
- **Hard**: partial headers, partial bodies, growth and compression in between.
- **Correct when**: `Decode` inverts `Encode` however the bytes are cut.

### Sockets: `kcp/net/LibSocket.h`, `kcp/net/EndPoint.*`
- **State**: the socket, its local and remote endpoint, `_connected`.
- **Hard**: endpoints filled before the result is known; families that differ.
- **Correct when**: an answer goes to whoever sent the datagram.

### Foundation library
Strings (`kcp/LibString.h`, `kcp/util/StringUtil.*`), text files
(`kcp/util/FileUtil.*`), ini files (`kcp/LibIniFile.cpp`), the log's configuration
(`kcp/LogIniCfgMgr.cpp`, `kcp/ConsoleConfigMgr.cpp`), time (`kcp/LibTime.cpp`,
`kcp/TimeSlice.cpp`). Sequential, full of edges: separators at the ends, UTF-8,
line numbers that move, leap days, files half written.

### Others
Handlers (`KcpServer/Handler`, `KcpClient/Handler`) answer a message or start a
timer. Delegates, smart pointers and system helpers keep no protocol state.
`kcplib/` is the upstream copy of ikcp and `KcpCopy/` an unused copy of its
header; `example/` vendors a socket library.

## 2. Modules

| module | models |
|---|---|
| `ReliableStream` | what a conversation promises its users (abstract) |
| `KcpArq` | ikcp at both ends, over a bad network |
| `KcpFlush` | when one control block flushes, resends and probes, on its 32-bit clock |
| `KcpConnect` | server and client channels, handshake, dispatch, closing |
| `LibStream`, `ProtocolStack` | the byte stream; encoding and decoding of messages |
| `KcpChannel` | the byte streams of two channels above KCP |
| `TimerService` | what a timer manager promises its users (abstract) |
| `TimerMgr` | `TimerMgr`, `LibTimer`, `TimeData`: the expiry queue, `Drive`, deferred operations |
| `ConditionLocker` | the condition lock, on Windows and POSIX |
| `LibThread` | the worker thread, its producers and its owner |
| `LibLog` | writers, flush threads, rotation, closing, crashes |
| `LibSocket` | UDP sockets and endpoints; the kernel is external |
| `LibString`, `StringUtil` | texts, numbers, lines and file names |
| `ConfigStore` | what a configuration file promises (abstract) |
| `LibIniFile` | the ini file and its copy in memory |
| `ConsoleConfigMgr`, `LogIniCfgMgr` | colours, log levels, log files and their threads |
| `TimeSlice`, `LibTime` | spans, times and the calendar |
| `KcpArqProofs`, `KcpConnectProofs`, `KcpChannelProofs`, `TimerMgrProofs`, `ConditionLockerProofs`, `LibThreadProofs`, `LibLogProofs` | theorems about the module of that name (section 5) |
| `PartsProofs` | theorems about `KcpFlush`, `LibSocket`, `LogIniCfgMgr` and `LibTime` |
| `MCKcpArq`, `MCKcpConnect`, `MCKcpChannel`, `MCTimerMgr`, `MCLibThread`, `MCLibLog`, `MCLogIniCfgMgr` | instances for TLC: symmetry, fairness, liveness |
| `MCParts` | one run over the parts nothing else interleaves with: `KcpFlush`, texts, numbers, time, `LibIniFile`, `LogIniCfgMgr`, `LibSocket` |

How they compose: `KcpArq` implements `ReliableStream` (`sent` and `delivered`
are history variables of the same names, `MaxFrag` is `WndRcv - 1`). `KcpChannel`
lies on that abstraction: below it a stream of whole pieces, in order, whose
acknowledgements may be late; above it `ProtocolStack` and `LibStream` by
`EXTENDS`. `KcpConnect` treats KCP data as opaque datagrams: what they do inside
a conversation is the subject of `KcpArq`, which conversation they reach that of
`KcpConnect`. `LibThread` holds two instances of `ConditionLocker`; `LibLog` uses
of it only that a signal raises a flag. `LibIniFile` reads and writes through the
operators of `StringUtil` and implements `ConfigStore`; `LogIniCfgMgr` takes what
an ini file holds.

### KcpArq

| state or action | code |
|---|---|
| `Send(e)` | `ikcp_send`: cut into fragments, refuse `count >= IKCP_WND_RCV`, append to `snd_queue` |
| `Recv(e)` | `ikcp_recv`: `ikcp_peeksize` guard, merge, refill `rcv_queue` from `rcv_buf`, ask for `WINS` when the queue was full |
| `Input(m)` | `ikcp_input` for one segment: `rmt_wnd`, `parse_una`, `shrink_buf`, then by command `parse_ack`, `ack_push` and `parse_data`, or the probe flag |
| `Flush(e)` | `ikcp_flush`: acknowledgements, window probe, move fragments from `snd_queue` to `snd_buf`, send what is due |
| `Lose(m)`, the copy `Input` may leave, the subset `Flush` keeps | the network (external) |

Abstractions, and why they keep the behaviour:

- *A fragment is its identity* (`msg`, `frg`). The code never looks into a payload.
- *One segment per datagram.* `ikcp_input` treats the segments of a datagram one
  after the other, with the same code. Datagrams of several segments are the
  runs in which their segments arrive together.
- *Time is a choice.* A flush may resend any subset of `snd_buf`, which includes
  what the RTO, fast resend and early resend choose. Whatever they do, the safety
  properties hold; that the timers do come due is a fairness assumption.
- *`acklist` is a set*: an acknowledgement that is listed twice is sent twice,
  and the network may repeat one that is sent once.
- *The probe timer is `probing`* (armed) and a choice whether it has run out.
  When timers do run out is the subject of `KcpFlush`.
- *No congestion window*: `KcpChannel` calls `ikcp_nodelay(..., nocwnd = 1)`.
  Message mode (`stream = 0`), as in every channel.
- *Numbers are naturals* instead of 32-bit words: a window is far below half the
  range, within which the signed differences of the code order them as naturals.

### KcpConnect

| action | code |
|---|---|
| `ReadSyn` | `KcpServer::_OnWillConnect`, `_OnConnected`, `_CreateChannel` |
| `ReadData` | `KcpServer::_OnNetPacket` and `KcpChannel::OnReadable` of the target |
| `HeartbeatTimeout` | the callback of `_CreateChannel`; `heartTimers` are the channels that have such a timer, until `Destroy` deletes it |
| `AckTimeout` | the timer of `_OnConnected` |
| `ServerUpdate`, `ClientUpdate` | `KcpChannel::OnUpdate`, `RawSend` and its failure |
| `ServerClose`, `ClientClose` | the close loops of `_OnWork` |
| `LinkTimeout` | `linkinTimer` of `KcpClient` |
| `ReadAck` | `_OnReadable` on a SYN+ACK, `_InitKcpCb`, `_OnConnected` |
| `ClientReadData`, `ClientError` | `KcpClient::_OnNetPacket`; exception or socket error |
| `Restart` | the server process dies and starts again (nothing is persisted) |

Each process is one thread, so each handler runs without interruption and is one
action; what interleaves is the order of datagrams, timers and closes. Time is a
choice here, too. A datagram carries, as history only, the `life` (restart and
session) of the server channel whose conversation it belongs to, so that
properties can say where it *should* go; no guard reads it. `heartbeat` is the configuration
of the server, fixed from the start.

### KcpFlush

One control block, its segments without contents, and all its timers, as
`KcpChannel` configures it (`nodelay = 1`, `resend = 2`, `nocwnd = 1`).

| action | code |
|---|---|
| `OnUpdate` | `KcpChannel::OnUpdate`: `ikcp_check` compared with the 64-bit clock, then `ikcp_update` and, when due, `ikcp_flush` |
| `Answer` | `ikcp_input` of a datagram of up to two acknowledgements: round trip, RTO, `fastack`, `una`, the window |
| `Send`, `Tick`, `SetClock` | `ikcp_send`; time passes; somebody sets the wall clock back |

`time` is the time that passes, `Wall` what the clock shows; the code sees it
modulo `W`. `OnUpdate` is taken at least every `Gap` (the worker loop). History:
when a flush, a transmission, a probe last happened. A clock that is set back is
noticed by the next pass of the loop, up to `Gap` later, so `FlushOnTime` then
allows `Reset + Gap - 1` on top of the usual bound. `FlushAssumption` states what
`ikcp.cpp` fixes: a minimal timeout below the default and the maximal one, a probe
wait that starts below its limit, an interval the clock's words can hold.

### KcpChannel

| action | code |
|---|---|
| `Send(e)` | `Send`: encode, `_SendStream`, keep back what the window does not take |
| `Update(e)` | `OnUpdate` with `_ContinueSend` |
| `Connected` | the client's control block comes into being |
| `Datagram(e, k, a)` | `OnReadable`: a datagram brings `k` cells and acknowledges `a`, one `ikcp_recv`, `Decode` of whatever is complete, its handler and the handler's answer (`Answered`) |
| `Close(e)` | `Destroy` |

A *cell* is a few bytes: message and position. Headers have two cells, so that
they are cut in two. A segment carries one cell. The overlapping `memcpy` of
`LibStream::Compress` is taken to move bytes as `memmove` does. A received
message that is refused closes the channel. The loops of the code (one packet after
the other in `Decode`, one piece after the other in `_SendStream`, one answer after
the other) are functions of the number of rounds, with as many rounds as could be
needed; a round that finds nothing to do changes nothing.

### TimerMgr

| action | code |
|---|---|
| `New`, `Schedule`, `Cancel`, `Delete` | constructor, `Schedule`, `Cancel` and destructor of `LibTimer`, with the `TimerMgr` calls they make: done at once between two Drives, marked in the timer's `AsynTimeData` inside a callback |
| `AddTimer`, `NewPending` | `AddTimer` of another thread; `_DoPendings`, one timer of the list at a time |
| `BeforeDrive` | `_BeforeDrive` and the reading of the clock |
| `OnTimeOut`, `Return` | a callback begins; it ends, the timer is marked for its next period unless the callback says otherwise, and its element of the queue is erased |
| `Skip` | the loop meets an expired timer that is no longer scheduled |
| `AfterDrive` | `_AfterDrive`: destroy, or unregister and then register, per marked timer; the swap of the pending lists |

`Drive` and the callbacks are one thread, but a callback may call any operation
of any timer; so `Drive` is cut at every point where code of a user runs, and
users are arbitrary. Timers with equal keys go off in any order (the code: by
id). A cancel handler would be one more place where code of a user runs; no code sets one.
`queue` holds the key under which an element was inserted, because `std::set`
does not notice when the key is changed afterwards. `asked` is history: what
users expect after the calls they made. `TimerService` knows nothing else of a
timer, so `ServiceSpec` says that no user can notice the deferral.

`RescheduleDue` is `FALSE` in `timer_drive`: no callback of the repository
schedules *another* timer; with it the manager breaks the promise (section 4).

### ConditionLocker and LibThread

`lck` is one lock: owner, `_isSinal`, `_waitNum`, the event, and where every
thread stands in `Wait`, `TimeWait` or `Sinal`. Each access to shared memory is
a step; on POSIX a waiter may wake up for nothing and a timed wait may end at any
time, on Windows the event keeps a signal. In `LibThread` the worker's loop is
`ThreadBegins`, `LoopTest`, `TakeTask`, `RunTask`, `FindEmpty`, `Park`, `Unpark`,
`Reread`, `StopWorking`, `UnlockQuit`, `TellOwner`; producers do `CheckEnabled`
(the flag, outside the lock), `Push`, `WakeWorker`; the owner `Start`,
`HalfClose` with `SetDestroy`, then rounds of `Wakeup`, `QuitWait`, `Look`, at
last `RemoveTask`. `_taskLck` is a spin lock held for one list operation, which is
one step.

### LibLog

| action | code |
|---|---|
| `OpenLogs`, `UpdateLastPassDayTime`, `Start` | `LibLog::Init`, `SpecifyLog::Init` (which reads the clock twice), `LibLog::Start` |
| `NewLogData`, `WriteLog`, `Sinal`, `FlushAll` | an entry takes its time; it goes to its list; the lock of an urgent one is signalled; the limit of the cache |
| `RoundBegins`, `Swap`, `RoundEnds`, `WakeUp` | `_OnLogThreadFlush` and the head of `_OnThreadWriteLog` |
| `ReopenForDay`, `CopyFile`, `DelFile`, `ReopenPart`, `Write`, `Flush` | the body of `_OnThreadWriteLog`, `LibLogFile::PartitionFile` |
| `HalfClose`, `CloseLog`, `CloseEnds` | `LibLog::Close`, `SpecifyLog::Close` |
| `Midnight`, `Crash` | the clock; the process ends, its buffers are lost, the disk stays |

Writers do not write while the log is being closed (the comment at
`kcp/SpecifyLog.h:84` asks for it). History: entries accepted; `split` (midnight
passed between the two readings of the clock), `unclean` (a rotated file could
not be deleted and is found again).

### LibSocket

`socket` is what the object holds, `kernel` what the kernel knows of it: address,
peer, a queue of datagrams, some of them errors. `OnReadable` is the read loop of
`KcpChannel::OnReadable`, `SocketSend` is `Send`, `RawSend` what follows a read. `Recv` fills the
endpoint before it looks at the result, as the code does. `OnReadable` reads until
the first error: the datagrams in front of it are heard, the rest keeps waiting.

### Foundation library

A text is a sequence of bytes. The operators are the functions of the code with
their quirks: `Split(onlyLikely)` takes the first separator in the order of the
list, `isspace` is always false, `SplitAny` skips one byte after a separator of
any length. `LibIniFile` keeps the file, the members and whether it was opened;
its operations are `Open`, `WriteStr`, `ChangeLineBetweenSegs`,
`WriteFileHeaderAnnotation`, `Clear` and `Crash` (the process ends in one of the
writes, after any part of the new content). The history variable `asked` holds the
operation asked for last; `ConfigStore` ties every change to it: the step of a write
sets the one value, that of an annotation adds the lines of its note, nothing else
changes, and only the step of a crash may lose something. Values with
`;`, `[`, blanks at the ends or line feeds do not read back and are not written.
In `LibTime` the number of units in the next is a parameter; the zone is fixed. `today`
is the day at whose times the calendar is asked.

## 3. Runs

Every run finishes within five minutes on two workers.

| run | instance | shows |
|---|---|---|
| `arq_oneway` | one sender, windows 2 and 3, four fragments, two datagrams in flight | type correctness, order, whole messages, safe discards, windows, no stranded fragment, no wedged queue; the refinement of `ReliableStream` |
| `arq_live` | fair, one datagram in flight, queue of two | all is delivered and acknowledged, although the announcement of a window may be lost |
| `connect` | two channels (symmetric), heartbeats, two numbers, then a restart and one more | maps and heartbeat timers name the same channels, data stays within its conversation until the restart, control blocks are kept |
| `connect_live` | one channel, two numbers, with and without heartbeats, fair | clients connect; without heartbeats the ACK is repeated until the client is heard |
| `connect_confirm` | heartbeats; expected violation | the first finding below |
| `timer_drive` | two timers, periods 0 and 2, time up to 3, fair | no timer that is freed or deleted is used, keys in the queue do not change, the last operation wins, the refinement of `TimerService`, every timer goes off |
| `timer_reschedule` | the same, callbacks may reschedule due timers; expected violation | the second finding |
| `thread_close` | one producer, two tasks, both platforms, fair | no wake-up is lost, the closer is alone with the list, closing ends |
| `log` | two writers (one urgent), one log, two entries, one midnight, one crash, with and without a size limit, fair | `Close` leaves everything on the disk, in the file of its day; rotation loses nothing; urgent entries are written |
| `channel` | two messages of one body cell, header of two cells, window of one, fair | no byte is lost, repeated or moved; every message is handled |
| `log_levels` | the template configuration; expected violation | the third finding |
| `parts` | one part per behaviour, below | a control block keeps its times; texts, numbers, calendar, ini file (refinement of `ConfigStore`), levels, sockets |

**Bounds of the protocol runs.** `MaxSent`: four fragments are messages of one
and two fragments in every mix, enough to fill the receive queue, close the
window, have it probed and go on. `NetCap`: two datagrams in flight give every
reordering of a pair and a late datagram beside a fresh one; a datagram beyond
the cap is lost, which the network may do anyway. `WndRcv` is 2 or 3 instead of
128; a message has fewer than `WndRcv` fragments, so multi-fragment messages
need 3. One user sends; that both may is covered by the proofs (section 5).
`MaxConv`: two conversations suffice for one address to get a second channel while
datagrams of the first one fly, and for two clients to compete; a restarted
server creates one channel fewer, which issues number 1 again. Beats saturate at
2, because the code asks only for "more than one". Two timers are what a callback
and its victim need; period 0 makes a timer that is due again at once, 2 one that
is not due in the Drive that reschedules it; times up to 3 (`MaxTime`) hold an
expiry, a repetition and a change of period. Names of deleted timers are used
again, so that a stale element would be taken for the new timer.

**Bounds of `thread_close`, `log` and `channel`.** Two tasks: one may be run while
the other is added, found or released. Two entries of two writers stand on both
sides of a midnight, of a rotation or of a swap; the crash may come anywhere, and
the process starts again on what is left. A window of one and pieces of at most two
cells cut every message and its header, and hold the second one back; lengths are
below the 10 at which a header's length would wrap.

**Bounds of `parts`.** The clock of a control block wraps at 32 instead of 2^32
and stands just before the wrap; intervals, timeouts and limits are scaled to
2..6, so six ticks hold a timeout, its repetition, a probe and a clock set back by
less and by more than `Reset`. Texts: every text of three characters of nine kinds
(letter, capital, blank, comma, backslash, line feed, point, a character of two
bytes, the UTF-8 mark). Numbers: all of 8 bits, in every base. Times: every moment
of the days 725 to 800 (27 December 1971 to 11 March 1972, a leap day among them) east of
Greenwich, with two of each unit of the clock in the next. The ini file is empty
or has a key in front, a comment and a segment twice; three writes, one crash.
Levels: two of them with every choice of id, file and switch, and up to two files.
Sockets: two, each with at most one datagram waiting, on two hosts.

**Deadlock.** `arq_oneway` and `timer_drive` check for deadlock. The others do not:
the strong bound on the network of `arq_live` leaves no step once everything is
delivered; all channels of a client may close; threads and logs end closed; a user
has sent what he sends; the parts end when their inputs do.

**Fairness.** Both processes poll in a loop that never ends, so timers that are
scheduled expire, marked channels are closed, `ikcp_update` is called, and a
reading user reads (weak fairness). The network is bad but not hopeless: a
datagram that is sent again and again arrives at some time (strong fairness on
sending such that it survives, and on arrival), and none flies for ever. This is
the least under which retransmission can help at all; the acknowledgement, the
resend and the probe each need it separately, because losing any one of them for
ever stops the conversation. In `KcpConnect` the numbers of the *model* run
out, so `LastNumberUsed` says that the last one is not wasted by a lost
acknowledgement (or a socket error): the server, whose numbers do not run out,
would simply issue another. In `TimerMgr` only `Drive` (the worker loop calls it in
every round, and callbacks return) and the clock are fair; users owe nothing. In
`KcpChannel` KCP delivers what it carries (`KcpArq`), and datagrams keep coming while
both channels live, because the client sends heartbeats and both ends acknowledge;
an update that marks the channel with an error owes nothing. Its weak fairness is
written out, with the condition under which a step can be taken in place of `ENABLED`.
In `LibThread` and `LibLog` the system runs every thread that can run; the worker gets
`_quitLck` in the end although the owner takes it in every round (strong); nobody owes
a new task, entry, midnight or crash.

**Types.** `KcpArq`, `KcpConnect` and `TimerMgr` check their type invariants. Those of
`KcpFlush`, `KcpChannel`, `MCLibThread` and `MCLibLog` are stated as documentation of
the state; no run lists them. For `KcpFlush` and `KcpChannel` they are proved.

## 4. What the checks found

`KcpServer/KcpServer.cpp:261` says of the timer started in `_OnConnected` that it
sends the confirmation every second until the client is alive. With heartbeats
enabled (`KcpServer/main.cpp:41`) this is not so: `_CreateChannel` counts a beat
when it schedules the heartbeat timer (line 447), `KcpChannel::OnConnected`
(`KcpChannel.cpp:661`) another one, and `IsAlive` asks for more than one
(`KcpChannel.h:461`). The channel therefore counts as alive before anything was
heard of the client, and the timer ends at its first expiry. When the one
acknowledgement is lost, the client's SYNs are refused (its address has a
channel) until the heartbeat timeout. `connect_confirm` shows it; `connect_live`
shows the comment to be true without heartbeats (`QuietAckedUntilAlive`), and that
the client does connect in the end with them, too.

`kcp/LibTimer.cpp:43` says that a timer which is scheduled anew is first cancelled.
Inside a callback of `Drive` both operations are only marked, and the second one
sets `_isScheduing` again, so when that timer is due in the same `Drive`, the
test at `TimerMgr.cpp:70` lets the cancelled expiry go off
(`timer_reschedule`). A timer that is only cancelled does not go off, and no
callback of the repository reschedules another timer today.

`kcp/LogLevel.h:13` and the configuration that the program writes for itself
(`kcp/LogConfigTemplate.h:74`) say that the ids of the system's levels may not be
changed. The same template gives `Custom`, `Sys`, `MemMonitor` and `Trace` the ids 7
to 10 (lines 82 to 85) where `LogLevel` has 12 to 15. `log_levels` reads it: `Sys` has no
configuration, and `GetLevelCfg` (`kcp/LogIniCfgMgr.h:54`) indexes past the vector at
the kernel's first message (`kcp/util/KernelUtil.cpp:82`). `doc/ini/LogCfg.ini` is right.

Behaviours met on the way that no statement of the repository contradicts, and that
no property therefore claims:

- After a server restart two channels of one client may hold the same number, and
  the client then gives the data of one to the other (`KcpClient.cpp:322`). A client
  channel dropped by the server never connects again (`KcpClient.cpp:133`).
- A wall clock that is set back stops resends and probes until it has caught up;
  only the flushes resume after 10 s (`ikcp.cpp:1161`).
- `FinishClose` returns while the thread may still be in `_quitLck.Sinal()`
  (`kcp/LibThread.cpp:69`), or has not begun, although it is said to wait for the
  thread's exit (`kcp/LibThread.h:156`); a task added behind the check of
  `_enableAddTask` stays in the list.
- An ini value with `;`, `[` or blanks at its ends does not read back; a
  segment whose name is no letters and digits is written and dropped at the next
  reading (`kcp/LibIniFile.cpp:345`); a crash in a write loses the rest of the file.
- `AddYears` and `AddMonths` count the milliseconds twice (`kcp/LibTime.cpp:258`, `:300`); a
  `TimeSlice` read from a text with days takes them for hours (`kcp/TimeSlice.cpp:54`);
  `ReadUtf8OneLine` takes the rest of the file once a byte begins no character.
- An IPv6 socket whose `Bind` failed reads addresses of the wrong length
  (`kcp/net/LibSocket.h:655`); `Bind` returns nothing and its callers go on.

## 5. What is proved

Every theorem holds for all values of the constants that satisfy the named
assumption of its module, and is checked from its leaves up. None of the safety
properties below is inductive by itself; each paragraph says what had to be added.
A proof has a step per action and, under it, one per conjunct; an action that
leaves a part of the state alone leaves its conjunct alone by a lemma.

**`KcpArqProofs`**: all window sizes, numbers of fragments and datagrams in flight
(`ArqAssumption`: two ends, `RcvWnd >= WndRcv >= 2`, `SndWnd >= 1`).

| theorem | statement |
|---|---|
| `TypeCorrect`, `Inductive` | `Spec => []TypeOK`, `Spec => []IInv` |
| `DeliveredInOrder`, `DeliveredWhole` | `[]InOrder`, `[]WholeMessages` |
| `DiscardsWhatArrived` | `[]DiscardedIsReceived` |
| `WindowsHold` | `[]Bounded` |
| `InSequenceMoves`, `NeverStuckFull` | `[]NothingStranded`, `[]NeverWedged` |
| `ImplementsStream` | `Spec => StreamSpec` |

`InOrder` at `Recv` needs that `rcv_queue` continues the stream where `delivered`
ends; that at `Input` needs that `rcv_buf` and the payload in flight are the
stream's fragments of their numbers; that at `Flush` needs `snd_buf` and
`snd_queue` to be the rest of the stream (`ReceiveSide`, `Truthful`, `SendSide`).
Safe discarding needs that everything an in-flight `una` or ACK claims was true
when it was sent and, since `rcv_nxt` only grows, stays true. `NeverWedged` and the
refinement need the shape of the stream, runs of `frg` counting down to 0 with
fewer than `WndRcv` fragments (`StreamShape`). In the refinement `Send` is the
abstract `Send`, `Recv` the abstract `Deliver` and every other action a stutter.

**`PartsProofs`** of `KcpFlush`: all intervals, timeouts, limits, clocks and lengths of a run.

| theorem | statement |
|---|---|
| `TypeCorrect`, `Inductive` | `[]TypeOK`; `[]Types` adds the order of the moments |
| `TimingInductive` | `ClockFits => (Spec => []Timing)` |
| `FlushesOnTime`, `NothingIsOverdue` | `ClockFits => (Spec => []FlushOnTime)`, the same of `NothingOverdue` |
| `EarlyOnlyWhenPassed` | `Spec => EarlyWhenPassed` |

The code compares 32-bit words by their signed difference. `Timing` says which
moment of the unbounded time each word (`ts_flush`, `resendts`, `ts_probe`) stands
for and that this moment is near; then the difference has the sign of the real
one. `ClockFits` is what that takes: `Interval + Reset + Gap` at most half the range
(10 s against 24 days), and a wall clock that is not set back to before the first
wrap since 1970. Outside it the 32-bit comparison is wrong, as it is in the code.
Once the clock was set back `ts_flush` may stand for anything, but the last flush was
then less than an interval before the last pass; the next pass resets it. A
measured round trip leaves the estimate within its limits for every list of
acknowledgements (`MeasuredAll`).

**`KcpConnectProofs`**: any number of channels, numbers, sessions, datagrams.

| theorem | statement |
|---|---|
| `TypeCorrect`, `Inductive` | `[]TypeOK`, `[]IInv` |
| `MapsAlwaysAgree` | `[]MapsAgree` |
| `OnlyOneConversation` | `[]OneConversation` |
| `ConversationStays`, `QuietAcked` | `ConversationKept`, `QuietAckedUntilAlive` |

`MapsAgree` is inductive only with the client's map (`ClientMap`).
`OneConversation` quantifies over datagrams that will be taken in; it holds because
a number is issued once in a life of the server, so that everything that carries it
(sessions, what flies, what clients adopted) carries the same address and session
(`IssuedOnce`). `OneBeat`: without heartbeats one beat makes nobody alive.

**`KcpChannelProofs`**: any header, message lengths, windows, users and numbers of
messages (`ChannelAssumption`, `StackAssumption`).

| theorem | statement |
|---|---|
| `TypeCorrect`, `Inductive` | `[]TypeOK`, `[]ChannelInv` |
| `NoByteLost` | `[]BytesConserved` |
| `OnceAndInTurn` | `[]HandledInOrder`: what was handled is a prefix of what was sent, also after the sender has closed |
| `NoWaitForgotten` | `[]WaitingFlagged`: bytes that are kept back have the WRITE flag, so `_ContinueSend` comes back to them |

`BytesConserved` speaks of bytes; that `Decode` cuts them where one message ends and the
next begins needs `OnTheWay`: the messages
sent and not yet handled, written one behind the other, are the readable cells of
`_leftMsgStream`, those that wait for `ikcp_recv`, those in flight and those kept back,
in this order and without a gap. It begins with a whole packet at every moment between
two handlers, which is why `Decode` finds a header where it looks for one. The rounds
of a loop keep a statement of this kind; that a loop with `n` rounds has a value at
all, and what it is, is proved of its recursive function by the least round that would
break it (`LoopExists`, `RoundsInduction`). `LibStream` is proved separately: what an
operation leaves readable, whether it writes in place, compresses, or grows first.

**`TimerMgrProofs`**: any number of timers, periods and times.

| theorem | statement |
|---|---|
| `TypeCorrect`, `Inductive` | `[]TypeOK`, `[]IInv` |
| `NeverDangling`, `KeysKept` | `[]NoDangling`, `[]OrderKept` |
| `MarkedAsAsked`, `LastOperationWins` | `~RescheduleDue => (Spec => []AsAsked)`, the same of `QueueAsAsked` |
| `NeverBeforeDue`, `ImplementsService` | `~RescheduleDue => (Spec => NotBeforeDue)`, the same of `ServiceSpec` |

`Marks` and `QueueMarked` say how the four flags of a timer, its place in the queue
and its existence go together at every point of a `Drive`; `PendingNew` that the timers
which other threads have prepared are new ones. `Asked` relates them to what users asked for: the marks, or
else the `TimeData`, one period later for the timer whose callback runs. In the
refinement `asked` is the abstract state; `OnTimeOut` is the abstract expiry and all
the bookkeeping of `Drive` stutters. `~RescheduleDue` is what the repository's
callbacks do; without it `timer_reschedule` refutes `NotBeforeDue`.

**`ConditionLockerProofs`**, **`LibThreadProofs`**: any finite number of threads,
producers and tasks, both platforms (`LockFits`, `ThreadAssumption`: the names of
threads differ).

| theorem | statement |
|---|---|
| `LockTypeCorrect`, `LockInductive` | `LockFits => (LockSpec => []LockType)`, `... []LockInv` |
| `NobodyForgotten` | a raised flag with a sleeper is on its way to a waiter |
| `LocksUsed` | `Spec => CondLock!LockSpec /\ QuitLock!LockSpec` |
| `LocksKept`, `Controlled` | `[]` of both locks' invariants; `[]Control` |
| `AloneAtTheEnd` | `~EarlyClose => (Spec => []CloserAlone)` |
| `TasksInTurn` | `~EarlyClose => (Spec => []InTurn)`: run or released in turn, once |
| `NoSleepOnTasks` | `Spec => []WakeUpComing` |

The lock is proved alone, of threads that call it in any way; `LocksUsed` shows that
the worker, the owner and the producers are such threads, so the lock's invariant
holds in `LibThread` for both locks without being proved again. `LockInv` counts
the waiters (`_waitNum` is how many stand between the two accesses, by cardinality)
because `Sinal` skips the wake-up when it reads 0. `NoSleepOnTasks` is the safety
half of `TaskDisposed`. `~EarlyClose`: the owner closes a thread that has begun, as in
`thread_close`; what else may happen is in section 4.

**`LibLogProofs`**: any number of writers, logs, flush threads, entries, midnights,
crashes (`LogAssumption`).

| theorem | statement |
|---|---|
| `Inductive` | `Spec => []LogInv` |
| `StaysOnDisk` | `Spec => Durable` |
| `InTheirDay` | `Spec => []InItsDay` |
| `NothingIsLost` | `Spec => []NothingLost`: after `Close` every accepted entry is on the disk |
| `EachOnceInOrder` | `Spec => []ClosedComplete`: it is there once, in its day's files, in order |

`Durable` at `DelFile` needs that between copy and deletion the copy equals the file,
nothing is buffered, and the copy's name was free (`Copied`, `FreePartIsFree`, by the
pigeonhole principle: there are more numbers than files). Each step of a flush thread
needs that its log is its business alone and its file open (`Rounds`, `OpenFile`). `InItsDay` needs
that the stream's buffer and the day against which entries are compared belong to the
open file (`StreamDays`). `NothingLost` needs where every accepted entry is: in the
list, in the list being written, in the buffer or on the disk (`Safe`); and that after
the round that saw the order to stop nothing is left (`LastRound`), since writers have
stopped before. It holds also where `ClosedComplete` does not apply, after a failed deletion
or a midnight within `Init`.

`ClosedComplete` needs the same with order and multiplicity (`OrderInv`): for each day,
the entries of that day in the numbered parts of the file, in the file itself, in the
stream's buffer, in the list being written and in the queue, one behind the other, are
the entries accepted that day. Each action moves the boundary between two neighbours:
`WriteLog` lengthens both sides, `Swap`, `Write` and `Flush` hand on what the next one
takes in at its end, `CopyFile` makes a part of the file, which counts once because
between copy and deletion the file itself does not (`Today`); the copy becomes the last
part because this process numbers them upwards and the number was free (`Numbered`).
The parts are a `FlattenSeq` of as many texts as there are numbers; that a further text
appends and an empty one changes nothing is proved of its recursion by induction over
the rounds. Entries of other days and what earlier processes left behind are not
counted (`Own`).

**`PartsProofs`** of `LibSocket`: any number of sockets, hosts and waiting datagrams; a host is not
called `none` or `garbled`, which stand for a missing and an unreadable address
(`HostsNamed`). `SocketInductive` is `[]SocketInv`, `AnswersGoBack` is `[]AnswersSender`.
`SocketInv`: endpoints agree with the kernel's addresses (`Agreed`), what waits may
come from its sender (`Waiting`), and what was heard carries the endpoint of its
sender, or none on a connected socket (`Heard`).

**`PartsProofs`** of `LogIniCfgMgr`: any number of levels, files and threads; ids of files
are natural numbers, names are texts (`ConfigsFit`). `LevelsFound` is `[]LevelsLinked`.
`Init` of the manager builds everything in one step, so the work is in what the lists
are, not in the step. The list of a thread is a loop over the files: by induction over
the rounds a file stands once in the list of its thread and in no other (`ListedOnce`).
That ids differ (`WellFormed`, the premise of the property) makes the entry of the index
at an id the one file that has it (`GreatestOf`, `ReadLinks`).

**`PartsProofs`** of `LibTime` and `TimeSlice`: any number of microseconds in a millisecond up to
hours in a day, any zone that is at most a day behind Greenwich, any number of days from
February 1971 on (`DaysFit`: `CalendarAgrees` asks for thirteen months earlier, which must
not be before 1970).

| theorem | statement |
|---|---|
| `CalendarHolds` | a time since 1970 is read back from its text, agrees with midnight and the interval to every time of a day, and `MonthsAgree` for every number of months that does not lead before 1970 |
| `CalendarKept` | `DaysFit => (CalendarSpec => []CalendarAgrees)` |

There is next to nothing to keep from step to step; the work is the calendar itself. The months
of all years are put in one line (`Start(k)` is the first day of month `k`, 12 to a year);
each begins when the one before is over (`NextMonth`), so later ones begin later
(`MonthsOrdered`) and every day since 1970 is in exactly one (`MonthOfDay`, by the least
month that starts after it). A year is 365 or 366 days (`YearBounds`), so the month lies
among the years that `Tm` looks through and is what it chooses (`FirstIs`). The clock is a
number in mixed digits (`ClockIs`, `ClockOf`). With both, `Mktime` and `Tm` undo one another
(`TmOfMktime`, `MktimeOfTm`), and texts, midnight and months follow. `LocalTime` is what the C
library computes, read from the definition of the calendar; the proof shows that the code
around it adds nothing wrong, except where `MonthsAgree` says so.

Only model-checked:

- liveness: `EventuallyDelivered`, `EventuallyAcknowledged`, `EventuallyConnected`,
  `GoesOff`, `TaskDisposed`, `CloseEnds`, `EventuallyWritten`, `EventuallyHandled`
  (fairness and `ENABLED` are out of the prover's reach);
- `TextAgrees`, `InMemory` and `StoreSpec`: `LibString` and `StringUtil` cut and join
  texts character by character. The induction theorems of the library take an
  operator, which the provers cannot instantiate. Loops over a number of rounds are
  proved here without them; a text that is read back through several such functions,
  each with its quirks, is left to every text within the bounds;
- the type invariants of `MCLibThread` and `MCLibLog`, which bound counters of the
  model; `Control` and `LogTypes` are what of them the proofs need.

## 6. Not modelled, and the plan

Left to do, in order of importance:

1. `KcpConnectProofs`: what survives a restart of the server (`MapsAgree` does).
2. `KcpFlush`: how often a segment can be resent early.
3. `KcpChannel`: that a refused message closes the channel before anything behind it
   is handled.

Not modelled, with the reason:

- *ikcp*: the congestion window (every channel turns it off, `cwnd` is computed and
  not used), stream mode (never on), `ikcp_setmtu`, allocation failures, the wrap of
  sequence numbers (the windows are far below half the range).
- *Connections*: `Close` of either process; the demonstration traffic of `main`.
- *Timers*: `Launch` with its wake-up callback, `AddTimer` before it (the pending
  lists do not exist yet), `GetTimeoutIntervalRecently`, which no code calls.
- *Threads*: closing before the worker has begun; the distribution of tasks in
  `LibThreadPool`.
- *Logging*: formats, console, hooks, writers that race `Close`.
- *Framing*: a header whose length is too small, which `Encode` never writes; the
  coders of single messages, which copy fields.
- *Sockets*: TCP; `Join`, `Accept` and `Bind(sockaddr)`, which do not compile when
  instantiated; options.
- *Foundation*: floating-point texts, `AppendFormat`, free time formats, summer time,
  malformed log configurations (the code indexes past the pieces).
- *Delegates, smart pointers, system helpers, directories, crash dumps*: no state of
  the program, or the operating system's.
- *Duplicates and vendored code*: `kcplib/`, `KcpCopy/`, `example/`, build files.
