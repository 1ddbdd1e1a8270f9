# Verification of Network-Code

TLA+ models of the programs in this repository, TLC configurations that check
them on small instances, and TLAPS proofs.  The repository is a collection of
independent network programs in C, C++, Python and shell; each program is a
component here.

## 1. Inventory

| component | source | state it keeps | who acts on it |
|---|---|---|---|
| Thread pool | `Thread_pool/` | task list `first/last/next`, `count`, `idle`, `quit`, one condition variable | one program thread (`threadPool_addtask`, `threadPool_destroy`), workers (`thread_routine`) |
| Chat over UDP, server | `LinuxChat/server`, `LinuxChat/pool`, `LinuxChat/redis-lib` | ring buffer of 1024 messages with two counting semaphores, user list (a `std::map`), `session` history and its copy in redis | producer thread (`productRun`), consumer thread (`consumRun`) |
| Chat over UDP, client | `LinuxChat/client`, `LinuxChat/window`, `LinuxChat/Json` | the client's own list of users, the rows of three windows | receiving thread, sending thread, header thread, signal handler |
| Chat over TCP | `chat/server.c`, `chat/client.c` | `pollfd` array, `user_count`, one shared line buffer | one thread over `poll`; clients |
| Echo servers on epoll and libevent | `epoll_server.c`, `libevent-server.cpp` | epoll set, one `reactor` per connection; libevent events | one thread; clients |
| HTTP server | `http/` (copied unchanged to `weather/`, `weather_server/`) | sockets, pipes, CGI children | one thread per connection, CGI processes, `http_ctl.sh` |
| Weather service | `weather_server/wwwroot/cgi`, `weather_server/weather` (crawler), `weather_server/redis-lib` | redis hashes: `UserCount`, `user<n>`, per-city days | register CGI processes, `ShowWeather.py`, crawler pipeline, the page that starts a push (`weather_show.cpp`) |
| Thread-per-connection echo | `pthreadServer/` | the socket number passed to each thread by address | main thread, one thread per connection |
| Simple servers | `OOB/`, `UN/`, `服务器和客户端(1V1)/` | one connection at a time, one urgent byte | one server, a signal handler, clients |
| Sniffer | `NetWorkSniffer/` | packet counters, capture loop on `select` | one thread |
| Control script | `http/http_ctl.sh` | the process itself, its pid file | operators |
| Database and shell examples | `TestSQL`, `MySQL_Test`, `*/testsql`, `Test_memcached`, `myshell` | none of their own | one process |

Interactions.  The pool's caller and its workers share memory under one mutex.
The UDP chat's producer and consumer share a ring buffer (under semaphores) and
the user list (under nothing), and its clients talk to it by datagrams.  The
TCP chat is event driven: one buffer is handed from a read event to the write
events of other connections.  The HTTP server's threads share nothing but file
descriptors, which CGI children inherit.  The weather service is a set of
unrelated processes that meet only in redis.

| component | what makes it correct |
|---|---|
| Thread pool | the counters say what they count; a task is run once, in order, by one worker, and its memory is alive meanwhile; a queued task has a thread and shutdown drains and returns, or it is known why not; nobody is left on the condition variable |
| Chat over UDP | a slot is never read while it is written, messages leave in order, the semaphores account for every slot; LOAD replays what was stored; the two threads do not wait for each other for ever |
| Chat over TCP | the poll array, the descriptors and the clients stay one to one; a text reaches everybody else; nobody is shown a text from before his time; leavers are removed; no write ends the server |
| Chat clients | what was heard of is listed; QUIT is the last thing sent; a text is shown, a line is written, and the end of the server is noticed |
| Echo servers | an event leads to the record of its own connection; a record is not used after it was freed; everybody is heard to the end and answered |
| HTTP server | a response is whole and ends; a request with a program finishes whatever other requests do; a finished request leaves no descriptor but what is known; one request does not end the server for the others |
| Weather service | an address, once registered, stays and is mailed; a push finds the forecasts it counts |
| Thread-per-connection echo | each accepted connection is served by the thread made for it; what comes back is what was sent, in order |
| Simple servers | clients are heard in turn and to the end; an urgent byte is read by the handler it has raised |
| Sniffer | the counters add up; packets are read whatever is typed |
| Control script | whom the pid file names, how it comes to exist at all, and that only servers are killed |

What is hard: wakeups lost or stale after a timeout (pool), shutdown that waits
for threads (pool), full and empty ring buffers and a consumer that works on a
list the producer edits (UDP chat), one buffer for many senders (TCP chat), one
`epoll_event` used for many connections (epoll), one record on the stack for
many threads (pthread), descriptors that end up in the wrong process (HTTP),
signals between any two steps (urgent data, SIGINT), what happens between a
poll and the read behind it (clients), read-then-write without a transaction
(weather), and test-then-act on a pid file (control script).

## 2. The modules

| module | of | extends or instantiates |
|---|---|---|
| `TaskPool` | what a thread pool promises (abstract) | |
| `ThreadPool` | `Thread_pool/thread_pool.c`, `condition.c` | instance of `TaskPool` as a refinement |
| `BoundedQueue` | what a message pool promises (abstract) | |
| `MessagePool` | `LinuxChat/pool/pool.cpp` | instance of `BoundedQueue` as a refinement |
| `UdpServer` | `LinuxChat/server` | extends `MessagePool`: the composition of both threads with the pool |
| `PollServer` | `chat/server.c`, what `chat/client.c` does to it | |
| `WeatherService` | `register.cpp`, `pipelines.py`, `ShowWeather.py` over redis | |
| `WeatherShow` | `weather_show.cpp`: the page that starts a push | |
| `CgiCall` | what the HTTP server promises of a request for a program (abstract) | |
| `HttpServer` | `http/main.c`, `http/httpd.c`, a CGI program | instance of `CgiCall` as a refinement |
| `Sockets` | clients, connections and the descriptor table around the small TCP servers (external) | instance of `FirstCome` as a refinement |
| `FirstCome` | what a server promises those who come to it (abstract) | |
| `EpollServer` | `epoll_server.c` | extends `Sockets` |
| `EventServer` | `libevent-server.cpp` | extends `Sockets` |
| `ThreadServer` | `pthreadServer/tserver.c` | extends `Sockets` |
| `EchoClient` | `pthreadServer/client.c` | extends `ThreadServer`: the composition of both ends |
| `LineServer` | servers and clients of `UN/`, `服务器和客户端(1V1)/`, `OOB/` | extends `Sockets` |
| `Sniffer` | `NetWorkSniffer/` | |
| `UdpClient` | `LinuxChat/client`, the list windows of `LinuxChat/window` | |
| `ChatClient` | `chat/client.c` | |
| `ControlScript` | `http/http_ctl.sh` | |
| `MCServers` | one of the small TCP servers, chosen at the start | the four server modules |
| `MCTerminals` | one of the programs at a terminal, chosen at the start | the five modules |
| other `MC...` | symmetry and sets for TLC | the module named |
| `ServerProofs` | theorems and proofs | `EpollServer`, `EventServer`, `EchoClient` (with `ThreadServer`), `LineServer` |
| `TerminalProofs` | theorems and proofs | `UdpClient`, `ChatClient`, `ControlScript`, `Sniffer`, `WeatherShow` |
| other `...Proofs` | theorems and proofs | the module named, `TLAPS` |

Each state machine has its actions named after the functions or the branches
they model, its invariants after what they say.  A definition whose comment
begins with *Faulty* is no part of the specification: it is a plausible bug,
kept next to the definition it would replace, under which one property fails.

### 2.1 ThreadPool

An action is a critical section, because every access of the pool is made with
`status.pmutex` held: from taking the mutex to releasing it or to the release
inside `condition_wait`.  The gap between leaving the condition variable and
having the mutex again is a state (`pc = "woken"`, `"expired"`), and so is the
execution of a task, which is made without the mutex.  `Enter`, `Resume`,
`ResumeExpired` and `Finish` are `thread_routine` from the loop's head, from a
wakeup, from a timeout and from the end of a task; all four go on through the
same code (`Proceed`, `EndIteration`).  `AddTask` and `Destroy` are the two
functions of the interface, `DestroyResume` the loop around `condition_wait`.
The linked list is modelled as it is kept: `first`, `last`, `next`, with `last`
stale when the list empties.  `ghosts` counts the threads that `pthread_create`
failed to start but line 110 counted.  A wait may end by a signal, by its
timeout, or spuriously.  `unheard` is a history: a signal of `AddTask` has found
none but workers whose wait had timed out.

What the code does wrong, and the model with it: a worker whose wait has timed
out runs one task more and leaves, whatever is in the list by then (lines 55-60).
So a task may be left with no thread (`pool_stranded`), and when this worker is
the last one `threadPool_destroy` is never signalled (`pool_hangs`).
`LossesExplained` says exactly when tasks are lost or shutdown hangs: because a
thread was never created, or because of such a worker.

`TaskPool` is the abstraction: tasks start in the order of submission, each
once, at most `maxThread` at a time, none runs when `threadPool_destroy` has
returned and none starts afterwards.

### 2.2 MessagePool, UdpServer

`PutData` and `GetData` are two steps each, with the slot being written
(`putting = "writing"`) or read in between, since there is no mutex.  The
vector's real size is a variable: `pool` is declared before `_cap` in `pool.h`
and is constructed with whatever `_cap` held.  A put past that size ends the
behaviour (`crashed`).  `_size`, which nobody reads, is left out.

`UdpServer` adds the two threads.  The producer's places are `recv`, `put` (in
`RecvData`'s `PutData`), `handle` and `load`; the consumer's are `begin`, `get`
and `send`.  `userlist` is the map from address to port; `node` and `linked` are
the iterator `broadCast` keeps across the blocking `GetData`, which may by then
point to a node the producer has erased, or to a new one in its memory.
`session` and `redis` are the keys and what is stored under them; the keys come
round at `KEY_MAX`.  Datagrams are any message from any address.

What the code does and no property denies: `broadCast` never advances its
iterator, so one user gets every message (`OneReceiver`), and a user who has
left may still be sent to.  With an empty list and a full pool neither thread
can go on (`Wedged`), and `WedgedForever` says there is no way out.

### 2.3 PollServer

`Poll` takes a snapshot of every entry's events; then the loop looks at one
entry per step, and clients go on meanwhile.  The branches of the loop are
`Accept`/`Refuse`, `HandleErr` (`POLLERR`), `HandleHup` (`POLLRDHUP`),
`ReadFails` and `Forward` (`POLLIN`), `HandleOut` (`POLLOUT`) and `Skip`.  The
one `tmpbuf` is a sequence of cells, a cell per line; a shorter text leaves the
rest of a longer one behind.  `pending` is the set of descriptors whose
`users[fd].write_buf` is not NULL.  `owed`, `shown` and `latest` are histories.
How sockets report a FIN, a reset and their errors is described at the head of
the module, and is external.

What the code does and no property denies: `POLLRDHUP` is handled before
`POLLIN` (line 158), so what a client has sent just before it leaves is never
read, and `InputRead` excepts it.

### 2.4 WeatherService

One action per redis command, with any process dying in between.  A
registration is `GetCount`, `SetCount`, `SetUser`, `GetUser0`; the crawler
`Crawl`, `SetDate`, `SetDays`; the push `GetDays`, `GetUsers`, `GetUser`,
`UsersDone`, `GetDate`, `SendMail`.  Addresses are the registrants, forecasts
the number of the crawl they are from.  `due` and `overlap` are histories.

`WeatherShow` is the page in front of the push.  `show` is the place of `main`,
`child` that of the forked process, `printed` what each has in the buffer of its
stdout, `pipe` and `page` what the server has not, and has, read of the output.
`Flush` is an `endl`, or the end of a process; `ForkPush` copies the buffer.  The
page says "exec error" whether or not the push was started, because `main`
prints that line in any case (`SayError`).

### 2.5 HttpServer

The threads share no memory but share the descriptor table, and `fork` copies
all of it.  So the state is who holds which descriptor: `open` is the server's
table, `own[c]` the program's of request `c`; a descriptor is a socket (`sock`)
or an end of one of the two pipes (`inR`, `inW`, `outR`, `outW`) of a request.
`pc` is the place of a connection's thread, from `line` (the request line) to
`done`; `failed[c]` is a history, which call of request `c` has failed; each call of `excu_cgi` that changes the table is an action, in the
order of the code: `PipeIn`, `PipeOut`, `Fork`, `CloseInR`, `CloseOutW`, `Feed`
(lines 283-286), `Relay` (288-289), `CloseInW`, `CloseOutR`, `Waitpid`.  A read
from a pipe is at its end when nobody at all holds the other end.  A program
reads what was announced and prints when it exits; it may give up early.
A request is a number of lines and bytes (`Total`), of one of six kinds.

Places without a step are threads that never get further: `cleanAgain` is the
second `clean_hander` after the page for a missing path (line 383) or in
`echo_code` after an empty POST (line 216), which waits for lines that do not
come; `left` is the return at line 350, which closes nothing: the request is finished
and its socket stays open, and its client never sees the end of the response.
`LeavesWhatFailed` counts it among the finished ones.

### 2.6 Sockets and the small TCP servers

`Sockets` has what all of them stand on: units of text numbered per client
(`sent`, `taken`), a queue of connections to be accepted (`backlog`), the table of
descriptors (`file`, at most `most`), and `server`, the state of the process.
`Reads`, `ReadsEnd`, `ReadsError`, `Writes` and `AcceptAs` are the system calls; the
servers' actions are made of them.

* `EpollServer`.  `entry` is the interest set, `edge` the descriptors that have
  something to report (edge-triggered), `evs` the events of a round.  `live` and
  `recfd` are the records allocated and the descriptor in each, `last` the record
  in main's one `epoll_event`.  `EpollAccept`, `EpollRead`, `EpollQuit`,
  `EpollReadFails` and `EpollWrite` are the branches of the loop.  After a read on
  anything but the newest connection (`mixed`) two descriptors share a record, and
  its first owner's leaving frees it for both: `server = "stray"`.
* `EventServer`.  `events` are the descriptors with an event, `active` what the round
  under way has still to call.  `OnAccept` and `OnRead...` are the two callbacks.
* `ThreadServer`.  `arg` is the record on main's stack, written field by field
  (`TsFillSock`, `TsFillPort`) while threads made for earlier connections may be
  reading it (`TakeSock`, `TakePort`).  `overtaken` is the history of that race:
  then two threads may serve one connection and none another.
* `EchoClient`.  Each client waits for a reply after every line; an empty write at
  the end of its input is waited for, too.
* `LineServer`.  Actions carry the name of the program, `Un...`, `One...`, `Oob...`.
  `sig` is SIGURG, pending, in its handler, or both; `Runs` says that main does not
  run meanwhile.  The newer of two urgent bytes replaces the older (`crowded`).

### 2.7 Programs at a terminal

* `Sniffer`.  `Select` chooses standard input before the socket, as the code's `if`
  and `else if` do; `ProcessPacket` counts and logs a frame.  `Frame` has what the
  code sees of a frame that it reads one byte late; `dump` is what was logged of
  it, as a range of the buffer.  The counters are never set to zero and start at
  what `malloc` found (`garbage`), behind a pointer's worth of memory.
* `UdpClient`.  `RecvData`, `ShowMessage` and `ListUser` are an iteration of
  `runOutput`, `CreateInput` and `SendLine` of main's loop, `HeaderTurn` of
  `runHeader`.  `Interrupt`, `SigIntSend` and `SigIntExit` are SIGINT in any of the
  three threads, with a handler that may wait for ever (`stuck`).  `flight` is the
  network towards the server, which loses and overtakes (`Arrives`, `GetsLost`);
  `known` is what the server remembers.
* `ChatClient`.  `Poll`, `LookAtSocket`, `LookAtKeys` with the world's steps between.
* `ControlScript`.  An action per command of the script, for each operator: a start
  launches httpd in the foreground and reaches `pidof` only when that has ended.
  An httpd that cannot bind does not end: `echo_code` (`httpd.c:60`) comes before
  `exit` and asks, by `get_line`, for a line of a socket that is not connected, for
  ever (lines 124-144).  So `holder` makes it an httpd like the other, which `pidof`
  finds, and only `bound` tells who has the port.  `rivals`, `ended`, `noted`,
  `overlap` and `shotOther` are histories.

## 3. What is checked

A property of a run is often the conjunction of named parts; the parts are given
in brackets.

| run | what it asks | bounds |
|---|---|---|
| `pool` | `PoolSafe` (`TypeOK`, `CountersExact`, `ListIntact`, `TasksOwned`, `NobodySleeps`, `DestroySafe`); are lost tasks and hanging shutdowns explained (`LossesExplained`: `StrandedBy`, `HungBy`, `DrainedOnDestroy`); is it a `TaskPool` (`ImplementsTaskPool`); does everything else come to its end (`PoolServes`)? | 4 tasks, `maxThread` 3, failing `pthread_create` |
| `pool_stranded` | does a queued task always have a thread? **no** | 3 tasks, `maxThread` 1 |
| `pool_hangs` | does `threadPool_destroy` return? **no** | 3 tasks, `maxThread` 1 |
| `chat_udp` | `ServerSafe` (`ServerTypeOK`, `SlotsAccounted`, `NoSlotRace`), what LOAD replays, who is served, is the ring a queue, when is the server stuck (`WedgedForever`), and only then (`ThreadsGoOn`: `PoolDrains`, `ProducerReturns`) | pool of 2 in a vector of 1 or 2, 2 addresses and ports, `KEY_MAX` 2, 4 datagrams |
| `room_safety` | array and connections one to one, the last text reaches everybody, nothing stale, no SIGPIPE | 4 clients for a room of 3, 2 lines, 1 failing read |
| `room_live` | `RoomServes` (`LeaversRemoved`, `InputRead`, `TextWritten`) | 2 clients, 3 lines, 1 failing read |
| `room_lost` | does every text reach everybody else? **no** | 3 clients, 2 lines |
| `weather_safety` | does a push find what it counts, whose are the holes, are all mailed? | 3 registrations, 1 push, 2 crawls of up to 2 days |
| `weather_lost` | is a registered address kept? **no** | 2 registrations |
| `http` | what does a finished request leave open, and is the output whole (`RequestSafe`: `LeavesWhatFailed`, `WholeOutput`), is each request for a program a `CgiCall` (`CallsInOrder`), what may kill the server, and does each request end (`RequestsEnd`: `ProgramsFinish`, `EndSeen`)? | 2 connections of any kind, body of 1 byte, 1 failing call |
| `servers` | `EpollSafe` and `EpollServes`, `EventSafe` and `EventServes`, `EchoSafe` and `EchoServes`, `LineSafe` and `LineServes`; is each of them a `FirstCome` (`FirstComeServed`)? | one of seven programs; 2 clients, 1 or 2 descriptors, 2 records, a buffer of 2, one client that sends 3 units and one that sends 1 |
| `terminals` | `SniffSafe` and `SniffServes`, `UdpClientSafe` and `GoneIsForgotten`, `ChatSafe` and `ChatServes`, `ScriptSafe`, `PageSafe` and `PageComes` | one program; 2 frames and 2 lines, counters modulo 2; 2 users, windows of 3 rows, 2 datagrams on their way; 2 texts and 2 lines at a time; 2 operators, 2 process ids; a body of up to 2 bytes |

What the conjunctions of some runs say:

* `LossesExplained`: a task is in the list without any thread only if a thread was
  never created or a signal found nobody (`StrandedBy`); `threadPool_destroy` waits
  with no thread left only for one that was never created or with tasks left
  behind (`HungBy`); when it returns, every thread it counted was created, and
  every task was run unless a signal found nobody (`DrainedOnDestroy`).
  `PoolServes` (`EveryTaskRuns`, `DestroyReturns`): under fairness every task is run and
  `threadPool_destroy` returns unless no thread is left for good.  It assumes nothing
  about timeouts, wakeups or `pthread_create`.
* `RequestSafe`: a finished request has left exactly the socket that line 350 leaves
  open, and the pipes it had opened when its own second pipe or its own fork failed.

* `EpollSafe` (`EpollTypeOK`, `OwnRecord`): until somebody other than the newest
  client is heard, a connection's events lead to its own, live record.
  `EpollServes` (`EpollHears`, `EpollAnswers`, `EpollCloses`): until then everybody
  is read to the end, written to, and closed.
* `EventSafe` (`EventTypeOK`, `EventPerConnection`, `EventEnds`): exactly the open
  connections have an event, although a round may close one descriptor and open
  it again; the loop ends for want of a descriptor only.
* `EchoSafe` (`ThreadTypeOK`, `TsOwn`, `EchoInOrder`, `KilledByFarewell`,
  `ReplyBelongs`): a thread serves the connection it was made for unless main
  overtook it, the echo is complete and in order, SIGPIPE needs a client that has left, a reply
  belongs to the line it is shown for while lines are shorter than the buffer.
  `EchoServes` (`TsServes`, `ReplyComes`): each thread reads on; a client gets its
  reply unless it sent nothing (the write at the end of its input), was refused,
  waits for a descriptor, or lost its thread to the race.
* `LineSafe` (`LineTypeOK`, `HeardInTurn`, `LineEnds`, `BlindHandler`) and `LineServes`
  (`TurnComes`, `UrgentRead`): one client at a time and to its end; which ends are
  the servers' own; what the handler of SIGURG reads and when it finds nothing.
* `FirstComeServed`: whichever server it is, clients are taken, or turned away, in
  the order in which they have connected, each is heard once, in turn and a buffer
  at a time, and none is let go with text unheard.  Records that lead to the wrong
  connection and threads that were led astray do not break this: they decide who
  reads and to whom the answer goes, not what is read.
* `SniffSafe` (`CountsAgree`, `DumpInOnePiece`): the total counts what the kinds
  count, modulo the width and from whatever `malloc` found; the parts of a packet
  that are dumped follow each other, each byte once, and for UDP and ICMP end as
  many bytes behind what was received as were skipped in front.  `SniffServes`
  (`PacketsRead`, `StarvedByEof`, `QuitEnds`): packets are read whatever is typed,
  and no more once standard input is at its end.
* `UdpClientSafe` (`UdpTypeOK`, `HeardAreListed`, `FriendsInRows`, `QuitIsLast`): users
  that have left stay listed, in the rows their turn gives them; behind the QUIT
  of an interrupted main nothing is sent.  `GoneIsForgotten`: then the server
  forgets the client, if nothing is lost or overtaken.
* `ChatSafe` (`OnlyLastRoundLost`, `KilledUnaware`, `LeavesWithServer`) and `ChatServes`
  (`TypedIsWritten`, `TextsShown`, `EndNoticed`): what is thrown away with a hang-up
  came since the last poll, and neither side of the loop starves the other.
* `ScriptSafe` (`NameNeedsRival`, `KillsOnlyServers`): every httpd, with the port or
  without, has a script waiting for it; there is no pid file, so that stop does
  nothing, until a server has ended that no stop killed; the file names a process
  only if, besides, two starts were on their way at once.  `kill -9` hits somebody
  else's process only if a server ended by itself after `pidof` had found it, or two
  scripts met at the file.
* `PageSafe` (`PrintedOnce`, `PageHoldsPush`): `fork` doubles the one line that main
  has left in its buffer, and no other; the page waits for the push.  `PageComes`: it comes.

Types.  The type invariants of `WeatherService`, `PollServer` and `HttpServer` are
proved for all constants (section 4), and no run repeats them.

Why the bounds are enough to meet the interesting cases.  *Pool*: with four
tasks and three threads a thread can leave and be replaced while the others wait
or work, and the list fills and empties twice; one thread at most and three tasks
are enough for the late worker of the two violations.  *UDP*: four datagrams are two rounds of a
ring of two and two rounds of the keys, with a LOAD among them; in a vector of
one the second put crashes.  *Room*: with four clients for three places one is
refused, or gets the descriptor of one that left; the entry that leaves can be
first, middle or last, and a fourth descriptor is used after a failed read.
*Weather*: two registrations are enough to lose one; the third gives a hole
below a full number; two crawls differ in their number of days.  *HTTP*: two
connections are enough for one to fork inside the other's window, and one byte
of body enough for a program to wait for it; all pairs of the six kinds are
initial states.  *Servers*: with two descriptors both clients are connected and
events of one round concern both; with one the second is refused, waits, or gets
the descriptor of the first; three units need two reads of a buffer of two; one
client that sends again after the other connected is enough for the races of
`epoll_server.c` and `tserver.c`.  *Terminals*: windows of three rows come round
with the second user and show one stale row; two datagrams can overtake each
other; two lines after one poll show which branch comes first; counters modulo
two overflow.

Deadlock is checked for the pool.  The other programs stop on purpose in the
models when the clients have done all they may do, so `CHECK_DEADLOCK FALSE`
there.

Symmetry is used only in runs without temporal properties beyond refinement of
safety, and only over identities no property tells apart.

### Fairness

* `ThreadPool`: `WF` of each worker's steps and of `DestroyResume`: threads that
  hold or can take the mutex run, and tasks return (`mytask` sleeps a second).
  Nothing is asked of timeouts, spurious wakeups or the caller.  In particular a
  worker whose wait timed out may have the mutex again as late as it likes, so
  that neither `EveryTaskRuns` nor `DestroyReturns` holds by itself: `PoolServes`
  excepts the state in which no thread is left, and nothing else.
* `UdpServer`: `WF` of the steps of each of the two threads; a failing `sendto`
  and the arrival of datagrams are not fair.
* `PollServer`: `WF` of the server's one thread; nothing is asked of clients.
* `HttpServer`: `WF` of each thread and of each program, as the kernel schedules
  them; nothing is asked of clients.  A client that stops in the middle of its
  body keeps its program alive, and with it the copies that program has of other
  requests' descriptors.  Therefore `ProgramsFinish` and `EndSeen` except
  the request whose output pipe, or socket, a starved program holds for ever;
  without that exception TLC refutes both, which is the code's behaviour (no
  descriptor is close-on-exec).
* `MCServers`: `WF` of the main thread of the program chosen and of each thread of
  `tserver.c`.  Nothing is asked of clients, but that those of `pthreadServer/client.c`
  read a reply that has come.
* `MCTerminals`: `WF` of the steps of the program's thread, of the page's processes
  and the server that reads it, of `SigInt_Fun` once it runs, and of the network,
  which delivers the oldest datagram unless it loses it.  Nothing is asked of users,
  servers or senders.  The push that `weather_show` starts is assumed to end.
* `WeatherService`: no liveness; every process may die anywhere.

### Findings

* `pool_stranded` (code): a worker whose wait timed out still counts as idle; it
  swallows the signals of two calls of `threadPool_addtask`, runs one task and
  leaves, and the other task has no thread (`thread_pool.c:55,101`).
* `pool_hangs` (code): such a worker leaves as the last one after `threadPool_destroy`
  has begun to wait, by lines 55-60, which do not signal; it waits for ever
  (`thread_pool.c:55,135`).
* `room_lost` (against `chat/项目简介.txt`): two texts read in one round of
  `poll` share `tmpbuf`, and the first is lost (`server.c:205`).
* `weather_lost` (against `weather_server/README.md`): two registrations read the
  same `UserCount`, and one address overwrites the other (`register.cpp:49`).

## 4. What is proved

All theorems hold for every value of the constants under the assumptions named
in the modules (`PoolAssumption`, `MessagePoolAssumption`,
`UdpServerAssumption`, `PollServerAssumption`, `StackAssumption`,
`WeatherAssumption`, `HttpAssumption`, `SocketsAssumption`, `EpollAssumption`,
`UdpClientAssumption`, `ChatClientAssumption`, `ControlScriptAssumption`,
`SnifferAssumption`, `WeatherShowAssumption`), which say no more than that bounds
are numbers of some size, null values are no values and a pointer has 4 or 8
bytes.

* **ThreadPool** (`ThreadPoolProofs`).  `PoolSafe` is inductive as it stands, and
  its parts are inductive together only: `idle` and `count` decide what the caller
  does, so exactness is needed for the list's owner and for shutdown.  The
  counters are related to sets of workers by lemmas on the cardinality of a set
  when one worker changes place.  `Refinement`: each step is a step of `TaskPool`
  or stutters.  The other four theorems
  assume nothing of timeouts and of `pthread_create`: `TasksHaveWorkers`,
  `DestroyHangs`, `DestroyDrains` and, together, `LossesAreExplained`.  Behind the
  first is `Staffed`: until a thread was not created or a signal found nobody
  (`Sound`), a list that is not empty has a worker that will look at it (`Ready`),
  and a full pool has one that is not about to leave (`Staying`), so that line 101
  may rely on `idle` and `count`.  Behind the second is `Awaited`: whoever makes
  `count` zero without a signal does it with a task in the list.
* **MessagePool** (`MessagePoolProofs`).  `PInv`: types and `SlotsAccounted`, which
  ties the semaphores to the distance between the two indices.  `NoRace` follows,
  since equal indices would need a full or empty ring.  `RingRefinement` maps the
  slots between the indices to the queue's sequence.
* **UdpServer** (`UdpServerProofs`).  `ServerUsesPool`: every step of the server is a
  step of the pool or leaves it alone; what LOAD puts is a message, by an
  invariant on the keys stored.  Hence `ServerQueue` and `ServerIsSafe`: the pool's
  theorems hold inside the server.  `OnlyOneReceiver`: while nothing was
  disturbed, everybody served is the node the iterator is at.  `ReplaysLatest`
  needs that the keys in `session` are its indices modulo `KEY_MAX`
  (`KeysCycle`), so that the latest use of a key is at most `KEY_MAX` places from
  the end.  `StaysWedged`: no action is enabled that changes `Wedged`.
* **PollServer** (`PollServerProofs`).  `RoomInv`: types, `Connected`, `Waiting` and
  `ResetsAreSeen`.  The last one is the argument for `ServerSurvives`: a
  connection that was reset without its error still on the socket is one the
  round has passed or has in its snapshot as hung up, so the branch that writes
  is never reached for it.  `TextInv` relates the entries that ask for `POLLOUT`, the
  texts owed and the one buffer: it gives `LatestIsNotLost` and `NobodySeesThePast`.
* **WeatherService** (`WeatherServiceProofs`).  `CrawlInv` (the dates written so far
  are there) gives `ForecastsThere`; `NumbersInv` (a number below `UserCount`, or
  below what a registration has read, has an address or somebody who owns it)
  gives `HolesAreOwned`; `SerialInv` and `PushInv` give `EveryoneMailed`.
* **HttpServer** (`HttpServerProofs`).  `HttpInv` says, per connection, which of its
  descriptors are in the table at which place and after which failure (`TableOf`),
  how far an unknown method gets (`UnknownOf`) and what its program is doing
  (`ProgramOf`).  They speak only of what carries the connection's own
  name, so a step of another connection leaves them alone (`OthersUntouched`,
  `UntouchedKeeps`): the copies that other programs hold delay the end of a pipe
  and cannot bring it forward.  The theorems are `OnlyWhatFailedIsLeft`, `OutputIsWhole`
  (together `RequestsAreSafe`) and `KilledOnlyFromOutside`.
  Refinement: `CgiRefinement` shows the server to implement `CgiCall`, in which
  there are no descriptors.  A call's phase is the state of the program, with
  "told" between its end and waitpid (`Phase`); a connection is closed when its
  thread is done.  `OrderOf` adds what the table does not say: the whole body is
  fed before the first read of the output, only a POST is fed, and nothing is told
  of a program that has not ended.  Every step of a thread, a program or a client
  is then one step of a call or none (`ForkCall`, `FeedCall`, `RelayCall`,
  `WaitCall`, `ProgramCall`, `CloseCall`; `ServingCall` and `EndsCall` for those
  that are none).
* **The small TCP servers** (`ServerProofs`).  Lemmas about the system calls of
  `Sockets` come first: each keeps types and leaves other clients' connections
  alone.  `OneEventEach`, `RecordsApart` and `ThreadsServeTheirOwn` rest on the
  descriptor table: a client is in one place, the backlog or one descriptor
  (`Once`), and an event, a record or an unread argument stays with it as long as
  the descriptor is open.
  `EchoesInOrder` adds, for each thread that was not led astray, what its buffer
  holds (`Tidy`): between a read and its write exactly the units read and not yet
  echoed.  That a connection is dead then counts the reads of its thread, which
  is why SIGPIPE needs two.  It also needs that the connection main is filling in
  has no thread yet (`AtNew`).  `RepliesBelong` composes this with the clients:
  a client waits with at most one unit unanswered (`Answered`), a step of the
  server leaves what clients know alone (`ServerLeaves`), and a reply cannot bring
  more than was sent, which is what makes one read of the client enough.
  `OneAfterTheOther`: `LineSafe` is not inductive.  `LineInv` adds whose turn it is
  (`Turned`: the newest descriptor is the server's, everybody behind an older one
  is gone), that the descriptors are used up without gaps (`NoGap`), what a
  pending or running handler will find (`Signals`) and how the server got to its
  end (`Ended`).
  Refinement: `EpollFirstCome`, `EventFirstCome`, `ThreadFirstCome`, `EchoFirstCome`
  and `LineFirstCome` show each server to implement `FirstCome`.  Where a client is,
  is read from the connection, the backlog and the descriptors (`Situation`);
  lemmas map `connect` to `Arrive`, `accept` to `Admit`, or to `Refuse` if it drops the
  connection, a read to `Hear`, the last `close` to `Leave`.  All else stutters.  The
  servers that close need that nobody who is still connected was seen out
  (`Welcome`); for `tserver.c` it is enough that a thread's descriptor is some open
  one, not that it is its own.
* **Programs at a terminal** (`TerminalProofs`).  `LeftAreListed` needs arithmetic on
  the rows: the row that comes round (`step_f`) and the k-th before it are
  different modulo the height of the window, so that a user written into a row
  replaces the oldest only.  `LossIsRecent` is about what main knows from its last
  poll; `ScriptStopsItsOwn` about which operators stand between a test and what
  they do on it (`Apart`), that the starts just wait until a server ends (`Unended`),
  and that what is noted of a server is up to date until one ends that was noted
  (`Fresh`).
  `CountsAndDumps`: the distance of the total from the sum of the kinds is invariant
  modulo the width of the counters, which takes lemmas on `%` for the two counters
  of a packet, either of which may wrap round; what is dumped is, as long as there
  is something, what `Log` gives for the last frame, and that is `Joined`, each piece
  from where the one before ended.  `EofStarvesSocket` is the action property of
  `SniffServes`.
  `PageIsComplete`: that no line is doubled says nothing of the buffers the lines come
  from.  `PageInv` says what is left in the buffer of either process (`MainKeeps`,
  `ChildKeeps`), and of page and pipe together that each line but "Begin Push" is
  there once, which lines can be there by now (`MainSaid`, `ChildSaid`), and how often
  "Begin Push" is (`Begun`), as functions of where the two processes are.
  Lemmas on concatenation (`ConcatPlaces`, `WrittenBehind`, `BeginsBehind`) say what
  flushing a buffer adds.

Every safety property of the passing runs is proved.  Only model-checked: liveness
(`PoolServes`, `ThreadsGoOn`, `RoomServes`, `RequestsEnd`, `EpollServes`, `EventServes`,
`EchoServes`, `LineServes`, the leads-to parts of `SniffServes`, `GoneIsForgotten`,
`ChatServes`, `PageComes`), which needs fairness and `ENABLED` and is out of the
prover's reach; and what the four runs with a violation show.  No module declares a
`RECURSIVE` operator.

## 5. Not modelled

Within the modelled components:

* Thread pool: a second calling thread (`main` is the only one); `malloc` failing.
* UDP chat: a lost redis connection (an assert ends the process); a datagram too
  long for the buffer; races of three threads inside curses; the conversion to
  JSON, which is a library's; the tail of a longer text that `mvwaddstr` leaves in a
  row; a second SIGINT while the handler runs in another thread.
* TCP chat: the prefix `User<n>:` and the missing terminating zero (a text of
  1023 bytes is copied to offset 6 of 1024 bytes, `server.c:203`); that the
  room has 5 places (`USER_LIMIT`) where `chat/项目简介.txt` gives 10 as the limit; that `users`
  has `USER_LIMIT` records but is indexed by descriptors, which start at 4
  (`server.c:138`); that `events |= ~POLLIN` never clears anything and `poll`
  returns at once for ever after the first forwarded text (the model repeats
  `Poll` and `Skip`, which no property forbids); clients that do not read.
* HTTP: texts, paths and sizes (for a directory, the size of the directory is
  sent of its index, `httpd.c:409`); `PrintLog`, which ends the server when `./log`
  is missing; a line longer than the buffer; that `get_line` spins, not waits,
  at the end of the input (`httpd.c:124`); pipes that fill up, in either direction.
* Weather: errors redis answers, which `SetData` reports as success
  (`redis_api.cpp:36`); mail the server refuses, which is not tried again
  (`ShowWeather.py:26`); that a push may mix the days of two crawls.
* Small TCP servers: failures of `malloc`, of `epoll_ctl` and of the event library;
  what happens after a store behind a buffer or through a freed record
  (`server = "stray"` ends the behaviour).
* Sniffer: the text of the log.
* Control script: `configure.sh`, `build.sh` and `Awk.sh`, which write a Makefile and
  copy files.

Components not modelled: the copies of `http/` in `weather/` and
`weather_server/` are the same files, byte for byte; `weather/` is
`weather_server/` before users could register; the crawler's spider picks texts
out of a page, and what it hands to the pipeline is an input of `WeatherService`;
the database programs are straight-line calls of client libraries, and the shell
exercises are exercises in syntax.

## 6. Plan

Modelled and checked: every component with state of its own.  What is left, in the
order of its worth:

1. Abstract specifications: a chat room (everybody is told once) and what
   `PollServer` implements of it.
2. `UdpClient` composed with `UdpServer` over its network, in place of the one bit
   the server remembers of the client (`known`).
3. `WeatherShow` composed with the push of `WeatherService`, two pages at once.
