# Verification of sphinx-http-api

TLA+ models, TLC runs and TLAPS proofs for the HTTP proxy in `src/`: a C++ server
that accepts HTTP connections, hands each to a pool of worker threads, and lets the
workers query searchd through libsphinxclient; and for the style checker `cpplint.py`, which
`make check` runs over these sources.

## The system

    main / service()          one thread: epoll, accept, AddTask; then the shutdown
       | AddTask(task)
    CThreadPool               mutex + condition variable, task list, m_min..m_max threads
       | task->Run()                        | exit callback release_sphinx_client(tid)
    SimpleWorkTask::Run       one connection: read, http_handler, write, while keep-alive
       | search(), deal_status_handler()
    g_sphinx_client_map       one sphinx_client per worker thread, under its own mutex
       | settings, query, answer over a persistent connection
    searchd                   another process; may be slow, silent, or close at any time

| component | state | operations | what is hard |
|---|---|---|---|
| thread pool (`libthreadpool/CThread.cc`) | task list, idle and busy vector, `m_thread_num`, mutex, condition; per thread `doing`, `task`, `tp` | `AddTask`, `Create`, `ThreadFunc`, `MoveToIdle`, `MoveToBusy`, `MoveOutIdleThread` | a wait that is not in a loop, a deadline, an unlocked check before a thread leaves, unchecked `erase(end())` and `pthread_create` |
| client pool (`src/main.cc:256-353`) | `g_sphinx_client_map`, its mutex, the clients | create, get, release, close all | clients used outside the mutex, `pthread_t` used again, connect under the mutex, two mutexes nested, shutdown with running workers |
| search session (`main.cc:359-484`, `libsphinxclient`) | settings left in a client, its socket, bytes in flight | `search`, `sphinx_status`, `net_connect_ex`, `net_get_response` | leftovers of earlier requests, a protocol without request numbers, connections that end at any time |
| buffer (`src/buffer.c`) | block, pointer, `misalign`, `totallen`, `len` | add, printf, read, write, drain, remove, readline, add_buffer | growth, alignment and exchange of blocks in any order, no memory |
| connection loop (`main.cc:807-987`, `1113-1173`) | in and out buffer, keep-alive | `Run`, `http_handler` | segments and blocks of 4096, partial writes, errors in the middle |
| accept loop (`main.cc:1186-1353`) | listening descriptor, epoll, `g_running` | `service`, `accept_conn_cb`, `response_busynow` | edge-triggered events, signals, errors of accept, descriptors closed twice |
| instance (`main.cc:1042-1090`, `1356-1474`) | pid file, signal handlers | start, daemonize, stop | steps that fail, a file left by a crash, two starts at once |
| log (`liblog/log.cc`) | `_fp`, `_log_buf`, size, number and index of files; the files | `WRITE_LOG`, `_write`, `shift_files` | threads without a lock, rotation, files of earlier processes |
| query parameters (`src/sphinx_query_data.h`, `main.cc:130-245`) | none | parse, check | counts and defaults |
| style checker (`cpplint/cpplint.py`) | options, suppressions, counts; per file the function, the stack of classes, the includes | `main`, `ProcessFileData`, `ProcessLine` and its checks | state carried from line to line and file to file, searches for a closing bracket, text that is not laid out as expected |

What makes them correct:

- pool: a task starts once, in order, and is served unless all threads are busy; the
  vectors, counters and flags agree; threads leave only when idle; `m_min` of them stay.
- client pool: a client is used by its own thread only, none leaks or is used after it
  was destroyed; the pool is not blocked for ever; shutdown closes everything.
- session: the answer that a request gets is its own; a query has its own settings.
- buffer: a queue of bytes, inside its block.
- connection: every complete request is answered once, whole, however it is cut.
- accept loop, instance: no connection stays in the queue of the socket, a signal stops the
  server, the pid file is there while it serves and gone when it ended.
- log: every line that was written is in a file until that file is removed for its age; no
  rotation covers a file.
- style checker: an error is printed if and only if the options and the comment on its line
  say so, and counted once; what a file is told depends on that file only; a run ends.

`PROJECT.json` lists the components with their status and every hazard at its line.

## Modules

| module | models | state and actions in the code |
|---|---|---|
| `TaskQueue` | what the pool promises | accept, refuse, start, finish |
| `ThreadPool` | `CThread.cc`, whole | a section under `m_pthreadMutex` is one action; what a thread does after unlocking is an action of its own |
| `SphinxClients` | the client pool, composed with `ThreadPool` (EXTENDS) | what `Run` does with clients while a thread is at `run`, the exit callback at `exitcb`, main's shutdown |
| `SearchSession` | one worker's requests, client settings and connection, with searchd and the clients' mutex | one action per step that can fail, wait, or that searchd can come between |
| `Connection` | `Run` and `http_handler` for one connection, with its client and the network | a `recv`, a call of `http_handler` up to its answer or to its question to searchd, that question's end, a `write`, the end of the loop |
| `Log` | `log.cc`, whole | formatting, printing, counting, each number that `shift_files` tries, `remove`, `rename` and `open` are a step each, of threads that nothing orders |
| `Instance` | `main`, `service`, the pid file, signals, the mutexes that `main` can come to wait for | one action per step of `main` that can fail, wait, or that a signal can come between; clients, workers, signals and kills |
| `LintText` | the text in `cpplint.py`: comments and strings blanked, brackets matched | operators |
| `LintScopes` | `_FunctionState`, `_ClassState` | operators from a state and a line to the next state and the errors |
| `LintIncludes` | `_IncludeState`, kinds of headers, include-what-you-use | the same |
| `LintRules` | the checks without a state, and those of a whole file | operators that give errors |
| `CppLint` | a run of the checker | an action for the options, for the start of a file, each of its lines, its end, and the exit |
| `ByteQueue` | what `buffer.h` promises | add, take, take a line, move, fail |
| `Buffer` | `buffer.c` | one action per function that changes a buffer |
| `MC...` | symmetry sets and small inputs for TLC | |
| `ThreadPoolProofs`, `SphinxClientsProofs`, `BufferProofs`, `SearchSessionProofs`, `ConnectionProofs`, `InstanceProofs`, `CppLintProofs`, `DataInduction` | proofs | |

An operator with the comment "Mistake" is a variant of the definition after it with a
plausible bug in it; no specification uses it. Replacing the definition by it breaks
the property named with it in `PROJECT.json`.

### ThreadPool

`pc` says where a thread is in `ThreadFunc`: `top` (131), `wait` (139), `woken` (the wait
returned, the mutex is to be had again), `run` (168), `check` (179-186, without the mutex),
`exit` (187), `exitcb` (43, with the mutex), `none` (no thread). The variable `mutex` is
only ever held between steps by a thread whose exit callback runs, because that
callback waits for another mutex; all other sections are one action. `expired` stands
for `time(0) >= tp.tv_sec`: it becomes true at any time and false when `tp` is set anew, so
that no bound on time is needed. `pthread_create` may fail, at most `MaxCreateFail` times;
its entry in the idle vector is then nobody's (`phantoms`). A thread identity is used
again after its thread ended. `m_before_run_task_cb` and `m_after_run_task_cb` are NULL in
this program. A constructor argument is any natural number, `m_min > m_max` too.
The vectors are sets, since no code depends on their order.

### SphinxClients

Every step of the pool is a step of the composition. A worker's place `at` follows
`get_sphinx_client` (`get`, `connect`, `greet`), the query, and `release_sphinx_client`
(`release`, `destroy`, `report`), which also runs as the exit callback. Addresses of
clients are used again after `sphinx_destroy`. main is followed up to
`close_all_sphinx_client`; what workers do after `delete gp_thread_pool` is undefined.

### SearchSession

Requests are numbered; a setting is represented by the request that made it, a message
by the request it answers. `up` is the command that searchd has, `wire` what it sent.
searchd answers each command once, in order, with a good response, an error, or one that is
longer than `MAX_PACKET_LEN`; it may close the connection in any state, also in the middle
of an answer. The answer to the status command is short. `net_write` may succeed although
the other end is closed.

Connecting ends with searchd's version, which `net_read` waits for without a timeout
(`sphinxclient.c:1453`, `1318`): the places `greet`, with `g_sphinx_client_mutex` locked, and
`regreet`, when a connection is opened once more. `held` says that another worker has that mutex
(`main.cc:277`); what that worker does is the matter of `SphinxClients`. That
the worker's thread may end between two requests is part of `SphinxClients` too:
the next client is then a new one, as after a failure.

A request has what it `gives`, its defaults among it, and what of that `search` `skips`, as the
code has it: ids from 0, times and retries of 0, a grouping without its function, and the weight
of a single field, since `sphinx_query_data.h:256` counts the commas. `weights` stands for the
weights that are made, of all the fields but the last. A filter for which there is no memory
only ends the loop over the filters (`main.cc:385`, 391, 397): the search goes on without it
(`FilterRefused`). If `realloc` fails when there are filters already, `client->filters` is NULL
and `num_filters` is not 0, and the process ends in `calc_req_len` (`FiltersLost`, place `dead`).
`Optional` bounds which settings the requests of a run may leave out, `Skippable` those that they
may give in vain.

### Connection

A client's requests are one stream of lines, cut into segments anywhere; the unit is a line,
and half of the line that begins a request, so that a line is complete in `inbuf` or is not.
Other lines are not cut: half a header is not seen by `buffer_readline`, as if it had not
arrived, and its other half is a line with too few words; that the tail of a header may look like
a request line of its own is not in the model, nor in what `ServesRequestsOnce` says.
Lengths, `Block` for 4096 among them, count these units. `wire` is what the socket
holds; a client may leave, or reset the connection, at any time. The requests of `polite` clients
each arrive in one piece, which TCP does not promise even to a client that sends them so, and come after
the answer to the one before; the others arrive as they like. A `/search` or a `/status` waits for
searchd and for the clients' mutex, neither with a timeout: the place `ask`. It ends, if it does, well
or not, as the data would have it; `SearchSession` says more. An exception leaves no
answer (`Throw`). Reading a pointer that was never set (`http_request_free` after a request
without a line) goes well or ends the process, and so it does in the model. `inbuf` is its
bytes, which is what `BufferProofs` shows of a buffer.

### Log

A line is a number and sizes are counted in lines; the names are numbers, the log's own name is
`Current`. `fp` follows its file through a rename, and is `Unlinked` when its file was removed.
`buffer` is what stdio has not yet handed to the system: `Flush` does so at any time, `fclose`
does or fails to, which nobody looks at, the end of `main` does, a kill loses it (`lost`).
`logged` are the lines whose `fprintf` succeeded, `removed` what the rotation threw away. The
constructor knows nothing of the files that are there, as in the code; `older` is what it finds.
`fprintf`, `fclose`, `remove`, `rename` and `fopen` may fail; after a failed `rename` or `fopen`
the log stays closed (nothing opens it again), after a failed `remove` the count is lowered all
the same (`log.cc:113-114`). `_log_size` is never reset and wraps beyond `IntMax`. The lock that
`log.h:64` declares is never taken, so the steps of the threads come in any order; each increment
of an `int` is one step. A thread that calls `fprintf` with a `_fp` that is NULL by then ends the
process (`PrintClosed`). What else may become of a `FILE` that one thread closes while another is
inside of a call with it is undefined and not in the model, except as the `Crash` that can come at
any time. `MaxLines` bounds the lines over all processes.

### Instance

`at` is where `main` is. `edge` is an event of epoll that was not fetched: with `EPOLLET` it comes
with an arrival, once. `conn` says where a connection is; what happens to one that was handed to
the pool is the other modules' matter, but for the two waits that reach `main`: `greeting`, a
worker that reads searchd's greeting with `g_sphinx_client_mutex` locked (`main.cc:277-293`), for
which `close_all_sphinx_client` waits at `free` (`main.cc:339`); and `leaving`, a thread that has
the pool's mutex in its exit callback and waits for that one (`CThread.cc:43`, `main.cc:310`), for
which `AddTask` waits at `add`. `SphinxClients` has the same waits in detail. One `greeting` and
one `leaving` are enough, since each stands for a mutex. A signal sets `running` at any point once
the handlers are there; a kill or a crash ends the process at any point, one in a call of the log
among them. The log is a module of its own: no call of it waits for another thread. Starts follow
each other: of two at the same time both can pass `access` before either writes the file, and the
loser of `bind` then deletes the winner's file (`main.cc:1071-1076`, `1293`, `1460`); that is seen
from the code and not modelled. Descriptors have no numbers here, so that the second `close` of
`listenfd` (1335, 1344, then `CLEAN`) has no effect; in the program it may hit a descriptor that a
worker was given.

### CppLint and the Lint modules

A line of a file is a sequence of tokens: words, the punctuation that the checker counts, and
blanks at the start and the end. A path, a category, a NOLINT token is what the program makes of
its text, given by functions (`PathOf`, `Nolint`, `GuardOf`, ...). Loops over lines are recursive
functions or folds, so that the module can be reasoned about. `Covered` follows the code in what a
NOLINT is: one inside a comment of several lines was blanked and has no effect, but for the lines
of the header guard, which are read before (the file `hidden`). An error is its category,
confidence and line, without its wording. `CppLint` goes through a file as `ProcessFileData` does;
`ProcessLine` is one action, with all its checks in their order. `pc` is also `crashed` when an
exception leaves `main`, and `hung` in the loop of `CheckBraces` that makes no progress. The state
of a file is made anew at `StartFile`, the suppressions are reset there. The model's errors were
compared with those of `cpplint.py` itself on some 3900 generated and written files: they agree in
every category that is modelled.

### Buffer

A block is a function from 1..`totallen` to bytes or `Junk`. `Junk` is what `realloc`
returns and what was drained; it must never be seen. `off` is `buffer - orig_buffer`.
Sizes are natural numbers: the wrap of `size_t` is not modelled.

## Runs

| run | bounds | shows |
|---|---|---|
| `pool_elastic` | 1..3 threads, 5 tasks, list of 3, one failed create | type, `Membership`, `Accounting`, `WakeupsCoverQueue`, `TasksInOnePlace`, refinement of `TaskQueue`, `LeavesWhenIdle` |
| `pool_fixed` | 2 threads (`m_min = m_max`), 4 tasks, one failed create | liveness `ServedUnlessAllBusy` |
| `pool_stranded` | 1..2 threads, 4 tasks | violation of `ServedUnlessAllBusy` |
| `clients` | 1..2 threads, 3 tasks, 2 addresses | type, `OwnClient`, `NoLeak`, `NoStaleEntry`, liveness `PoolUnlocked` |
| `buffer` | 2 buffers of at most 3 bytes, 3 byte values, blocks from 2 cells | type, `InBlock`, `NoJunk`, refinement of `ByteQueue` |
| `session` | 3 requests, 2 optional settings, 2 that may be given in vain | type, `OwnSettings`, `AnswersItsRequest`, liveness `StuckOnlyOnSilence` |
| `connection` | 12 clients with two requests, blocks of 5 units | type, `AnswersInTurn`, `ServesRequestsOnce`, `KeepsItsWord`, liveness `PeerGoneEnds`, `PoliteServed` |
| `connection_crash` | the same | violation of `HandlerSurvives` |
| `instance` | 3 connections; any number of starts | type, `PidTellsRunning`, liveness `StopsOnSignal`, `AllAccepted` |
| `log` | 2 threads, 4 lines, files of 1 line, one old file kept, sizes to 2; any number of starts | type, `OlderFilesKept` |
| `log_threads` | 2 threads, 4 lines | violation of `LinesKept` |
| `lint` | every file of four lines about includes, classes or functions, and twelve longer ones; triggers of 1 and 2 lines, a small class of 2 | type, `PrintedExactly`, `CountsAgree`, `ClassesAreOpen`, `IncludeOrder`, `LongFunctions`, liveness `EveryFileLinted` |

Why the bounds are enough. Two threads that pass the unlocked check together need `m_min + 1`
threads; a third lets one be created while another leaves. A list of three tasks and one thread is
the smallest for which `AddTask` creates threads. The fifth task meets a full list, and the first
use of an identity that ended. In `clients` two threads are enough for two that want the mutex and
for one that leaves while the other opens; three tasks for a client that is used again, one that
is released after a failure and one that is left to the exit callback; two addresses for one that
is used again. No identity starts again within these bounds: three tasks make the pool no thread
anew, and for that case there are the theorems about `OwnClient`, `NoLeak` and `NoStaleEntry`.
With `MinAlloc = 2` and three bytes a block grows twice, is aligned with and without growth, and
is exchanged; `MinPrint = 1` lets the first room of `buffer_add_vprintf` be enough or not. Of the
settings that a search of `session` may leave out one is cleared (`filters`) and one stays
(`weights`); of those that it may give in vain one is among them and one is given by default
(`retries`); limits, retries and the sort mode may be refused, so that a search ends before,
between and behind the others; three requests allow a leftover, a failure between, and a new
client. Of the first requests in `connection` one is longer than a block, one as long, two
shorter; with the second ones there are complete and incomplete headers, both versions, and every
path. Two requests are enough for one to be taken for a part of the other. In `instance` two
connections can arrive for one event, one between the last accept and the next wait, and one more
while `main` stands; one that the pool has lets its worker wait for a greeting meanwhile. In `log`
every line is followed by a rotation, the second one removes a file, two threads can be inside of
one at once, a restart finds files whose numbers the new process does not know, and the third line
of a process overflows the size. In `lint` four lines are enough for a class head, its brace, a
member and the end; for a header of one's own, one of the system after it, and two that are out of
order on either side; and for a function that is too long followed by a second brace. Each kind of
file is also followed by another in the same run. What the bounds cut off, the proofs cover for
the safety properties they are about.

`CHECK_DEADLOCK FALSE` is set for `pool_elastic` and `pool_stranded`, where all tasks can be
used up and all threads gone; and for `lint`, whose runs end.

### Fairness

`ThreadPool`: weak fairness of each thread's own steps and of the passing of time for it; the
mutex is held over several steps only by a leaving thread, whose next step needs nothing. Tasks
need not finish (`FinishTask` is not fair) and nobody needs to add any. `SphinxClients`: the same
for the workers' own steps; `select()` has a timeout, so that the step from `connect` is fair;
nothing that needs searchd is fair, because `net_read` has no timeout. `SearchSession`: the
worker's steps are fair as one action, since a single thread takes them in sequence and each is
enabled until it is taken or gives way to another one; nothing that searchd does is fair, its
version among it, nor is another worker's unlocking of the mutex. A worker that finds the mutex
free, but somebody else's whenever it looks, is therefore excepted by `StuckOnlyOnSilence`, with
the one that waits for searchd. `Connection`: the worker's steps are fair, but not `Asked`, the
end of a question to searchd, and a write is fair only once the client is gone (it fails), or when
the client is polite and takes its answer. Nobody needs to send or to leave. `PeerGoneEnds` and
`PoliteServed` speak of runs in which each question comes to an end. `Instance`: `MainStep`, which
is what the main thread does next, is fair, and so is a leaving thread's next step: threads are
scheduled, and `epoll_wait` returns after a second at the latest. `AddTask` is strongly fair: only
leaving threads hold the pool's mutex for long, and while `main` waits for it no thread is made
that could leave after them, so that it is not taken away for ever. `Free` is not: other workers
may have the clients' mutex again and again. The greeting is not fair. `StopsOnSignal` and
`AllAccepted` therefore except `Stands`: `main` behind a worker that reads a greeting, at `free`
or, with a thread leaving, at `add`. No error has to happen, nobody needs to connect, to send a
signal, to kill or to start. `CppLint`: a sequential program, whose one process is scheduled; weak
fairness of `Next` is written out, as `Ended` or a step infinitely often.

### What was found

- `pool_stranded`: `m_thread_num > m_min` is read without the mutex
  (`CThread.cc:186`) and not read again after locking. Two threads can both leave where one
  should; a task accepted in between has no thread, while `AddTask`'s comment (line 93) promises
  one. With `m_min = m_max`, as in `etc/proxy.ini`, it cannot happen (`pool_fixed`). For the same
  reason `m_thread_num` can fall below `m_min`, against the comment on reserved threads (192).
- `log_threads`: `log.h:7` says that the log supports several threads; its lock is never taken
  (`log.h:64`). A line that was formatted into the common buffer is overwritten by another
  thread's before it is printed (`log.cc:24-39`, `80`).
- `connection_crash`: the rest of a request whose headers came in two segments, or a request whose
  first line is not complete, can end the process in the parser (`http.c:48`, `http.c:295`), while
  the comment at `main.cc:805` says that `http_handler` fails only if the system does.

`PoliteServed` excepts requests that are whole blocks long (the loop at `main.cc:1146` waits for
more) and, with `AnswersInTurn`, clients whose requests arrive otherwise than in one piece: such a
client can get two answers to one request, or none to the second of two. No document speaks of
either.

More disagreements of document and code are not runs of their own.

- After a failed query the text of the exception, which the comment at `main.cc:357` promises, is
  read from the client that was destroyed two lines before (`main.cc:479-481`): the place `report` of
  `SphinxClients`, which `OwnClient` excepts, since by then another thread may have the address.
- The description of the interface (`web/sphinx_http_proxy_useage.txt:61`) has `fieldweights` set the
  weights of fields. The code counts the commas (`sphinx_query_data.h:256`), so that a single
  weight is not set (`main.cc:417`), and those of an earlier request stay; of several the last one is
  lost. `SearchSession` follows the code, and `OwnSettings` says what is then in the query.
- The timeout that the comment at `main.cc:264` names does not cover the read of searchd's version
  (`sphinxclient.c:1453`), during which the mutex of all clients is locked: that is the wait which
  `PoolUnlocked` excepts.
- `close_all_sphinx_client` (comment at `main.cc:337`) runs while workers do, which open clients
  after it (`main.cc:1461`); `OwnClient` and `NoLeak` speak of the time before.

`EveryFileLinted` excepts what `cpplint.py` does not end on, or ends on with an exception: an indented
row of a table as the first text of a file (2054-2059), an `else if` whose parenthesis is never
closed (995-997; the docstring at 975-981 has a result for it), and a filter without a sign (541-544).
`PrintedExactly` excepts the error about a comment that never ends: it is placed one line too
far, and comes before the NOLINT of that line is read.

After a restart the log's numbering begins at 0 again, fills gaps and removes by number: files of
earlier processes may stay for ever, and newer ones go first (`log.cc:105-119`). `max_log_num` is
no bound on the files: `remove` may fail, and its count is lowered anyway. A process alone covers
no file; two threads that rotate at the same time can choose one number and cover each other's
file, but never one that was there when the process began, which is what `OlderFilesKept` says. A
signal that comes before `g_running = true` (`main.cc:1305`) is forgotten, which is why
`StopsOnSignal` begins in the loops. Any error of `accept` but `EAGAIN` and `EINTR` ends the
service (1331-1339), also one that is the client's. While searchd is silent in its greeting the
program may neither accept nor, after a signal, end: `AllAccepted` and `StopsOnSignal` except it.

`OwnSettings` states what a query is sent with: each setting that the request gives, unless
`search` passes over it, is its own; nothing is left of earlier filters and groupings; an id
range, field weights, a select list, or times that an earlier request set stay for requests on the
same worker that set none. No document says that they should not. The filters that were refused
for want of memory are excepted by name.

## Proofs

All for every value of the constants that satisfies the named assumptions.

- `ThreadPoolProofs`: `PoolTypeOK`, `PoolMembership`, `PoolAccounting`. The inductive invariant is
  their conjunction, together with what a thread's place says about the mutex: neither is
  inductive alone, because each move between the vectors needs that the thread is where `doing`
  says, and the counter follows cardinalities of the vectors. `PoolCoversQueue` (no wakeup is
  lost) from an invariant that compares the length of the list with the number of threads that are
  awake; a signal makes one more awake whenever a task makes the list one longer, and a thread
  that takes a task takes one of each away. `PoolTasksInOnePlace`; with it `PoolKeepsPromise`, the
  refinement of `TaskQueue` step by step; `PoolLeavesWhenIdle`.
- `BufferProofs`: `BufferTypeOK`, `BufferInBlock`, `BufferNoJunk` from one inductive predicate on a
  buffer (`WellFormed`) that each operator on buffers is shown to keep, and
  `BufferIsByteQueue`, the refinement, from one lemma per operator on what it does to
  `BytesOf`.
- `SearchSessionProofs`: `SessionTypes`, `SessionAnswersItsRequest` from `InStep` (at most one
  message is unread, it is for the current request, and after a failed exchange only a client
  about to be released has one), and `SessionOwnSettings`, from what the settings are between two
  requests: nothing of one is older than the client, and nothing is of a request to come.
- `ConnectionProofs`: `ConnectionKeepsItsWord`, from what the worker's place says about
  `keep_alive` and the answer: where nothing could be parsed, the two agree only because `Run`
  resets the first. `ConnectionTypes`. `ConnectionServesRequestsOnce`, from an invariant that says
  that `inbuf`, `wire` and `unsent` follow each other in the order of the stream, and that what
  was served lies behind all of them: a cut of an ordered sequence is ordered, and a request has
  one beginning. That a client's whole stream is typed and in order is itself proved, by induction
  over the number of requests; `ClientsAssumption` says only that they are requests.
  `ConnectionAnswersInTurn`, from `TurnInv`: what a polite client did not send yet is its stream
  from some request on, and the one before, of which what was read and what is on the wire are the
  whole text, is not handled while a part of it is on the wire. That needs requests which arrive
  in one piece: only then is a block that is not full the end of one.
- `DataInduction`: induction up to a number over a set (`Upward`), and that a recursive definition
  over `0..n` has a solution (`Recursion`), lemmas that the other proofs rest on, both from the
  least counterexample. The library's induction theorems take an operator as a parameter, which
  the provers cannot instantiate; a set and a function as data they can.
- `SphinxClientsProofs`: `ClientsTypes`, `ClientsOwnClient`, `ClientsNoLeak`, `ClientsNoStaleEntry`. The
  inductive invariant is what a thread's place says about the mutex, its entry and its place
  in the pool (`Places`), with what each existing client is owned by (`Owned`). It uses that
  every step is one of the pool, so that the pool's own invariant holds in the composition;
  `ClientsNoStaleEntry` needs it, since the exit callback runs at a place of the pool.
- `InstanceProofs`, about `Instance` and `Log`: `InstancePidTellsRunning`, from the two
  implications that the places of `main` have for the pid file. `InstanceTypes`, that a connection
  in main's hands is where `main` is among them. `LogTypesHold`. `LogOlderFilesKept`, from
  `OlderInv`: a thread about to rename found its number free, so that if a file in `older` had
  that number it had been removed by then, and it stays so whatever the other threads do; nothing
  but `remove` takes such a file away, and lines are only added to those that are there. For any
  number of threads, sizes, files and failures.
- `CppLintProofs`: `LintTypes`, `LintCounts`, `LintPrinted`, `LintIncludeOrder`,
  `LintLongFunctions`, `LintClassesAreOpen`, for every file, command line, list of categories and
  table of words. `TypesInv` types what each rule returns, one lemma per rule, and says that the
  suppressions are those of the lines that were read. `LintCounts` needs `CountsInv` and
  `ExitInv`: the counts follow the log, error by error, however many a line has. `LintPrinted`
  needs `PrintInv`: past the arguments the level and the filters are what was typed, and while a
  file is open the suppressions are those of its lines so far, never of another file's. Two lemmas
  carry it: the code goes through the filters in order and overwrites its decision, which is what
  the last matching one says (`FilteredByLast`); and an error that is covered by the whole text is
  covered by what was read when it is passed on (`SuppressedCovered`), since each rule places its
  errors on lines already read; the one that does not is the exception of `PrintedExactly`.
  `LintIncludeOrder` and `LintLongFunctions` compare what a line is told, from the state that the
  checker carries, with a reading of the whole text. Neither is inductive: an error is logged and
  the state goes on. `ReadInv` says that the state is the text's: `OrderIs` that `inc.seen` are
  the headers before the line, `inc.section` the greatest place among them, and `inc.last` the
  greatest name of the run that is open, or 0; `FunctionIs` that `fn` has the name of the last
  head with a body before the line, the number of its lines so far, and is `in` it unless a brace
  ended it. And it says that of each line read everything is reported (`Full`). `LogRight` is the
  other direction, for every entry of the log, of earlier files too. That no other rule uses these
  three categories is a lemma for each (`...Plain`). `LintClassesAreOpen` compares the stack,
  which a line changes once, by the numbers of its braces, with a reading of the text token by
  token (`OpenByText`). `ClassInv` gives the stack its numbers: a class of the reading that is
  open with n braces in its body has depth n + 1, and a head whose brace did not come yet is on
  top, not opened, with depth 0. That a line keeps it is an induction along its tokens: a class of
  depth d has d plus the braces so far (`Phase`), until that is 0 and it has ended; a head stays
  pending, and then is such a class (`HeadPhase`). What breaks this is named in the reading
  (`odd`): a brace after the class ended on the line, two heads one after the other, a `}` before
  the brace of a head, a line with a head, a semicolon and a brace that opens or ends a class.
  There the checker may lose count, and nothing is said of the rest of that file. The first form
  of the property, which let only some of these pass, was refuted by lines that the proof asked
  for: `} }` where both classes end on one line, and `class E ; }`; they are now among those of
  the run. Assumed of the constants: levels are natural numbers and filters a sign and a prefix
  (`CommandsAssumption`), files are sequences of lines of words (`DiskAssumption`), what is
  written for the lines of a comment is no NOLINT (`NolintAssumption`), confidences of the table
  of wordings are 0 to 5 and its categories other than those three, as in the patterns of the code
  (`WordingsAssumption`), triggers are positive (`TriggerAssumption`), and each header that is
  included has a path and its place in the alphabet (`IncludesAssumption`, `AlphaAssumption`):
  they stand for the functions of the code that give one for every string.

Only model-checked: all liveness properties (`ServedUnlessAllBusy`, `PoolUnlocked`,
`StuckOnlyOnSilence`, `PeerGoneEnds`, `PoliteServed`, `StopsOnSignal`, `AllAccepted`,
`EveryFileLinted`), which need fairness and ENABLED, out of the prover's reach. Every safety
invariant and action property of a passing run is stated by a theorem.

## What is left

1. `QueryData`: field weights, filters, ranges and modes as operators against a reference over
   bounded inputs.
2. Starts of several instances at the same time, with descriptors that have numbers.

## Not modelled

Configuration and JSON output: sequential, without state. `libjson` and `queue.h`: vendored. The
decoding of a query's text in `http.c` and of its parameters in `sphinx_query_data.h`: sequential.
The counters of `/statistic`. `StopAll` of the pool: not called. Memory after `delete`: undefined.
The functions of libsphinxclient that the program does not call. Of `cpplint.py`: the rules about
blanks inside a line and the length of a line, about CHECK macros, references, old casts in
expressions, global strings, `memset`, arrays of variable length and operators, some patterns of
format strings, and the wording of what it prints; its unit tests. The `.bk` files, web pages and
test scripts: not part of the build.
