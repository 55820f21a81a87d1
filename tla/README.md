# A TLA+ model of Crypto Price & Transaction Notifier

This directory holds TLA+ specifications of the program under `src/`, the TLC
configurations that model-check them on small instances, and proofs, checked by
TLAPS, of the properties that matter most. `PROJECT.json` relates every
definition to the lines it models and every property to the hazard it is for.
Paths below are relative to `src/`.

    tlc -config ProgressTasks.cfg MCProgressTasks     check one run
    tlapm ProgressTasksProofs.tla                     check the proofs of a module

## 1. The system

Eight processes, started and restarted by supervisord
(`docker/files/conf/supervisord.conf`, `autorestart=true`), none of which keeps
anything on disk except telegram_client's TDLib database. They are built in
Release mode: assertions are compiled out.

    exchanges --ws--> price_monitor --zmq xpub/sub--> progress_tasks, time_tasks, http_stream
    client --http--> http_stream --D-Bus--> progress_tasks, time_tasks, telegram_client
    progress_tasks, time_tasks --D-Bus--> price_result_stream --D-Bus--> telegram_client
    http_stream <--zmq pub/sub--> account_monitor <--ws--> exchanges
    account_monitor --zmq pub/sub--> account_tasks --http POST-->

### Components

| Component | State | Operations | What is hard | What makes it correct |
|---|---|---|---|---|
| **progress_tasks** `progress_tasks/` | `uniqueInstruments` (latest prices), `global_task_list`, per watcher `m_snapshots` and `m_periodicTimer`, `scheduled_task_results`, one `io_context` | price threads insert; D-Bus thread schedules, removes, lists; io thread runs a check of every watcher each 100 ms; sender thread calls price_result_stream | four kinds of threads share the watchers; the timer is tested and used without a lock; `cancel()` does not reach an expired timer; the io thread is started by a static initialiser, once; a failed D-Bus call ends the process | a token of an alert is told at most once; a removed alert falls silent; a listed alert goes on being checked; a price at its target is reported |
| **time_tasks** `time_tasks/` | the same, without snapshots | the same, with an interval per task; each report carries all prices of its tokens | as above; reports of many watchers overlap | removed tasks fall silent, listed ones keep reporting, prices shown never go back in time |
| **http_stream** `http_stream/` | a session per connection; `taskMonitorQueue`, `monitoredTaskResults`; sets of instruments for `/latest_price` | accept, read, route (`endpoint.cpp`), handle, answer (`session.cpp`); price task requests (`scheduled_price_tasks.cpp`), account requests (`scheduled_account_tasks.cpp`), Telegram texts and login secrets, listings | a handler waits for other processes on a thread that all sessions share; requests are series of D-Bus calls without a transaction, some of whose errors end the process; the deque of account results has no lock; PUB/SUB loses messages; enumerations, units and signs are converted several times | a request is answered; what is scheduled is what was asked for; accepted tasks run, stopped tasks are gone, listings are complete; each account request gets its own answer, and a true one |
| **price_monitor** `price_monitor/` | per exchange and trade type: a websocket connection, the fetched instruments, subscription counters; a sink per exchange | fetch instruments, get a token (kucoin), resolve, connect, handshakes, subscribe in batches, read, retry; publish the sink | error paths that end or restart the chain of handlers; a sink shared by streams and cleared on retry; a publisher blocked in `get()` at shutdown | every instrument is subscribed; a stream that lost its connection comes back; prices are published in order |
| **account_monitor** `account_monitor/` | a list of user streams per exchange, one `io_context`, `monitorStatusResults`, result sinks | `watches_launcher.cpp`: a thread per exchange takes tasks, adds a stream, queues a status; the streams: listen key or token, connect, log in, subscribe, read, keep alive, retry, stop | the io thread is started by two of the three threads; retries race with removal and with each other | an account reported running is monitored, and stays so |
| **account_tasks** `account_tasks/main.cpp`, `common/src/http_rest_client.cpp` | a list of payloads, a connection, a retry counter | receive from account_monitor; POST to localhost | nothing: `main` never runs its `io_context`, so that no handler of the client is ever called | |
| **price_result_stream** `price_result_stream/` | none | `price_result_adaptor.cpp`: formats a result and sends it to telegram_client | the D-Bus error of the second call is the answer of the first | its caller gets an answer whatever becomes of telegram_client |
| **telegram_client** `telegram_client/main.cpp` | TDLib's authorization state, `m_requestHandlers`, `m_authorizationGranted`, the loop of the login thread; a session in a database on disk | log in (automatic requests; code and password over D-Bus), send a text, log out, restart | a login thread with two loops and a D-Bus thread share one table without a lock; the flag is what was received last, not what is; refused requests are not repeated | the flag does not go stale; the login goes on wherever nobody has to supply a secret |
| **common containers** `common/include/container.hpp` | `waitable_container_t`, `locked_set_t`, `unique_elements_t`, `mutexed_list_t` | blocking get, append, insert, find, copy | test and use under different locks | FIFO, nothing lost |
| **common functions** `common/src/` | none | split and convert strings and enumerations, durations, tasks to and from D-Bus tuples, URIs, base64 | signs, units, overflow, round trips | what arrives is what was sent |
| D-Bus XML, docker, CMake, `scripts/`, `external/` | | declarations, deployment, manual test scripts, vendored libraries | | not modelled |

### Interaction

* A price reaches progress_tasks and time_tasks over ZMQ, one subscriber thread
  per exchange (`exchangesPriceWatcher`). It replaces the last price of its
  instrument; nothing waits for it.
* A request for a price task is validated by a session, then pushed contract by
  contract over D-Bus. All contracts of a request share the user id and the
  task id; a stop names these two and goes to both services.
* A result is queued, popped by the sender thread, and travels in two nested
  D-Bus calls to telegram_client.
* A request to monitor an account passes five threads in two processes and two
  PUB/SUB hops; the session polls a deque for its answer.

## 2. Modules

| Module | What it is |
|---|---|
| `PriceAlerts` | abstract specification: what a price alert service promises |
| `ProgressTasks` | the progress_tasks process |
| `ProgressTasksProofs` | its safety properties proved, and that it implements `PriceAlerts` |
| `PriceReports` | abstract specification: what a price report service promises |
| `TimeTasks` | the time_tasks process |
| `TimeTasksProofs` | its safety properties proved, and that it implements `PriceReports` |
| `Requests` | what http_stream makes of a request by itself: routes, refusals, conversions |
| `RequestsProofs` | its properties proved for any requests |
| `PriceScheduling` | sessions of http_stream against both task services, by D-Bus calls that may fail |
| `PriceSchedulingProofs` | its safety properties proved |
| `AccountTasks` | account requests through http_stream and account_monitor |
| `AccountTasksProofs` | its safety properties proved |
| `HttpServer` | connections and threads of http_stream |
| `TelegramClient` | the telegram_client process against TDLib |
| `Messaging` | the two composed, with price_result_stream |
| `MessagingProofs` | the safety of telegram_client, and of the composition |
| `KucoinUserStream`, `BinanceUserStream` | one account stream of account_monitor each |
| `AccountStreams` | both on the io thread of one process, which may die and come back |
| `AccountStreamsProofs` | its safety properties proved |
| `KucoinPriceStream`, `OkexPriceStream`, `BinancePriceStream` | one price stream of price_monitor each |
| `PriceStreams` | the three in one process |
| `PriceStreamsProofs` | its safety properties proved |
| `MC...` | instances for TLC: constant definitions, sample inputs, symmetry sets |

Every property has a faulty variant of the definition it is about: a plausible
bug, kept next to the code's definition (`RemainingUnerased` beside
`Remaining`), under which TLC refutes the property. The variants are used by no
specification.

### ProgressTasks

State corresponds to the code as the comments of its VARIABLES say. A watcher is
one `progress_based_watch_price_t`; it is constructed at most once, so that a
"watcher" also identifies its results. `wait` is the handler given to
`async_wait`: *pending* in the reactor, *expired* and queued, or *aborted* by
`cancel()`. The grain of the actions is the grain of the races:

* `FinishCheck` tests `m_periodicTimer` (line 80) and `NextTimer` uses it (83),
  with a step of the D-Bus thread possible in between. If `stop()` has destroyed
  the timer by then, the build either goes on, since the storage of the
  `std::optional` is still part of the watcher (`NextTimer`), or faults
  (`DestroyedTimerFaults`).
* `check_prices` reads one price at a time (`ComparePrice`), each under the lock
  of the instrument set; prices change in between.
* Removal stops one watcher after another (`RemoveWatcher`).
* `TakeResult` and `SendResult`/`SendFails` separate the pop from the D-Bus
  call. An error of the call escapes the sender thread and terminates the
  process; the other side may or may not have handled it. `Terminated` is the
  restarted process.
* `IoStart` and `IoExit` are the life of `io_context::run()`.

The arithmetic of the constructor and the order of the arguments of
`m_comparator` are kept as they are in the code, in integers times a hundred
(`Target`, `Reached`); prices and percentages are doubles in the code. `Due` and
`AlertGetsOut` follow that comparison; `Met`, which `ThresholdIsNotified` uses, is the
threshold a user asked for.

A token that has no price when its alert is scheduled gets no snapshot
(`SnapshotOf`; the assertion of line 76 that every token has one is compiled out).
It is never looked at again, and an alert none of whose tokens has a price stops at
its first check without having told anything, while it stays listed. `priced` keeps
which tokens had a price, and `ChainUnbroken` is exact about it: a listed watcher that
is not armed has *reported* every token that had one; the others nobody watches.

### PriceAlerts

An alert is unused, active, lingering (withdrawn, but possibly in the middle of
speaking) or over. It tells about a token at most once, speaks at most once
after its withdrawal, and notices leave in order. `ProgressTasks` implements it
under the mapping at its end: `open` is the tokens of `m_snapshots`, `outbox` the
queue with the result in flight in front.

### TimeTasks

As `ProgressTasks`; a price is the number of the ticker that brought it, so that
"older" has a meaning. `fetch_prices` copies the instrument set at once
(`to_list`). A result without a token is not queued.

### PriceReports

A task is unused, active, lingering or over, as an alert is. A report is made at one
moment: it holds the market of that moment for the tokens of its task, and reports
leave in the order of their moments. `TimeTasks` implements it under the mapping in
its module, in which a report is made when `fetch_prices` copies the instrument set:
the prices that are being put together count as the last of the outbox already, so
that queueing them changes nothing, whatever ticks, removals and sends come between.

### PriceScheduling

A session is what it is in the middle of: the arguments it has not dealt with,
the service to call next, what it has collected. Each D-Bus call is a step. A
call that fails may have been carried out; what the request did before it stays
done. The services appear by what `ProgressTasks` and `TimeTasks` make of a call.
Handlers catch the errors of adding and stopping. That of a listing is caught by
nobody: it leaves `ioContext.run()` and ends the process with every request in
it (`HttpStreamRestarts`).
The roll-back of `scheduled_price_tasks.cpp` 83-86 is not modelled: both
services answer TRUE to every call, so that it is never reached.

### Requests

A request of a client is a record of its target (its segments after decoding,
any of which may hold a question mark),
verb, content type and body. `handle_requests` is a function of it: the route
(`endpoint.cpp`), the refusals in their order, the handler, and the answer or the
call to another process the handler waits for. A contract is followed from its
JSON keys (`Parsed`), through the check of the task, the D-Bus tuple (`Wire`: which
service it goes to, numbers of enumerations, a clamped percentage) to what the
service reads from it (`Received`). Milliseconds are computed as the code does, in
an unsigned word that a timer reads as signed; the word is a constant, and time is
counted in seconds so that a small one overflows. An interval is any JSON value
(`IntervalRead`, `session.cpp:583-587`): a number, of which a fraction is cut; a text,
of which the number at its front is taken if it is an int, whatever follows it; or
something else, which throws. Numbers are counted in tenths for that. Strings are
model values; trimming and percent-decoding appear by their results. `Path` is the
split of the decoded target at its first question mark (`session.cpp:231-233`):
`BeforeQuery` says of the segments that hold one what is before it.

`ScheduledAsAsked` compares the far end with what the keys mean (`Said`, `Sound`,
`AsAsked`), written without the code's conversions, and says that nothing sensible is
refused. Where the code departs from that, the property says so instead of following
it silently:

* a percentage above 100 is watched for as one of 100, and the user is not told
  (`scheduled_price_tasks.cpp:42-46`): `AsAsked` has a clause of its own for it;
* an interval with a fraction comes out less than one unit short;
* three kinds of intervals are accepted and become other delays than they say, and
  are left out (`InRange`): negative ones and too long ones, since `timeMS <= 0`
  (`scheduled_price_tasks.cpp:49`) is about an unsigned number, and texts that only
  begin with a number;
* three kinds may be refused though they make sense (`Refusable`): less than one unit,
  texts beyond an int, and those so long that their milliseconds come to zero in the
  word (`session.cpp:593`).

`RequestsAssumption` says of the requests what the parsers guarantee when they
succeed (`WellTyped`): the segments are texts, and the contracts of a complete body
have keys of the types that are read. A key of another type (other than an interval)
makes the body one that is not complete. Texts are any texts; the spellings that
`toLowerCopy` and the singulars map to others are those of two tables (`Capitals`,
`Singulars`). A target of which the question mark leaves nothing makes
`get_special_rules` take `back()` of an empty string; that is taken as libstdc++ has
it, which finds no slash there, and the answer is 404.

### HttpServer, TelegramClient, Messaging

`HttpServer` is the connections and the threads of http_stream. A handler runs up to
its answer, or up to a call it then waits for on its thread; with no thread free
nothing runs in any session. Whether the error of a call becomes an answer
(`Caught`) or ends the process differs from handler to handler.

`TelegramClient` is one login thread that receives updates and answers and makes
the automatic requests (`params`, `key`, `phone`), a D-Bus thread that sends texts
and secrets through the same table, and TDLib, which is external: it takes
requests in order, accepts or refuses, and may be signed out at any time.
`m_authorizationGranted` is *being in the second loop*. On the D-Bus thread the test
of the flag (`Admits`, `Drops`; `main.cpp:319`) and the request (`Sends`; 330) are two
steps, with any steps of the login thread between. The unlocked table and client may
end the process when both threads are in them (`UnlockedMapFaults`); the session on
disk survives. A D-Bus request is recorded as long as fewer than `MaxPending` D-Bus
requests and answers are under way, beyond which it is as if TDLib dropped it.

`Messaging` composes them. `calls` is the queue of D-Bus calls telegram_client has, in
the order they came: those of sessions, of price_result_stream, and of an http_stream
that has ended meanwhile. It takes the first (`CallTaken`), which returns at once if
there is nothing to send, and else ends with the request (`CallEnds`); a call fails if
there is no telegram_client, or if it ends in the middle.

### AccountTasks

The deque `monitoredTaskResults` is searched, erased from, appended to and popped
by several threads without a lock, and a session keeps an iterator over its
100 ms sleep. Iterators are modelled as libstdc++ has them: they name a cell,
`erase` moves the shorter side, `pop_front` moves `begin()`. Using a cell that is
not in the deque any more kills the process (`TakeFaults`) or yields an old
result (`TakeGarbage`). What the model takes as one step is `find_if`, the erase
and the append each on its own: torn reads inside them are not modelled.
A result is represented by the request that caused it.

### The streams

All five stream modules have the same shape. `pending` is the set of
asynchronous operations that are outstanding, each an async call of the code
with its handler (*resolve*, *connect*, *tls*, *upgrade*, *read*, *write*, and the
HTTP requests that precede them: *token*, *instruments*); a healthy stream has one,
an abandoned one none. Each action is one handler together with everything it
calls, up to the next async call: `OperationFails` is the handler that gets an
error, calls `report_error_and_retry`, sleeps five seconds and starts anew (in
`OkexPriceStream`, where another handler may run meanwhile, in two steps). Which
errors are retried, which are only logged and which end the process differs from
handler to handler and from exchange to exchange; that is what the modules are
about.

Asio and Beast appear by what they promise:

* an operation completes once, well or badly; an HTTP request of
  `https_rest_api_t` is one operation (its every step calls one of the two
  callbacks);
* destroying a websocket aborts what is outstanding on it, and a websocket that
  failed in one operation aborts the others;
* `close(reason)` throws unless the websocket is open; what a handler throws ends
  the process, as nothing catches it;
* a control callback runs in the middle of a read, whose own handler comes later;
* handlers that are ready run before the answer to a request that was sent after
  they became ready, and before a timer of seconds (`OldPingsDone`, `NothingReady`).
  A handler that sleeps is another matter: see OkexPriceStream.

**KucoinUserStream**: token, connection, three subscriptions paced by incoming
messages (`m_stage`), and a ping timer whose handlers outlive connections:
`pingTimer` is the `std::optional`, `pingWait` and `pingSent` the wait and the ping
under way. `async_ping`'s handler arms the timer through the optional, which a
retry may have emptied: it works on what is left of the object, or faults.

**BinanceUserStream**: listen key, connection, a timer that renews the key, a timer
before a retry, and `stop()`. The life of the object matters here, because its
destructor closes the websocket and may throw: `Referenced` lists what holds a
`shared_ptr` to it. A close frame is seen by the control callback and again by the
read it ends, each of which arms the retry.

**AccountStreams** composes the two through what they share in a process: `alive`,
and `io`, the thread that only the tasks of binance (and okex) start. The user
stream of okex is not modelled since no code path creates one:
`addOkexAccountStream` is an empty stub. A stream of kucoin that is removed goes
on (its `stop()` is empty), so that a removal is no action of it.

**KucoinPriceStream**: as the account stream, with a list of instruments that is
fetched only if the shared sink is empty, and batches of subscriptions counted by
`m_tokenCounter`. `SinkChanges` is the other kucoin stream and the publisher.

**OkexPriceStream**: fetches the instruments for every attempt and subscribes to all
of them at once; a close frame retries in the control callback, and the aborted
first read once more. `report_error_and_retry` sleeps five seconds
(`okex_price_stream.cpp:84`) on one of the three threads that price_monitor's
`io_context` has, so that `asleep` counts the retries in that sleep while the others
run: the first retry's list, connection and subscription may all be made before the
second wakes up (`RetryBegins`) and replaces the resolver, the websocket and the HTTP
client. What was under way on them then ends badly and sleeps for a retry of its own
(`RetriesOf`), or the process faults (`DestroyedFaults`). So one close frame that meets
a first read leaves *two* chains of retries that replace each other's connections for
as long as they last; `RetriesAccounted` says that it is no more than one for each such
frame, and `SubscribedToLatest` that whatever connection comes to be read in all this
was subscribed to the last list.

**BinancePriceStream**: fetches once, subscribes to everything by its path, and begins
again with the name when a connection is lost.

## 3. Runs

| Run | Instance | Shows |
|---|---|---|
| `progress` | 2 tokens, prices 1 and 3, +100 %, 2 keys, 2 watchers | `TypeOK`, `NotifiedOnce`, `OneLateCheck`, `ChainUnbroken`, `ImplementsPriceAlerts` |
| `progress_liveness` | 1 token, both ways, 1 key, 2 watchers | `AlertGetsOut` |
| `time` | 1 token, 2 keys, 2 watchers, 2 tickers, queue of 2 | `TypeOK`, `ReportComing`, `PricesMoveForward`, `ImplementsPriceReports`, `ReportsKeepComing` |
| `price_scheduling` | 2 sessions, 2 users, 2 ids, one contract of each kind, batches of 2 | `TypeOK`, `AcceptedRuns`, `StoppedIsGone`, `ListingComplete`, `LeavesOnlyWhenRevoked` |
| `requests` | every route, with good and bad placeholders, verbs, types and bodies; contracts with good, bad and missing keys in all combinations, intervals as numbers, fractions and texts; a word of 2^22 | `ScheduledAsAsked`, `RoutedAsMeant` |
| `messaging` | 2 sessions, 1 thread, one D-Bus request or answer under way | `TypeOK`, `GrantedMeansOpen`, `LoginGoesOn`, `RequestsAreAnswered` |
| `account` | 2 requests at a time, 2 ids, binance, 2 polls, backlog of 1 | `TypeOK`, `AnswerTellsTruth`, `AloneGetsOwn`, `EveryRequestEnds` |
| `user_streams` | one stream of each kind | `TypeOK`, `FullySubscribed`, `OneChain`, `PingsGoOn`, `OneAttempt`, `KeyKeptAlive`, `RemovedStaysAway`, `ClosedIsRetried` |
| `price_streams` | one stream of each kind; kucoin lists up to 3 instruments, in batches of 2; okex lists up to 1, one close frame in a first read | `TypeOK`, `AllSubscribed`, `CounterInRange`, `SubscribedToLatest`, `ChainsCounted`, `SubscribesAll` |

Why these bounds are enough for the cases that matter:

* Two watchers of one key make a removal that stops one while the other is
  checked; two keys make a removal that must spare one. Two tokens make partial
  hits and prices that change between two comparisons; two prices make a target
  reached and left. Watchers do not interact but over the io thread and the
  queue, so a third adds no new kind of step.
* Two tickers suffice for an old and a new price of one token, a queue of two
  for an order to be mixed up. One token keeps the liveness check small; that the
  prices of several tokens are of one moment is proved (`Refinement`). A full queue delays the io thread (`MaxQueue`): a
  bound of the model, not of the code.
* Two sessions are a request and the one that gets in its way; one contract of
  each kind and a batch of two make a request that is cut short between the two
  services.
* A word of 2^22 seconds holds three weeks as a signed number and not seven, so
  that both sides of the limit occur for one unit, and an interval of as many
  seconds as the word has values comes to nothing; small counts of small
  units stay far from it. Each key of a contract takes a value of every kind the
  code tells apart (missing, unknown, zero, negative, beyond the clamp, spelled
  otherwise), in all combinations, because the handlers test keys in a fixed
  order and stop at the first that fails.
* One thread for two sessions makes one session wait for another's call; with two
  threads that case needs a third session and nothing new happens. With the calls of
  two sessions and of price_result_stream the queue holds three, and more if
  http_stream ends in between. One recorded request makes a text or a secret come
  before, between or after automatic requests and be refused or answered late;
  requests from D-Bus have no effect on each other, which is why one is enough.
* Two requests at a time make a result left behind, one that is taken by the
  wrong session and one popped at the limit. `MaxPolls` stands for the 200 polls
  of 20 s, `MaxBacklog` for the 5000 results; both matter only by being reached,
  which a bound of 2 and of 1 makes happen at once.
* Streams of one exchange interact only through the sink and the process; one of
  each kind shows both. Three instruments in batches of two make a full batch, a
  short one, an empty list and a list that is shorter after a retry; one
  instrument of okex makes a list that has lost an element.

`AccountStreams` has no constants: its run is a complete check. It is proved too,
because the invariants of the proof say *why* each stream is safe.

Deadlock is checked in the progress, price_scheduling, requests and messaging
runs. In the others the bounded supply of tickers, watchers or requests runs out, or
a stream has given up, and the configuration says so.

### Disagreements found

Three runs that are expected to be violated show what a document says of the
program and the code does not do:

* `progress_threshold`: after the last watcher ends, `io_context::run()` returns;
  the static that started it (`progress_based_task.cpp:191`) does not do so again,
  and every later alert is accepted, listed and silent (README.md:12). The prices of
  the run are 1 and 2, so that the alert for a rise of 100 percent at 1 is truly met
  when the price goes to 2 and stays there, whatever the comparator makes of it.
* `progress_percentage`: an alert for a rise is sent at the price it was set at,
  and one for a fall after a rise (`progress_based_task.cpp:63-71,107`;
  README.md:16).
* `user_deaf`: after its third subscription the kucoin account stream returns from
  the handler without reading on (`kucoin_user_stream.cpp:258`): it is connected,
  pinged and deaf (README.md:22).

The modelling met others, which are part of the models and limit what the
properties can say:

* The kucoin thread does not start the io thread (`watches_launcher.cpp:193`) and
  reports *running* all the same; `addOkexAccountStream` is an empty stub
  (`okex_user_stream.cpp:408`). So `AnswerTellsTruth` is about binance accounts.
* A session compares the `end()` of before its sleep with the one after it
  (`scheduled_account_tasks.cpp:40`) and may take another request's result for its
  own. So `AloneGetsOwn` is about requests that never overlapped.
* `AlertGetsOut` and `ReportsKeepComing` carry the proviso that the io thread runs,
  because of the first disagreement above.
* Negative and too long intervals are accepted (`scheduled_price_tasks.cpp:49`),
  except that one of a multiple of 2^64 milliseconds is refused as zero.
* An error of accept is logged, and no connection is accepted again
  (`server.cpp:53`). A failed write leaves the session and its descriptor for ever
  (`session.cpp:319`; phase `stuck`).
* The D-Bus error of a listing, or of a call to telegram_client, ends http_stream
  with the requests of all sessions.
* A client of telegram_client that is logged out ends the login thread for good, also
  when the log-out comes before *ready* was received; D-Bus calls go on to succeed
  without effect. A request TDLib refuses is never made again. `LoginGoesOn` is
  stated up to these.
* A user whose id is empty or has a slash in it can schedule tasks and not list them,
  and one whose id has a question mark in it is shown the tasks of the id before it.
* A percentage above 100 silently becomes 100, and an interval loses its fraction.
* An alert for tokens without a price is accepted, listed and never looked at.
* A close frame that meets the first read of an okex stream leaves two chains of
  retries that keep replacing each other's connections.

### Fairness

Liveness runs assume, and the code gives:

* the io thread: Asio runs ready handlers first come first served and its
  reactor finds every elapsed timer, hence strong fairness of each watcher's
  `TimerExpires` and `CheckPrices` (they are disabled again and again while
  another handler runs) and weak fairness of the steps inside a handler;
* the sender: a loop around a blocking `get()`, hence weak fairness of taking and
  sending; a D-Bus call ends, well or badly;
* a removal that was begun is finished by the D-Bus thread;
* a session waiting for its account polls until it is done: nothing but its sleep
  delays it;
* http_stream: a handler that is ready is started some time after a thread is free,
  since an io_context runs them first come first served: strong fairness of
  `HttpStart` for each session, as the thread is taken and freed again and again. A
  call that nobody answers ends by the time-out of D-Bus, or after the twenty
  seconds of an account request: weak fairness of `OtherCallFails`;
* telegram_client: the login thread is a loop around `receive`, TDLib takes what it
  is asked (and accepts or refuses), and the D-Bus thread takes one call after the
  other to its end: weak fairness of `CallTaken` or `CallEnds`. Nothing makes TDLib
  accept, and nothing makes supervisord restart the process in time;
* streams: handlers that are ready run and timers expire, hence weak fairness of
  the steps from a close frame to the next request (`ClosedIsRetried`) and of
  reading and writing while a kucoin price stream subscribes (`SubscribesAll`),
  where a message always comes because every subscription asks for an
  acknowledgement (`"response": true`).

Nothing is assumed of users, exchanges, the network, the loss of messages or of
restarts.

## 4. Proofs

`ProgressTasksProofs` proves, for any sets of tokens, prices, percentages, keys
and watchers, `TypeCorrect` (`TypeOK`), `NotifiedAtMostOnce` (`NotifiedOnce`),
`RemovalTakesHold` (`OneLateCheck`) and `WatchersStayArmed` (`ChainUnbroken`).

The assumptions are those of `ProgressTasks`: prices are naturals, percentages
integers, and the values that stand for "nothing" are none of the others.

None of the properties is inductive. `IInv`, at the end of `ProgressTasks`, is:

* `OneLateCheck` needs to know how much of its single late check a removed
  watcher has left: as long as it is removed and waiting (pending or expired), or
  about to re-arm, it has not had it (`LateInv`). The invariant rests on
  `cancel()` and the reset of the timer coming together: a removed watcher holds
  no timer, so its late check cannot re-arm it.
* `ChainUnbroken` needs `ArmedInv` (a watcher that is checked has no handler
  outstanding, and holds its timer while it is listed; one that is listed and not armed
  has no snapshots left), `CoverInv` (a token that had a price is still in the
  snapshots, in the check's hits, or reported) and `CheckInv`.
* `NotifiedOnce` needs that a token which was reported, wherever the report is,
  is no longer watched by its watcher (`NoticeInv`), and that a check in progress
  hits only tokens of its watcher's snapshots (`CheckInv`): that is why the
  erasure and the queueing in one handler suffice. Watchers are constructed
  once; with `task[w] = None => snapshots[w] = {}` a new one has told nothing.

One lemma per conjunct has a step for each action; `Invariance` puts them
together. `IInv` was checked by TLC on the instance of `progress` before
it was proved.

`TimeTasksProofs` proves, for any tokens, keys, watchers and bounds,
`TypeCorrect` (`TypeOK`), `RemovalTakesHold` (`OneLateFetch`), `TasksStayArmed`
(`ReportComing`), `PricesNeverGoBack` (`PricesMoveForward`) and `Refinement`
(`ImplementsPriceReports`). The assumptions are those of `TimeTasks`. The first three
follow the argument above, with `LateInv` and `FetchInv`. `PricesMoveForward` relates a report to the one before it, and
needs `OrderInv`: at any time the prices of a token age along the way of a
report, from the one last shown through the one in flight, every report of the
queue in its order and the one being put together, to the instrument set, which
is no newer than the last ticker. It holds across restarts because they keep what
was shown and lose everything that could be older. `Refinement` maps `FetchPrices` to
the moment of a report and shows that what follows it, up to the call that delivers
it, changes neither its contents nor its place. At most one late fetch is part of
what `PriceReports` promises of a withdrawn task, so that `OneLateFetch` is stated by
its theorem and not by the run.

`PriceSchedulingProofs` proves `TypeCorrect`, `AcceptedTasksRun` (`AcceptedRuns`),
`StopsAreFinal` (`StoppedIsGone`), `ListingsAreComplete` (`ListingComplete`) and
`NothingElseRemoves` (`LeavesOnlyWhenRevoked`) for any sessions, users, ids and
contracts. Sessions interfere, so that the proof has two halves. `Moves` says what
*any* step may do to what is shared: lists grow by what a session pushes, shrink by
what a stop names or by a restart, and every such shrinking is recorded as caught
by whoever waits for it. `IInv` says what each session relies on while it is in the
middle of a request (what an adding session has pushed is on a list unless revoked,
`AddInv`; what a stopping session has dealt with is gone, `StopInv`; what a listing
one has collected is complete for the services already read, `ListInv`) and is shown
to survive every step of the others by `Moves` alone; then each action is shown to
establish it for its own session.

`AccountTasksProofs` proves `TypeCorrect`, `AnswersTellTruth` (`AnswerTellsTruth`) and
`AloneAnswersAreOwn` (`AloneGetsOwn`). The first property needs that whatever can be
read out of the deque, by a valid iterator or a stale one, was *handled*
(`KnownInv`), and that handling implies monitoring until account_monitor dies
(`MonitoredInv`). The last needs to know where everything is: as long as requests
come one at a time, one item at most is under way in the five lanes between
session and session, and it belongs to the one in progress (`AloneInv`, `Travels`);
so when the stale `end()` differs from the new one, the deque is that one item.

`MessagingProofs` proves three invariants together (`Invariance`): that of
telegram_client, that of the threads of http_stream (`HttpInv`) and that of the queue of
calls between them (`QueueInv`: nobody is in it twice, whoever is in it waits, and what
is being sent is what the first asked for, also when an http_stream ended and left its
calls behind). The last is what makes a step of the composition one of
`TelegramClient`, so that every behaviour of `Messaging` is one of it (`Composed`).
`TextsReachAnOpenClient` (`GrantedMeansOpen`) and `LoginIsNotForgotten`
(`RequestIsComing`: a client that waits for an automatic request has it coming) rest on
`NewsInv`: a client which was ever ready is ready or on its way out, the news of the end
comes after the news of the beginning, and while a text is being sent the login thread
can only go from its second loop to its end, so that the client is not replaced.

`PriceStreamsProofs` proves `TypeCorrect`, `SubscriptionsAreComplete`
(`AllSubscribed`), `CounterStaysInRange`, `LatestListIsUsed` (`SubscribedToLatest`) and
`RetriesDoNotMultiply` (`ChainsCounted`) for batches and lists of any size and any
number of retries that sleep at the same time. Each stream has an invariant of its own
(`IInv` of its module): for kucoin and binance that there is one chain of operations,
and what has been counted before which of them; for okex that there is one operation
on the present objects, where the last list is on its way from the answer to the
connection (`ListInv`), and that a retry which sleeps in the middle of a first read
weighs as two, since that read will be retried once more (`CountInv`). The streams
share the life of the process only, on which no invariant depends.

`AccountStreamsProofs` proves `TypeCorrect`, `SubscriptionsAreComplete`
(`FullySubscribed`), `PingsAreComing` (`PingsGoOn`), `OneConnection` (`OneChain`),
`AttemptsDoNotOverlap` (`OneAttempt`), `KeysAreRenewed` (`KeyKeptAlive`) and
`RemovalIsFinal` (`RemovedStaysAway`). The two streams share only the process and
whether its io thread runs, so that each keeps an invariant of its own:

* kucoin: one operation at most is outstanding (`OneOperation`, which makes the
  chains of handlers one); `m_stage` has moved past *none* only on a connection that
  is read or written, and names exactly what was asked for on it (`StageInv`,
  `AskedUpTo`). Without the first half a retry in the middle of the subscriptions
  could inherit the stage of the lost connection and skip topics. `PingsGoOn` is
  inductive with these.
* binance: attempts, operations and the retry timer exclude each other, but for the
  close frame that is handled twice (`AttemptInv`); the renewal timer of a connection
  is gone before the next one is made, and a key is there from its arrival on
  (`KeyInv`).

`RemovalIsFinal` is an action property that needs no invariant: no step begins to ask
for a key when the life of the stream is *stopped*, whatever timers are left.

`RequestsProofs` proves `ContractsAreKept` (`ScheduledAsAsked`) and `RequestsAreRouted`
(`RoutedAsMeant`) for any requests that satisfy `RequestsAssumption`, with lists of
contracts and symbols of any length, any intervals (numbers with fractions and texts
among them) and percentages, any texts with question marks in them, and a word of any
even number of values. `IInv` says no more than that the answer is `handle_requests` of
the request, so that everything rests on lemmas about the operators: that an
enumeration survives its number (`NameOf` of `EnumOf`); that an interval in range
survives the word and the timer's signed view of it; that a contract which is read and
passes the check is sound and comes out as asked; that one which is not read, or does
not pass, is unsound or comes to nothing; that the routes have different names, so
that at most one fits; and that a listing of a user id of one segment is routed to the
listing of that user. The model's run samples contracts, and the proof has none to
sample. Its first attempts found two faults that the run had not shown: intervals whose
milliseconds come to zero, which `ScheduledAsAsked` did not allow for (TLC confirmed it
once a contract of `Word` seconds was among the samples; now a case of `Refusable`), and
arms of a CASE in `RunHandler` that overlapped.

`ProgressTasksProofs` also proves `Refinement`: progress_tasks implements `PriceAlerts`.
Under `IInv` every step of the process maps to a step of the
abstract service or to a stutter; the steps that matter are those that put a check's
results into the queue (an alert speaks), stop a watcher (withdrawal), and lose
the process (everything is over at once).

Every `IInv` was checked by TLC on the instance of its run before it was proved.

Every safety invariant and every action property that a passing run checks is stated
by one of these theorems. Model-checked only are the liveness properties
(`AlertGetsOut`, `ReportsKeepComing`, `LoginGoesOn`, `RequestsAreAnswered`,
`EveryRequestEnds`, `ClosedIsRetried`, `SubscribesAll`): fairness is about ENABLED, which
is out of the prover's reach. The three disagreements are behaviours TLC exhibits.

## 5. Plan

Done: the modules and proofs above. What could follow:

1. `latest_prices_watcher` and its two handlers beside the sessions (another
   subscriber that inserts what it receives).
2. The publisher of price_monitor and its shutdown: `ProcessEnds` with a blocking
   `get()`, which ends only if another instrument arrives.
3. The race of `stop()` with the io thread inside one handler of the binance account
   stream (`binance_user_stream.cpp:38`), now one step.
4. Pure functions on characters: the URI parser, base64.

## 6. Not modelled

* **account_tasks and `http_rest_client_t`**: the io_context is never run; there is
  no behaviour.
* **okex account streams**: no code path creates one.
* **latest prices**: a set that is replaced by what arrives last, as the instrument
  sets of the task services are.
* **users, chats and contacts in telegram_client**: stored and logged, read by
  nothing.
* **`mutexed_list_t`**: used by `http_rest_client_t` alone.
* **URI, crypto, random, JSON and file helpers**: functions on characters and bytes
  without state, most of them calls of OpenSSL or Boost.
* Vendored code, the D-Bus stubs generated from XML, the formatting of texts, HTTP
  and TLS themselves, deployment (but for `autorestart`).
