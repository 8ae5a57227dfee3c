# A verification of WDA-Path-Compression

`src/` is a distributed vehicle-data system in C++. Terminals read records of
vehicles (licence plate, time, place, twenty status bits) from CSV files and
send them to cache nodes over TCP. A cache node takes the packages apart, looks
up the vehicle and appends the record to its timelines, which compress as they
grow: a run-length encoding for each status bit, and a geometric compression of
the path. This directory holds TLA+ modules of that system, the TLC
configurations that check them, and TLAPS proofs about them.

## 1. The system

| component | state | operations | talks to |
|---|---|---|---|
| `Timeline`, `GeneralTimeline` (cache-node/compress.h) | vector of chunks of nodes | `push_back`, `alloc`, `last` | called by `Vehicle` |
| `LocationTimeline` (compress.h) | the same, and px, py, ppx, ppy, driveAngle, isDriveVectorOk | `push_back`, `angle` | called by `Vehicle` |
| `Vehicle` (data.h, data.cpp) | one location timeline, twenty general ones, a mutex | `push_back`, `write_to_file` | called by `Cache` and the drivers |
| `VehicleData`, `Message` (data.h, data.cpp) | a record, and the package it travels in | constructors that throw, `push_back_to`, `make_package`, `generate_index` | terminal -> package -> `Queue` -> `Cache` |
| `Cache` (cache.h, cache.cpp) | two-level map key1 -> key2 -> Vehicle, two rwlocks, counters | `push_back`, `count`, `statistic`, `get_vehicle`, `write_to_file` | called by worker or test threads |
| `encode_package`, `PackageMonitor` (data.h, data.cpp) | parser state, bytes of the unfinished package | `put`, `reset` | terminal -> bytes -> epoll thread |
| `Epoll` (epoll.h, epoll.cpp) | connections indexed by socket number, session id, two queues | the event loop: accept, recv, close | sockets; puts `Message`s into `Queue` |
| `Queue`, `Condlock`, `Rwlocker`, `Mutex` (com/) | deque, mutex, condition | `put`, `get`, `try_pop` | epoll thread -> worker; everybody -> log thread |
| `WorkerPool`, `main` (worker.h, main.cpp) | one thread | `get` a message, push it into the cache | `Queue`, `Cache` |
| `Loger` (com/loger.h) | queue, `_logStarted` | `log`, `start`, the log thread | everybody |
| `TokenManager` (token.h) | a map nothing is put into | -- | nobody yet |
| `CSVHelper` (terminal/file.h, file.cpp) | subsets of files, a buffer of 1024 records for each thread | `split`, `next_record`, `process_line`, `reset`, `extract`, `arrange`, `sort` | test drivers |
| `terminal/main.cpp` | -- | `cache_test`, `mysql_test`, `multi_test` | `Cache`, `CSVHelper`, sockets, a database |

What is hard in it: threads that fill one map under locks they release between
a look-up and an insertion; iterators used after an unlock; a byte stream cut
anywhere by `recv`, whose parser state outlives the call; socket numbers that
are used again; a condition variable signalled once for each message; a
compression whose working variables live outside of the node they belong to; a
time value, -1, that is both a mark and a possible input; a record that changes
its form four times on its way, and is found again by two keys made of the end of
its plate; a log thread started behind a flag without a lock. `PROJECT.json` lists
these hazards line by line, with the properties that watch them.

What makes each component correct:

- a general timeline is the exact run-length encoding of its samples, and old
  nodes never move;
- a location timeline passes within 20 metres of every sample, keeps to the
  course a node began with, and its nodes do not overlap in time;
- all timelines of a vehicle tell of the same drive, and what is written of it,
  into files or tables, is what they hold;
- a record arrives in the vehicle of its plate, once, and says what its line in
  the file said;
- the cache loses no record, gives a vehicle only its own, in order, and its
  entries never change; its statistics do not wrap;
- the framing is transparent: what is decoded is what was encoded, however the
  stream is cut, and a connection leaves nothing behind;
- a queue is a channel, and a message never waits while its consumers sleep;
- there is one log thread at most, and a program that waits for it loses no line;
- the records of a directory are read once each, whatever threads read them.

## 2. The modules

| module | models |
|---|---|
| `Timeline` | the chunked store, as operators on a sequence of chunks |
| `GeneralTimeline` | `GeneralTimeline::push_back`, an action for each branch |
| `LocationTimeline` | `LocationTimeline::push_back`, an action for each branch, over any geometry |
| `Geometry` | the code's distances, headings and distance to the course, on a lattice |
| `Vehicle` | `Vehicle::push_back` into the path and a status, `write_to_file`; uses `LocationTimeline` and `GeneralTimeline` |
| `MysqlTest` | `mysql_test`: a vehicle's timelines put into tables; uses `Vehicle` |
| `VehicleIndex` | the two keys of a plate |
| `CSVLine` | a line written from its fields and taken apart again |
| `VehicleData` | a record from its row to its vehicle, straight or by package; uses `VehicleIndex` and `CSVLine` |
| `Cache` | `Cache::push_back` by many threads, step by step, and the report of `cache_test` |
| `CSVHelper` | the reader: `split`, `next_record`, `next_file`, step by step where threads meet |
| `Terminal` | `cache_test`, `multi_test`, `extra.cpp`, `dir.cpp`, `arrange.cpp`, `sort.cpp`: rounds of threads that read through it; `extract`, `arrange`, `sort` |
| `VehicleStore` | abstract: each vehicle's history grows along its file; refined by `Cache` |
| `PackageMonitor` | `encode_package`, the stream, `recv`, `PackageMonitor::put`, the end of a connection |
| `Queue` | `Queue` on `Condlock` |
| `Epoll` | the epoll thread: its start, the event loop, accept, the table of connections, recv, messages |
| `CacheNode` | the node: the epoll thread, the queue (as the channel it implements), the worker |
| `Loger` | the log: its unlocked start, its thread, `wait`, `stop`, the end of the process |
| `Fifo` | abstract: a channel; refined by `Queue`, `PackageMonitor` and `Loger` |
| `GeneralTimelineProofs` | theorems about `GeneralTimeline` |
| `VehicleProofs` | theorems about `LocationTimeline`, `Vehicle` and `MysqlTest` |
| `CacheProofs` | theorems about `Cache`, `VehicleIndex`, `CSVLine` and `VehicleData` |
| `PackageMonitorProofs`, `QueueProofs`, `LogerProofs` | theorems about these modules |
| `EpollProofs` | theorems about `Epoll` and `CacheNode` |
| `TerminalProofs` | theorems about `CSVHelper` and `Terminal` |
| `MC...` | instances for TLC; `MCVehicle` has the path's, too |

How state and actions correspond to the code is in `PROJECT.json` under `map`,
definition by definition. The choices behind it:

**Timelines.** `Vehicle::push_back` holds the vehicle's mutex, so a call of
`push_back` is one step. A branch of the code is an action, and their guards
are the conditions in the order the code tests them. `reserve(1024)` makes a
chunk's capacity; it is the constant `ChunkCapacity`. Two history variables
say what a node ought to be: `samples`, everything ever pushed, and `cover`,
which samples each node stands for (and, in `LocationTimeline`, at which of them
px, py moved).

**Geometry.** `LocationTimeline` takes three functions: `Near` (dis <= 20),
`Heading` (`angle()` as the int it is stored in) and `OffCourse` (disToVec >
150). `Geometry` gives them for places on a lattice of ten metres: distances are
compared by their squares, exactly; the arc tangent and the sine come from a
rational approximation of the sine with an error below 0.005, which is enough
for the places used. The case analysis of `angle()` is kept. What the doubles of
the code add to that, a heading that is a degree off where the exact one is a
whole number, is not modelled.

**Vehicle.** `status` is one of the twenty general timelines: they are treated
alike and never look at each other. What it may be at a place is given by `Bits`,
so that a status changes on the way. `write_to_file` writes one file after the
other and stops at the first it cannot open. `mysql_test` goes on from the same
timelines; each statement may fail, and what follows it then is in the guards. Its
call in `main` is commented out. It reads the file of W1E-021 and looks up the
vehicle W1E-001, and so does the model: the file's length, `FileLength`, has nothing
to do with the vehicle's samples.

**Records.** `VehicleData` follows a row along both ways: `cache_test` makes a
`VehicleData` of the fields and pushes it; `multi_test` puts it into a package,
which the node reads back. A number is two bytes and the status bits are a byte
each, so byte order, the padding behind `bits`, and a field too many or too few
have their effect. Memory nobody wrote holds any byte of `Junk`. The id is cut to
sixteen bytes in a package and read back as a C string, which goes on into the
statuses if it has no zero. `CSVLine` keeps the unsigned length of a field, which
wraps around for a field that is one quote, and the byte read before a line that
begins with a comma. In `VehicleIndex` a key is its bytes; the shifts fill the
eight bytes of a key exactly.

**Cache.** A record is named `<<t, i>>`, the i-th that thread t pushes; what a
vehicle's timelines would compress is the list of samples in its object. The
steps of `push_back` are cut at the calls of lmap1's lock, between which another
thread can come in. `std::map::insert` does nothing if the key is there: the
thread goes on with its own object, which is then reachable only from it.
Comparing an iterator of the copy `map2` with the `end()` of the original and
dereferencing it is undefined; the outcomes modelled, a null pointer (which the
code logs as "Unreached") and a crash, are what builds of that code do. The
write lock on lmap2 is only taken in the branch that this comparison disables,
so its read lock never waits. `count` adds up nodes, at least one and at most
one per sample for a vehicle, so it is a choice between those bounds.
In the cache node the worker is the only thread; in `cache_test` there are four.
`Kept` names the vehicles that one thread alone pushes, under a first key of their
own, as `cache_test` does for all: whatever the threads do to others, to these
nothing may happen.

**Framing.** A byte in flight carries, as a history value, the position at which
the encoder put it. The terminal may hang up in the middle of a package. One
connection is modelled; `Epoll` has the thread's loop over all of them.

**Reading.** A record is named by its file and line. Two calls of `next_record`
for different subsets share only the atomic count and `titles`, so a call is cut
where `next_file` has found `titles` empty and is about to assign it. Two threads
there at once are a data race: the process may end, or one of the two values
stays. So are vectors read past their ends, when a program counts on more subsets
than `split` made. `multi_test` runs its three rounds one after another, and a
thread whose `connect` or `send` fails returns, from the program if it is in the
first. Of the rows `extract`, `arrange` and `sort` write, the model keeps which records
their fields come from: a record `extract` skips stays in its line, in front of
the next. A vehicle's file that `arrange` cannot open may open for the vehicle's
next record. `dir.cpp` and `extra.cpp` have four threads and a subset for each.

**Loger.** `apend` reads a flag, `start` sets it and makes a thread, without a
lock. That is safe since every `main` logs, itself or in `CSVHelper`'s constructor,
before it makes threads that log: this is `MaySpawn`, and the invariant of
`LogerProofs` rests on it. A thread that cannot be made is not noticed.
`stop` cancels the log thread; nobody calls it, and it is modelled
as something `main` may do when it has joined the others.

**Queue.** A critical section is a step; `wait` splits `get` in two.
`pthread_cond_signal` wakes at least one waiter, and waiters may wake for no
reason. A woken consumer competes for the mutex with everybody else.

**Epoll and the node.** A client sends a script, whose parts are the two flags and
pieces of packages, and may close or lose the connection anywhere. What a
monitor collects is where the pieces come from, so that a mixture of two
clients' bytes can be seen. Escapes are left to `PackageMonitor`. Client sockets are
level-triggered and the listening socket edge-triggered, as the code registers
them: `edge` is the one report of newcomers. `accept` gives the lowest free
descriptor; descriptors the rest of the process holds leave gaps in the table.
The thread starts before the constructor has stored the port, so it may bind to
port 0, and no client finds it. Two exceptions end the process: a package
shorter than its header in the epoll thread, one of another length than a record
in the worker. On Linux a TCP socket that hangs up or breaks is readable, so the
branch for other events (epoll.cpp:183-192) is not reached and not modelled. The
queue is the channel `Fifo` that `Queue` implements; `Cache::push_back` by the
only worker is a step.

## 3. The runs

| run | expects | asks |
|---|---|---|
| `general_timeline` | pass | is the timeline the exact run-length encoding, whatever the times? |
| `vehicle` | pass | is the path kept, the course kept, do the ends and all timelines agree, and do file and tables have them as they are? |
| `location_fixes` | violation | was the vehicle at a node's end when the node ends (data.cpp:301)? |
| `vehicle_data` | pass | does a record reach the vehicle of its plate as it was, and no other? |
| `cache` | pass | what holds when threads share vehicles and ids share keys, and is nothing lost of vehicles that do not? |
| `cache_second_key` | violation | is a record added, with two ids that share a first key (cache.h:59)? |
| `framing` | pass | are the packages decoded those encoded, and can unencoded bytes harm what came before or comes after? |
| `queue` | pass | is it a channel, and is one signal per put enough? |
| `cache_node` | pass | do records of each session reach the cache, whole and in order, whoever else comes and goes? |
| `terminal_reads` | pass | are the records of a directory read once, in order, whatever is in the files, and written again by `extract`, `arrange` and `sort`? |
| `terminal_swallows` | violation | does `next_record` give every record (file.h:79)? |
| `loger` | pass | is there one log thread, is the log a channel, does `wait` see all lines printed? |

Bounds, and why they are enough:

- `general_timeline`: five samples, two values, four times of which one is "no
  time", chunks of two nodes. Five samples fill two chunks and begin a third;
  no branch looks at more than the last node.
- `vehicle`: five samples are what it takes to set a course, turn, set another and
  be judged by it; five places give every branch. Chunks of one node make every
  new node a new chunk; chunks of two are in `general_timeline`. What is written
  out looks at nodes one by one, so drives of up to two samples (`ReportSamples`),
  which make up to two nodes, are written out and inserted.
- `vehicle_data`: keys of two bytes and ids of four for the code's eight and
  sixteen, and two statuses for twenty; plates shorter than a key, than an id, as long
  and longer. Three records are two in one vehicle and one that could be a stranger.
- `cache`: three threads and eight records. Two threads share a vehicle; three of
  the records are of two ids with one first key; the others are kept. A
  step involves at most two threads, and the third is there to come between.
- `framing`: two packages of up to two bytes over the three flags and one other
  byte, chunks of up to three bytes: a package takes up to six bytes, so chunks
  end inside escapes, inside packages and after several. The second package
  shows what the first left behind. One unencoded byte at any place is enough to
  end a connection in either error branch, or to shift the rest.
- `queue`: two messages from each of two producers against three consumers and a
  poller, more than the node has.
- `cache_node`: two clients. With two descriptors their bytes and events interleave;
  with one, the second client waits, is refused, and gets the first one's number.
  The pairs of scripts are two encoders, one that sends two records, one that
  sends garbage after a record beside one that stops inside a package, and a
  package too long beside one too short. A record is one piece, the buffer four
  parts, so a chunk can hold two ends of packages.
- `loger`: `main` and two threads, two lines each: the first line may start the log,
  the second finds it started.
- `terminal_reads`: six programs, a buffer of two lines and files of none to six, so a file
  ends within a buffer, exactly with one, or after two; a batch of one subset for
  the code's 30 (`cache_test`) and 5 (`multi_test`). The directories have fewer
  files than the programs count on, as many, and more: with none, one or five
  the programs also come to grief as the code does.

Deadlock is not checked where the system stops: at the bound on samples, at the
end of the records and the report, after hanging up, or when the process ends.

Fairness: `Cache` -- every thread that can run is run, and the joining thread
runs when all have ended (POSIX threads; the rwlock is free between the short
critical sections, and no run needs a strongly fair lock: under weak fairness of
a whole thread's next step the finite feeds come to an end). `PackageMonitor` --
the epoll thread goes on while there is something to do for this connection;
this is an assumption, since another connection that never pauses would keep it
busy. Nothing is assumed of the terminal. `Queue` -- each consumer that can take
a message in the end does, since it calls `get` in a loop; nobody has to wake for
no reason, and no producer has to produce. `CacheNode` -- the epoll thread and the
worker go on when they can; no client has to do anything, and the order in which
the events of a round come is left open. `Terminal` -- each thread goes on when it
can; nothing is held across a step. `Loger` -- a log thread loops for ever; nobody
has to log, to wait or to end.

The three violations are disagreements with the code's own comments; `findings`
in `PROJECT.json` quotes them: of every 1025 lines of a CSV file one record is
dropped (file.cpp:120), an id of more than eight characters whose last eight equal
another's is dropped (cache.cpp:44), and a node that ends with its first move is
given the wrong time (compress.h:146).

Seen in modelling, and contradicting no comment:

- two threads that find the same vehicle missing both make it, and one of the
  records is lost (cache.cpp:28); no driver lets them, and the worker is alone;
- a slow bend takes a vehicle further than 150 metres from a node's course, since
  `disToVec` uses the angle of the last move (compress.h:173);
- the table of `multi_test` gives the records of its first round as the data of
  all three, of which the third reads half (main.cpp:571);
- a plate of sixteen bytes runs into the status bits on the way through a package,
  so the same vehicle has two names (data.cpp:160);
- `mysql_test` inserts the records of W1E-021 and the timelines of W1E-001, and if the
  second database cannot be used the statuses go into the first;
- `arrange` appends to the files of an earlier run, and `sort` compares times as
  they are written, which is their order only while all have the same width;
- the log has one thread only because `main` logs first.

## 4. The proofs

Everything is proved for every value of the constants under the named
assumptions of the modules.

**The general timelines.** `GeneralTimelineProofs` says what `SetLast` and `Alloc`
do to positions, nodes and chunks, and proves `TypeOK`, `Packed`,
`RunsExact`, `Faithful` and `OnlyLastNodeChanges`. `RunsExact` is the inductive
part, with the types and the packing: nodes are runs, runs follow each other, a node
that looks new is last and stands for one sample. `Faithful`, what a reader needs, is
not inductive (it says nothing of samples out of order) and follows from it.

**The path.** `VehicleProofs` proves `TrackKept`, `CourseKept` and `EndTimes`, for
any places and any geometry in which a place is near itself. None of the three is
inductive alone, and `PathRight`, which is, has two parts. `StretchRight` says what
is true of one node, its extent and the samples, and goes on being true when more is
sampled. `Remembered` says that px, py, ppx, ppy, driveAngle and isDriveVectorOk are
of the last node: where its last move was, where it began, and the heading of its
first move exactly when it has one. The first is why the second may be forgotten when
a node is allocated, and the second is what keeps the first when a node grows. A
refilled node had one sample and so no course (`NewIsAlone`), which is why the code
may leave isDriveVectorOk alone there.

**The vehicle.** `VehicleHasAPath` shows that the driver on top of `Vehicle`, whatever
statement fails in it, implements `LocationTimeline`, and `VehicleHasRuns` that it
implements `GeneralTimeline`; so what was proved of the two holds of the vehicle,
the latter through an instance of `GeneralTimelineProofs`. `TimelinesTellOneDrive`
follows from `PathRight`, `RunsExact`, `Faithful` and one more invariant, that the two
are pushed the same times. `TablesTellTheFile` has an invariant of its own,
`TablesRight`: what is counted and inserted at each stage.

**The cache.** `CacheProofs` proves `TypeOK`, `MapAccessExclusive`, `OnlyOwnRecords`,
`EntriesNeverChange` and `NoSampleLost`, for any feeds. The invariant says what the
lock means (writer and readers are the threads at the steps where they hold it,
never both), that every object is of the vehicle of its keys, that a thread's own
target is of its current vehicle, and, of a vehicle that is kept, that a thread
which missed its key still misses it until it inserts, since nobody else pushes
that vehicle, so that neither of the ways to lose a record is open to it.
`RatioDoesNotWrap` adds that a record is counted before it is stored and stored in
one object only: what is stored injects into what was counted. `CacheRefinesStore`
is the safety part of the refinement: each step appends to one kept vehicle the next
record of its file or leaves all of them. It has a hypothesis, `KeysTellKept`: two ids
that are kept differ in a key. `Cache` takes the keys as constants, and this is what
makes `History` the records of one vehicle.

**Plates.** The same module proves which plates the keys tell apart, from the lemma
that strings without zeros that look the same from the end, zeros in front, are the
same: both keys tell all plates of at most sixteen bytes, and the first alone those
of at most eight. Put together with the cache, the first gives `KeysTellKept`, and the
second `ShortPlatesLoseNothing`: where the keys are made from plates of at most eight
bytes (`KeysOfPlates`) and no two threads push one id, as in `cache_test`
(`OneThreadForEachId`), `AddedToCache` holds, the very claim that the run
`cache_second_key` refutes for longer plates. Licence plates such as `W1E-001`
are within it.

**The framing.** `PackageMonitorProofs` proves `TypeOK`, `ExactlyWhatWasSent`,
`EndsClean`, `EarlierPackagesIntact` and that each step is one of `Fifo` or a stutter.
The invariant follows the bytes in flight, those in the parser's buffer and those on
the wire, as one sequence: each is the byte the encoder puts at its place
(`Right`), and its place is the one at which the byte before leaves the parser
(`After`), from where the parser is (`Here`) to where the encoder is (`Position`). This
holds of all packages that no stray byte has come before (`Trusted`), and what the
parser has put together is a prefix of the package it is in. That the cuts of `recv`
do not matter is then that they leave the sequence as it is.

**The queue.** `QueueProofs` proves `TypeOK`, `NoLostWakeup`, `InOrder` (what is taken
is what was put, which the channel promises too), and that every step of
the queue is a step of `Fifo` or a stutter (`Channel!SafeSpec`). Here the three
properties together are inductive.

**The node.** `EpollProofs` proves `TypeOK`, `TableTellsSockets`, `EventsAreFresh` and
`MessagesAreFromTheirSession` of the whole node. The invariant adds to them that a
client is at one place only and has a session exactly from its acceptance, that
of the event at hand no other is left in the round, and that what a monitor or
`lists` holds is of the client at the other end. `RecordsOfASession` and
`OnlyOthersEndTheNode` need to follow a client that encodes exactly: its slot holds
the places of its script that are unfinished (`SlotRight`), the messages of its
session are its first packages (`MessagesRight`), and both together, with what
`put()` has collected, are all that was finished. A message is then numbered by how
many ends of packages come before it.

**The log.** `LogerProofs` proves `OneLogThread` for any number of threads and lines.
The invariant adds that only `main` is ever in `start`, that it is alone then, and that
without the flag there is no log thread and `main` has logged nothing. `LogIsAChannel`
follows with one more invariant, `Flow`: what was put is what is printed, then
the line the one log thread has in hand, then the queue.

**The readers.** `TerminalProofs` proves `ReadInOrder`, `WholeDirectory`,
`TitlesSettled` and `WrittenInOrder` for any directory, any length of a buffer and any
batch. None of them is inductive, and three invariants, each resting on the one before,
are. `ReaderRight` says of each subset that the records passed in its files, which are
those that lie before its stream, were given out or are in its buffer, both in
order and the one before the other. A stream stands behind a whole number of blocks
(a header and a buffer of lines) between two calls of `next_record`, and inside
`next_file` behind a header or at the end of its file: this is what says which lines
are dropped as headers, and so which are passed. Of the threads it says where
they are in their shares, that the subsets still to read are as `split` left them, and
that those behind are read to the end; shares are apart, so a step of one thread leaves
what is said of another. `ReadInOrder` follows at once, and `WholeDirectory` with the
lemmas on `Ranges`, which cover the directory without overlap. `TitlesRight` says that
as long as there are no titles nothing could be opened in any subset that a thread has
behind it; after the first round of `multi_test` that is all that its later rounds read,
so none of their threads is about to assign the titles. `OutputRight` adds what was
written: of `extract` and `arrange`, that it is what was handled, in order; of `sort`
also that a file it wrote is of a subset it is done with, since it would be
overwritten if `sort` came back to one. The induction over the lines of a file that
some of the lemmas need is on sets of numbers: of the lines for which a statement
fails there is none that is the least.

**The records.** The last part of `CacheProofs`, on `VehicleData`, proves `NoStrangers`
and `EveryRecordIsKept` for any rows of bytes other than zero, any number of statuses,
any padding and any size of a key and an id. The way of a record is three lemmas. A row without commas and quotes comes
back from its line (`PlainRowsComeBack`): from a place in the line at which the text from
the n-th field on begins, the rest of the row is read, by induction from the last
field to the first. That the recursive functions of `CSVLine` exist is proved first, since
a loop that only goes forward has one. What a message takes out of a package is what
was put in, with the id cut to its place if a status that is off, a zero, ends the string
there (`MessageKeepsRecord`). And names of at most sixteen bytes with the same keys are
the same. The inductive invariant then says of each sample that it is of a row of the
keys it is found under and says what that row said, that samples are in the order
of their rows, and, as long as the keys can tell all names, that each first key read is
known with one second key, that of the name that came with it first.

Model-checked only:

- all liveness (`ReportIsWritten`, `SentIsCached`, `NobodyLeftWaiting`,
  `DescriptorsComeBack`, `RoundsEnd`, `WaitPrintsAll`, and the fair parts of
  `StreamIsAChannel` and `QueueIsAChannel`), which the prover does not do;
- that `Geometry` is what the code computes; the proofs of the path need nothing of it.

## 5. Not modelled, and why

Most of the repository by size is rapidjson (15,700 of 19,600 lines), vendored and
used by one experiment in `unit-test` only; it is no part of the system and is left
alone. What remains is:

- `TokenManager`: no file includes it, and its map is never filled;
- code without a caller: `CSVHelper::reset` and `process_files`, `decode_package`,
  `Condlock::broadcast` and `timed_wait`;
- the experiments in `unit-test`: `location.cpp`, an earlier form of the path
  compression, and programs that feed constants to a component or measure a library;
- doubles and the map projection (TLC has no reals); longitude and latitude in a
  record, which are copied as its time is;
- formatting, the text of log lines, the tables of times and sizes;
- `iconv`, listing a directory, and what a database does with a statement;
- memory exhaustion, and locks that cannot be made.

## 6. Plan

1. Done: all components of the system, with the composition of the cache node and
   the proofs above.
2. Proofs that are left: that `wait` is safe, the part of `WaitPrintsAll` that is not
   liveness; that the worker's end of the node is the channel `Queue` implements.
3. `extract`, `arrange` and `sort` one after another: a row with two records in it
   has more than 24 fields, and `sort` drops it.
