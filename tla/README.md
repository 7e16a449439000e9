# FluxenDB in TLA+

TLA+ models of the FluxenDB server and its client: the storage engine, the dump
file, the command handler with the counters, the event loop with the SIGINT
handler, the metrics as concurrent scrapes read them, and the bytes between client
and server. TLC checks them on small instances; for the engine, the dump file, the
handler, the loop, the scrapes, the bytes on a connection and the loops of `LREM`, TLAPS
proves for all instances the safety properties that hold on the small ones, some of them
under a hypothesis whose need a run shows. Paths below are relative to the repository;
the server's code is in `src/server`, `src/utils` and `include`.

## 1. The system

One process, three kinds of threads:

| Actor | What it does | Shares |
|---|---|---|
| event loop (`Server::run`, main thread) | waits on epoll, accepts, receives, executes one command per `recv`, replies, dumps | everything |
| SIGINT handler (`signalHandler`), on any thread, between any two steps of the loop | clears `running`, closes `server_socket` | `running`, the descriptor table |
| HTTP threads of the metrics server (`startMetricsServer`, detached) | answer `/metrics` with `Metrics::exportMetrics` | the counters of `Metrics` |

Clients are separate processes; `Client` sends one request and waits for one
reply. `README.md:126` describes a thread per client and `README.md:127` a mutex
`db_mutex` that guards the stores; the code has one loop for all clients, and the
mutex is declared and never locked. The models follow the code.

### Components

**Storage engine** (`class Database`). State: `kv_store`, `list_store`,
`hash_store` (unordered maps) and `expirey_map` (deadlines). Operations: one
method per command. Hard: `operator[]` inserts empty lists and hashes on mere
lookups; `RENAME` moves entries in four tables, the names may be equal or be held by
different tables; `LREM` erases under its own iterator; deadlines are written and
never read. Correct when: the tables stand for three independent key spaces
whatever empty leftovers they hold, and each command does to them what it
promises.

**Persistence** (`Database::dump`, `Database::load`, `main`). State:
`dump.my_db`. Operations: a dump truncates the file and writes strings, lists and
hashes line by line; a start loads it. Hard: separators are not quoted, the file
is truncated before it is rewritten, the process may be killed at any moment.
Correct when: a load gives back what the dump was given; a torn file damages as
little as possible.

**Command handler** (`commandHandler::processCommand`). Stateless; turns the
tokens of a request into calls of `Database` and `Metrics` and a reply. Hard: 30
branches that each count and format by themselves; `std::stoi` throws out of the
process; missing tokens are read. Correct when: replies are RESP and say what
happened, an error changes nothing, counters agree with the commands.

**Metrics** (`class Metrics`). State: atomic counters, the gauge of clients,
latency buckets by command, the last CPU sample. Hard: scrapes read while the
loop writes, and share the CPU sample without a lock. Correct when: the totals
agree with one another and with the number of commands.

**Event loop and signal handling** (`class Server`). State: `running`,
`server_socket`, `lastDump`, epoll's interest and ready lists, the descriptor table
of the process. Hard: descriptors are numbers that the kernel reuses, in the
middle of a batch of events and beside a signal handler; `accept` can fail for lack
of descriptors; the loop must stay live. Correct when: an event is handled for
the connection it was reported for, requests are answered, writes reach the file,
a shutdown ends and saves.

**Client** (`class Client`, `client/main.cpp`). Frames requests, parses
replies, one `recv` per reply. **Metrics HTTP server**: one route. **cpp-httplib**:
vendored. **Deployment files**: configuration.

`PROJECT.json` lists every component with its status, and every hazard with its
line and the properties that address it.

## 2. The modules

| Module | Models | Composed of |
|---|---|---|
| `Collections` | unordered maps as functions, vectors as sequences | |
| `Keyspaces` | abstract specification of the store: strings, lists, hashes, where lists and hashes always exist and are empty by default | `Collections` |
| `Database` | the four tables, one action per method that can change one | `Collections` |
| `ListRemoval` | the two loops of `lrem`, erasure by erasure, with the width of `int` | `Collections` |
| `DumpFile` | the text of `dump.my_db`: what `dump` writes for an entry, what `load` makes of a line, what a killed writer may leave | `Collections` |
| `Persistence` | store and file over several lives of the process | `Database`, `DumpFile` |
| `CommandKinds` | which commands count as reads and writes | |
| `Metrics` | the command counters, one command a step | `CommandKinds` |
| `CommandHandler` | one action or disjunct per branch of `processCommand` | `Database`, `Metrics` |
| `Scrapes` | the increments of the loop's thread beside `exportMetrics` on HTTP threads, load by load | `CommandKinds` |
| `CpuUsage` | the CPU sample that scrapes share | |
| `Server` | event loop, SIGINT handler, clients, kernel descriptors and ready list | `Collections` |
| `Wire` | framing of requests and replies, `recv` and `send`, both parsers | `Collections` |
| `DatabaseProofs` | type invariant; `Database` implements `Keyspaces` | `Database` |
| `PersistenceProofs` | load is the inverse of dump; what a torn file loads | `Persistence`, `DatabaseProofs` |
| `CommandHandlerProofs` | types, errors, pops, sums of counters | `CommandHandler`, `DatabaseProofs` |
| `ListRemovalProofs` | `lrem` erases what it should | `ListRemoval` |
| `ScrapesProofs`, `CpuUsageProofs` | what scrapes show | `Scrapes`, `CpuUsage` |
| `ServerProofs` | the safety invariants of the loop | `Server` |
| `WireProofs` | both parsers read what the other side writes; requests and replies in turn | `Wire` |
| `MC...` | instances for TLC | |

### How state and actions correspond to the code

`Database` keeps the names of the tables. An unordered map is a function whose
domain is the set of its keys, so that an entry that holds an empty list differs
from no entry; `TouchList` and `TouchHash` are the lookups that insert one. Values are
opaque, time is a counter of seconds (`clock`). Methods that only look are
operators (`TypeOf`, `Exists`, `KeysListed`). Each method is one step because only
the loop's thread calls it. `LRem` takes its result from `Collections!Removed`, the
set of positions to erase; `ListRemoval` walks through the loops: `EraseElement` and
`KeepElement` are the two outcomes of a turn, `Negated` is `count = -count`, undefined
for `INT_MIN`, and `origin` is a history variable that says where each element that is
left came from.

`DumpFile` represents a string by the words that blanks separate, and a word by
the parts that colons separate, because these are the two characters that `load`
gives a meaning to. This keeps the whole format, the loss of separators included,
without spelling strings.

`Persistence` wraps `DBNext` in lives of a process. A dump is `DumpOpen`
(truncates), one `DumpEntry` per entry in the order of the tables, `DumpClose`.
`Kill` may come at any time; in the middle of a dump it leaves any prefix of the
text, cut inside a line or a word (`CutFiles`), since the stream's buffer reaches
the disk in blocks. `dumped` is a ghost: the entries that the last dump was given.

`CommandHandler` takes requests as token lists that are parsed already. A branch
is a conjunction of the call of the store, the counters and the reply
(`Succeed`, `Fail`, `Respond` with the number of increments of each kind).
`TooFewTokens` collects the arity errors, in two groups because the second lacks
the line end. `BadToken` is the request that ends the process: an exception of
`std::stoi`, or a read past the last token, of which this is the worst outcome.

`Scrapes` splits what `Metrics` takes in one step. The loop's thread runs a command as
the increments of its branch (`Outcomes`, `recordReadWrite`, `IncrementTotal`) and the
observation of its latency, count first, then bucket by bucket, under `latency_mutex`;
a thread of the HTTP server loads one counter a step, in the order in which
`exportMetrics` prints them, and the histograms under the mutex. The two loads of
the total are in either order. Increments of the reads and writes are relaxed, but
sequenced before a sequentially consistent increment that the scrape reads first, so
interleavings of the steps are all there is to see. `CpuUsage` is `getCpuUsagePercent`
with each load and store of its two plain doubles a step; `overlapped` and `settled`
are history.

`Server` models descriptors as the kernel does: a table from numbers to what they
denote, the lowest free one handed out first. `events` records with each
descriptor what it denoted when epoll reported it; the code has only the number, the
record is what `EventsAreCurrent` compares with. `Wait` takes the first `MaxEvents`
descriptors of the level-triggered ready list that are still readable and moves
them to its end. `Accept`, `Refuse` (registration with epoll failed) and
`AcceptNoMore` are the outcomes of one turn of the accept loop; `Answer`, `Throw` (an
exception that nobody catches) and `Disconnect` the outcomes of `recv`; `NotDue` and
`PeriodicDump` the test of `lastDump`. `FinalDump`, `OpenFinalDump` and `CloseDump` are
what follows the loop. `Interrupt` and `CloseListener` are the two effects of the
signal handler, which come at any two moments. Clients connect, send one request at a
time (`pending` holds the connections on which one waits) and leave, with or without
the reply. The store is a counter of writes, `file` the number of writes it contains,
or `Truncated` while a dump is written.

`Wire` follows one connection. A byte stream is a sequence of atoms, one for each
character that a parser gives a meaning to, one for each decimal number and one for
each other letter. `parseSendCommand`, `sendCommand` and `Type` (a line typed at a
terminal) write requests, `parseRespCommand` reads them, `processCommand` throws
(`Throws`, a word for the number of an `LSET`, `LREM`, `LINDEX` or, if its key is there,
`EXPIRE`) or chooses a reply, `Encode` writes it as the handler does, `parseResponse`
reads it. The replies (`AnyReply`) are all those of the handler: `HGETALL` announces half
of its elements, the miss of `LINDEX` has no length (`bulk_without_length`), `ECHO`
repeats its message in a line whatever is in it (`RepliesTo`), some errors lack their line
end. `StoiThrows` skips blanks and takes a number with its sign, `Substr` takes a negative
length for a huge one, and a header without a line end is followed by the second
character (`BehindEol`), as in the code. `Serve` and `Receive` take at most `RecvSize`
atoms and keep nothing for the next call, `send` passes on `SendRoom` atoms and forgets
the rest. Either side may end by an exception; `EndOfStream` is the `recv` of a client
whose server is gone. A message shorter than `RecvSize` arrives whole; TCP may split it,
which would only add to what `wire_long` shows.

## 3. What TLC checks

Runs expected to pass:

| Run | Shows |
|---|---|
| `store` | `ImplementsKeyspaces`: every method is a step of the three key spaces or leaves all contents alone, for every combination of empty leftovers, equal names in `RENAME`, and counts of `LREM` below, at and above the number of occurrences. `DBTypeOK`. |
| `list_removal` | `RemovesWhatItShould`: both loops, erasing under their own iterator, leave and return what `Removed` says for every list and every `int`; for `INT_MIN`, all occurrences or none. `Returns`: they end. |
| `persistence` | `FileMatchesDump`: while a dump is written and from then on, whatever follows, the file loads as the entries written so far, empty lists, hashes and all. `TornFileDamagesOneEntry`: a dump cut anywhere loses entries, and gives back at most one wrong one. |
| `commands` | `CountersAgree`: reads, writes, totals and latencies of all branches agree with each other, up to the two branches (`FLUSHALL`, `LINDEX`) that do not. `ErrorsChangeNothing`: a command answered with an error leaves every key as it was. `PopsReturnWhatTheyRemove`: a pop takes what its reply stands for, though a stored empty string is answered with nil. `HandlerTypeOK`. |
| `server` | Three connections, two descriptors for them, batches of two of three ready descriptors, requests that throw, a SIGINT at any moment: `NobodyIsForgotten` (whatever can be read is still on epoll's list when the loop waits again), `EventsAreCurrent`, `GaugeIsRight`, `GracefulShutdownSaves`, `ExceptionKeepsTheFile`, and under fairness `RequestsAreAnswered`, `ShutdownCompletes`, `WritesReachTheFile`. |
| `scrapes` | In one scrape the total covers failures and successes (`TotalCoversOutcomes`), reads and writes cover the total (`KindsCoverTotal`), the histograms cover the total but for the command in progress (`HistogramsCoverTotal`) and are cumulative (`HistogramsAreCumulative`), whatever the loop does between the loads. |
| `cpu` | `LoneScrapesShowUsage`: scrapes that overlap spoil each other's figure (a negative usage is possible), but the next one that is alone shows a usage of 0 or more, and the one after shows the use since then. |
| `wire` | With every kind of reply the handler can write, and `send` cutting some: words that look like the framing, empty words and line ends inside words survive the way to the server (`ExecutedIsSent`); a reply that arrives whole and in RESP is shown as what it means, whatever malformed or cut ones came before it (`RepliesAreShown`); a client that waits has something to wait for, only a missing length or a cut reply ends the client and only a word for a number the server (`WaitingIsAnswered`), though `sendCommand` adds a line end and error replies lack theirs. |

Runs in which TLC must find a violation; each is a disagreement between the code
and what a document or comment of the repository says (`PROJECT.json`, findings):

| Run | Shows |
|---|---|
| `expiry` | a key is still there after its deadline: no code reads `expirey_map`. |
| `spaces` | a string with a blank does not survive dump and load. |
| `interrupted_twice` | `shutdown` never forgets the descriptor it closed; a second SIGINT closes the dump file that was opened under the same number, and the file stays empty. |
| `wire_long` | a request longer than one `recv` is parsed in two pieces, the second as a command of its own. |

Seen while modelling and not the subject of a run:

- `KEYS` lists the strings twice and never a hash; `RENAME` of a key to itself deletes
  it; deadlines survive `FLUSHALL`, `DEL` and `SET`; lookups change what `TYPE` answers,
  from none to list or hash; `LPOP`, `RPOP` and `HGET` answer nil for an empty string
  that is there. `Database` and `CommandHandler` contain all of these.
- The totals are not the number of commands: `FLUSHALL` counts nowhere, a `LINDEX`
  miss twice.
- Replies that the client cannot show, all of them in the instance of `wire`, where
  `RepliesAreShown` and `WaitingIsAnswered` say that they cost nothing but themselves:
  `HGETALL` announces half of the elements it sends, so the client shows half, though
  `README.md:119` promises field/value pairs; `ECHO` of a message with a line end comes
  back cut there, though `README.md:85` says that the message is repeated; the miss of
  `LINDEX` sends a text where a length belongs, which ends the client by an exception;
  so does a bulk string or an array that `send` cut inside.
- A word where `LSET`, `LREM`, `LINDEX` or `EXPIRE` takes a number ends the server without
  an answer, though `Client.cpp:51` says that there is a response for every request.
- A reply that is longer than the client's `recv` is shown cut, and its rest as the reply to
  the next request. `ShortMessages` (section 4) excludes it, and so does the instance.
- A request that is one line end longer than the buffer leaves a line end behind,
  which the server answers with an error as a request of its own.

### Bounds

- `store`: 2 keys, 1 field, 2 values, pushes of up to 2 values, lists of up to 3, a
  deadline on one key at a time (nothing reads it; `RENAME` moves it). Two
  keys are what `RENAME` relates; three places and two values give `LREM` every
  pattern of kept and removed neighbours from either end. Fields of one hash do
  not interact, so one is enough. Keys and values are symmetric.
- `list_removal`: lists of up to 5 of 2 values, ints of 4 bits: every count below, at
  and above the number of occurrences, with erased neighbours and runs.
- `persistence`: 3 commands over all lives, strings `a` and `ab`, so that one is a
  prefix of the other and a cut string may be a different existing one; 2 entries
  fill the file, which is what order and tearing need. Kills and restarts are
  unbounded.
- `commands`: 3 requests, 2 keys, the empty and one non-empty string: two
  requests to prepare a state and one to observe; all branches fire.
- `server`: 3 connections, each opened once, in a fixed order (they are
  interchangeable until then: `MCSpec`), 2 requests, 1 signal, batches of 2, `DumpInterval`
  1. Two connections and the listening socket may be ready at once, so that batches are
  cut, and a batch of a connection and the listening socket closes a descriptor and
  accepts another client under its number. `MaxFd` 4 leaves two descriptors for three clients: they run out, are freed and
  reused within a batch while the third client waits, and the dump may find none.
- `interrupted_twice`: one client, one request, two signals.
- `scrapes`: 2 threads, 2 commands, 2 scrapes, 2 buckets; one command counts twice, one
  has no name. Two scrapes and two commands overlap in every way, and the relations are
  between what one scrape loads.
- `cpu`: 2 threads, 4 scrapes, 4 ticks: two scrapes to overlap, one alone to settle the
  sample, one to read it.
- `wire`: 3 requests, so that what one leaves behind meets the next. `RecvSize` 22 holds
  the longest request; `SendRoom` 12 cuts the longer replies and takes the others whole, so
  that both follow each other. `wire_long`: 1 request, `RecvSize` 16, less
  than the longest.

Only `store` and `persistence` check for deadlock. The others say `CHECK_DEADLOCK
FALSE`: the process ends or dies (`commands`, `server`, `wire`), `lrem` returns, or the
bounded numbers of commands and scrapes run out.

### Fairness

`Server`: weak fairness of `Loop`, `CloseListener` and `Tick`. The loop's thread never
blocks: `epoll_wait` has a limit of 300 ms, listening and client sockets are
non-blocking, a command and a dump are finite. The signal handler runs to its
end once started, and time passes. Nothing is assumed of clients: they may never
connect, send or leave, and the liveness properties do not need them to.
`ListRemoval`: weak fairness of its only thread.

## 4. What is proved

TLAPS proves the following for every value of the constants that satisfies the named
assumptions of the modules; these say little more than that bounds are naturals and
names are distinct.

**Store.** `DatabaseProofs!TypeCorrect`: `DBSpec => []DBTypeOK`. The invariant is
inductive as it stands (`StepType`). Putting and erasing keep a map a map (`PutType`,
`EraseType`, `MoveEntryType`), every list command ends in `SetList` and every hash
command in `SetHash` (`SetListType`, `SetHashType`), and the list that `LREM` leaves is
not longer than the one it found (`SelectType`, from the cardinality theorems).
`DatabaseProofs!Refinement`: `DBSpec => ImplementsKeyspaces`. The refinement mapping
reads a missing list or hash as an empty one. Each method maps to the abstract action
of the same meaning; lookups, and pops of nothing, map to stuttering
(`TouchIsStutter`); `RENAME` maps to the abstract one in each space, or leaves it alone
where there was no entry (`MoveContents`).

**LREM.** `ListRemovalProofs!RemovesRight`: what the loops leave is what `Removed` asks
for, the operator that `Database` builds on, for lists of any length and ints of any
width. The invariant: what is left is in order and what is gone was an occurrence
(`Kept`); forward, no occurrence is left before the iterator and everything gone lies
before everything from the iterator on (`Forward`), and `count + removed` is the argument;
backward symmetrically, where for `INT_MIN` the sum is `INT_MAX` or the loop never runs.
That `INT_MAX` erasures are all needs `SizesFitInt`, the assumption the code makes when it
puts a size into an `int`.

**Handler.** `CommandHandlerProofs!HandlerTypes`, `ErrorsAreHarmless` and `PopsShowAll`:
the type invariant and the two action properties of the run `commands`. Every branch
counts under a name that exists or is unknown (`BranchCounts`) and takes one step of the
store, an `LSET` out of range included (`AnyIndex`), or is an `HMSET`, whose assignments
leave a map (`DatabaseProofs!AssignedType`) (`BranchKeepsStore`). With the types, errors
come from branches that at most looked a list up, and the replies of pops from its ends.
`CountersAddUp`: the counters agree (`CountersAgree`). The commands are added up by
counting the set of all observations made, to which an answer adds one
(`OneMoreObservation`); the invariant (`CountersInv`) is that the set is finite.

**Dump file.** `PersistenceProofs!PersistenceTypes`, `DumpIsComplete` and
`OneDamagedEntry`, for keys and values of one word and fields without a colon
(`PlainStrings`): the hypothesis is needed, the run `spaces` shows what happens to other
strings. The heart is `RoundTrip`: the words `dump` writes for an entry are read back by
`load` as that entry, for lists and hashes of any length (`FlattenSingletons`,
`HashWords`: words of one part are told apart by their positions, and a hash's fields by
being listed once each). A loaded file holds, per key, what its last line for the key
says (`LoadedTable`, `LoadedEntries`). The invariant (`PersistenceInv`): while a dump
runs, the file says of the entries written so far all that is to say and nothing else
(`AllFrom`, `AllIn`); when none runs it loads as what was dumped last; and a file torn
by a crash differs from it in at most one entry, for the cut reaches one line only
(`CutDamage`).

**Scrapes.** `ScrapesProofs!OutcomesCovered`, `TotalCovered` and `HistogramsWhole`. The
invariant (`CountersInv`) orders the loads: a counter that a scrape has loaded is not
above what those loaded later have reached by now, and increments of kinds run ahead of
those of totals by the command in progress. For the histograms (`LatencyInv`): who holds
the mutex is where it is held, and the buckets are cumulative but for those that an
observation has still to reach. `TotalObserved`: the outcomes counted so far are at most
the observations made so far and those never made or still in progress
(`TotalsObserved`), and so is the total that a scrape has loaded, until it prints the
histograms (`Covered`); an observation adds one member to a finite set.
`CpuUsageProofs!LoneScrapes`: nobody else is inside while a lone scrape is, and once a
lone sample is stored both halves belong together.

**Event loop.** `ServerProofs`, for any number of connections, descriptors, events in a
batch and requests: `ServerTypes`, `NobodyForgotten`, `EventsCurrent`, `GaugeRight`,
`ExceptionsKeepFile`, and `OneSignalSaves`, `GracefulShutdownSaves` under the assumption
`MaxSignals =< 1` that `interrupted_twice` shows to be necessary. The invariants are far
from inductive. What carries them: the ready list names no descriptor twice
(`ReadyOnce`), so neither does a batch (`BatchInv`), so handling an event closes none that
is still to be handled, and a number that `accept` reuses is free and therefore none of
an event left in the batch; a connection has one
descriptor or one place in the backlog, never both (`Identity`); the listener, epoll
and the dump keep their numbers as long as the loop uses them (`Roles`); the file is
truncated only while a dump is open (`FileInv`); whatever can be read is listed, also
while a batch is handled (`Listed`: a report moves descriptors and drops only the silent
ones, for the listing of those that stay reaches each of them, `KeptLists`, by counting;
only closing a descriptor takes one off; a client wakes the one descriptor it has, or
`accept` lists it). The gauge is counted by the cardinality of a set that each step adds
one member to or takes one from.

**Requests and replies.** `WireProofs!RequestsExecuted`, `RepliesShown` and
`NobodyWaitsInVain`, for any words, any number of them and any replies that the handler
can write, malformed ones included, if one `recv` is enough for a request and for what
`send` passes on of a reply (`ShortMessages`, which is about sizes only). The instance of
`wire` satisfies it; `wire_long` shows that the first part is needed, and section 3 says
what happens without the second.
The arguments about the parsers are by positions: an array has each
element where the one before it ends, whatever the elements contain (`ArrayLayout`,
from `Segments`), so each turn of either parser's loop takes one element (`ParserTurn`,
`ReaderTurn`), and a loop that is given by its turns is the one function that fits them
(`ParserReads`, `ArrayShown`).
What was typed has its words between blanks (`TypedLayout`), and there is one ascending
listing of where they begin (`AscendingListing`). The invariant (`WireInv`): nothing is
on the wire, or the last request, or what `send` took of the reply to it, and what was
executed, answered and shown is as long as that says (`Idle`, `Asked`, `Answered`); or one
side is gone, of the last reply (`ClientDead`) or of the last request (`ServerDead`).

With these, every invariant and every action property of the passing runs is stated by
a theorem. Where an argument goes through a list of any length, it is by the
well-foundedness of `<` on the naturals (`WireProofs!SetInduction`: a set with 0 and
with the successors of its members has all of them); a function that the models define
by recursion is named in closed form and shown to fit the recursion.

Only model-checked: all liveness (`RequestsAreAnswered`, `ShutdownCompletes`,
`WritesReachTheFile`, `Returns`), which with its fairness is beyond the prover; and what
the runs that expect a violation show.

## 5. What is not modelled, and why

- `include/httplib.h`: vendored, 20,973 of the 22,937 lines of C++ in the repository. It is
  used for one route of one HTTP server; `Scrapes` and `CpuUsage` take from it that
  several threads may run that route at once. It is why only a small share of the lines
  of the repository is modelled; of FluxenDB's own files, most of the code is. The
  descriptors that its threads take from the process are not in `Server`'s table.
- `VmRSS` and the sums of seconds of `exportMetrics`: a number read from `/proc` and
  sums of doubles, each printed by itself.
- Line breaks inside strings. A line break makes `load` see a line of its own, and
  on an empty one it reads an uninitialised `type`.
- Failures before the loop starts (socket, bind, listen, epoll): the process ends
  or, without a listening socket, exits; nothing has happened yet.
- `EINTR` of `epoll_wait`: it continues with the test of `running`, as an empty
  batch does. A failing `epoll_wait` breaks out to the final dump, as `running` does.
- The start of the process: SIGPIPE is ignored only once the detached thread has
  constructed its HTTP server, and a `send` to a client that left kills a process that
  has not come so far. Its end: that thread outlives the static `Metrics`.
- `std::cout` inside the signal handler: what its locks and buffers do there is the
  library's.
- Failing `connect`s of the client, and `client/main.cpp` reading past an empty line.
- Failed writes of the dump file (a full disk): `dump` returns true without looking at the
  stream. `CloseDump` and `DumpEntry` take the writes to succeed.
- `std::stoi` of a number that no `int` holds throws as a word does; numbers of `Wire` are
  small enough.
- What a client asks of a server that is gone. `Wire` ends the client's part there
  (`EndOfStream`).
- Who can send a line end: the command line client splits a line into words, so its words
  have none; other users of `Client`, and of the protocol, can send any word. `Wire` has
  both.
- Deployment files, dashboards and benchmark results: no behaviour of the program.
- Loop and persistence in one model: `Server` keeps as much of the file as its
  properties need (which writes it holds, or truncated), `Persistence` as much of the
  process (serving, dumping, dead), so that a composition would add states and no
  interaction.
