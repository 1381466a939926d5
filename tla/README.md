# Verification of code-slices

`code-slices` is a collection of small, mutually independent programs: exercises
with POSIX threads, a queue, a DNS relay for Google App Engine, an IP location
database reader, Racket and Lua tools around the Android debug bridge and FAT
images, a Mandelbrot viewer, and language exercises.  No slice calls another, so
there is one model per slice, and composition only inside a slice.

Contents: [Inventory](#inventory) · [Modules](#modules) · [Runs](#runs) ·
[Fairness](#fairness) · [Proofs](#proofs) · [What the code does against its
word](#what-the-code-does-against-its-word) · [Not modelled](#not-modelled) ·
[Plan](#plan).

To check a run: `tlc -config X.cfg M`, with the pairs of the table under Runs.
To check the proofs: `tlapm M.tla` for each of the eight `*Proof` modules.
`PROJECT.json` holds the map from every definition to its source lines, a mutant
for every property, and the list of hazards with the properties that cover them.

## Inventory

| Slice | State | Operations and interaction | What is hard | What makes it correct |
|---|---|---|---|---|
| `c/producer-consumer` | a LIFO `buffer[]`, `current`, `end`, one mutex, one condition variable | one producer and four consumer threads put and take under `c_lock`, wait on and signal the same `c_cond`; `main` joins the producer, sets `end`, broadcasts, joins the consumers | a signal can wake the wrong kind of thread; termination; what happens to numbers still buffered at the end | each number is handed out once; no wakeup that matters is lost; the program ends |
| `c/multi-thread-queue` | a circular doubly linked list, the queue's mutex, a counter `g_thread_count` under `t_lock`, a gate `g_cond` under `g_lock` | `main` fills the queue, consumers announce themselves, wait at the gate, then drain the queue; the provider polls the counter and opens the gate; `main` joins and destroys | announcing and waiting are two critical sections; pointer surgery in the list; destroying a queue in use | the ring is whole, first in first out, empty and unused when destroyed |
| `tools/dnsrelay` | three datastore kinds (`HostCache`, `DNSHost`, `DNSHostsList`), the web DNS services outside | request handlers look a host up in the hosts list, the cache and two web services, and write the cache; a cron job deletes old entries; an administrator loads and deletes hosts | handlers run concurrently and query-then-put without a transaction; freshness arithmetic; failing lookups | no address is served beyond its life, counters do not exceed the lookups, every request is answered |
| `tools/qqwry-ip` | an open database file, an index of sorted IP ranges | `main` asks for one address after another: parsing, binary search, redirected strings | boundary of the search, empty index, values used uninitialised, a stream left open, numbers no int holds, a buffer of 16 bytes, redirections that hide where the area is | an address is accepted, and what else is accepted is known; country and area of the record whose range holds the address are found |
| `c/string-find.c`, `c/hex-dec.c` | two pointers into NUL-terminated strings | tail-recursive search, comparison, chunks of hexadecimal digits | reading past the end of a string, 16-bit sums | the first occurrence, and no byte outside; what `strncmp` says; the number of every chunk |
| `lisp/adb.rkt`, `lisp/seven-square.rkt` | a socket and its `connected` flag; a capture timer, a waiting thread, a bitmap | a GUI polls screenshots through adb; a thread waits for the device | a thread that finishes before its id is stored; a timer firing after close; an exception that leaves the timer's callback, which ends the timer | the program polls or waits until it is closed, and never does both; what can end it before is known |
| `lisp/mandelbrot` | viewport, view size, iteration limit, tiles | zooming, and rendering by four places (OS processes) | tiles that must cover the image; a flag per field that asks for a new image; a viewport too small to change | every pixel computed for its own point; what is shown is the present view |
| `tools/inotify`, `tools/uevent-view` | a file descriptor, a stop flag set by a signal handler | blocking read or select loops, dumps of what came | a signal between the test of the flag and the blocking call, or in a call that is restarted; a full socket buffer or event queue | a signal ends the program; what was read is printed, and nothing after a gap |
| `lua/fat.lua`, `fat-shell.lua` | an opened FAT image, the FAT, directory entries | boot sector, cluster chains, long names, directory walk | chains that do not end, entries at buffer boundaries | every reachable entry is listed once, under its own name |
| `tools/gedit-plugin-...` | section table, list store, cursor | find sections of an Android dump, jump to them | tables not cleared when the tab changes | a row leads to the line of its section in the tab shown |
| small algorithms | none | bit counting, string rotation, CRC16, Project Euler | boundaries, widths | equal to a reference definition |
| demos | none | assembler, signal, macro and GUI demonstrations | nothing with a state worth a model | |

## Modules

A definition is named for the function, variable or constant it models where
TLA+ allows it.  Above some definitions stands a *faulty variant* with the same
parameters: a plausible bug in that code, which is no part of the specification.
For every property there is a variant under which its run finds it violated.

**ProducerConsumer** (`c/producer-consumer/main.c`).  `pc[t]` is the place of a
thread, and a step ends where another thread can see a difference: taking
`c_lock`, what is done while owning it up to the next pthread call, and giving it
up.  `Acquire` is `pthread_mutex_lock`, `CondWait` and `Relock` the two halves of
`pthread_cond_wait`, `WakeAndUnlock` a signal (one waiter of either kind, or none)
or a broadcast, `SpuriousWakeup` the return from a wait that POSIX allows.
`ConsumerSeesEnd`, `ConsumerWaits` and `ConsumerTakes` are the three ways through
`consumer_thread`, `ProducerWaits` and `ProducerPuts` those through
`producer_thread`; after a wait both go round their loop, as the code does.
A consumer's `score` is the size of the history variable `taken[c]`.
**BoundedStack** is the specification of it: numbers pass through a stack of
bounded depth, and one mapping (`Stack == INSTANCE BoundedStack WITH ...`) leads
from the threads to it.

**MultiThreadQueue** over **LinkedList** (`c/multi-thread-queue`: `main.c`,
`queue.c`, `list.c`).  LinkedList is the list as operators on a heap of `next`,
`prev` and `data`; MultiThreadQueue has the queue operations over them, and one
action per critical section.  `g_lock` and `t_lock` guard a single statement each,
so `Announce`, `GateWait` and `OpenGate` are one step each, and the window between
the first two is the point.  `QEnqueueFails` is a `malloc` that returns NULL.
**FifoQueue** is what the queue promises; `ImplementsFifo` maps it.

**DnsRelay** (`tools/dnsrelay`: `main.py`, `dnscache.py`, `cron.py`, with
`config.py`).  Every datastore call and every web query of a request is a step, so
two requests and the cron job interleave between any two of them; `UpdateRead` and
`UpdatePut` are the two calls of `DNSCacheManager.update`.  A datastore call may
raise, before or after the effect (`DatastoreFails`, `UpdatePut`), and so may those of
the cron job, which ends it (`CronRaises`).  What a page of
a web service says is any address or none.  Python's unassigned `ret` is the value
`Unbound`.  `age.seconds` is the age modulo a day.  A tick of the clock stands for
hours, and passes between requests only: App Engine ends a request after seconds.
**DnsHosts** (`dnshosts.py`, `DNSHostsManagerHandler` of `main.py`) is the
administration of the hosts list: `Load` parses a page, which is empty when the download
fails, and `AddQuery` and `AddPut`
are the two calls of `add_host` for each of its hosts; `DelAll` and `Delete` empty
the list key by key (its keys are read at once: there are fewer hosts than the batches of
`Host.all()` hold); every call may raise, a put with or without having stored the
host.  `del_host` has no handler and is left out.  **DnsService** composes the two.
To a request the list is an address or none at any time (`LookupHosts`), which is
all that the administrators can do to it, so a behaviour is either one of requests
or one of administrators (`part`), and the states add up instead of multiplying.

**IPSeeker** (`tools/qqwry-ip/evaipseeker.cpp`, `searchIP`).  One turn of the loop
is a step, over any index that is sorted.  An offset that the code computes is a
tagged value, which tells an offset of an index entry from that of a record.
**EvaIPAddress** (`evaipaddress.cpp`) is an address from its text and back, as
operators that keep the code's positions `start` and `end`.  `Atoi` is what glibc makes of
it, `strtol` cut to an int, for any width of both; `Overruns` says when what `toString`
prints is more than its buffer holds, which makes the rest undefined.  **IPLocation**
(`getIPLocation`, `getIPRecord`, `readArea`, and the loop of `main.cpp`) composes
both: a query is `Ask`, then `Refuse`, `NoFile`, `NoIndex` or `OpenFile`, the steps
of the search, and `Locate`; the stream and its `is_open()` outlive a query.  `File`
is what the format has around a record for each way to write country and area; the
code follows it by offsets.  A string is what it says and its length.

**StringFind** (`c/string-find.c`).  A call of `string_find_recurse` is a step.
A byte outside of the two strings has no value: reading it leads to `"undefined"`.
**StringAlgorithms** has `string_compare` and the chunks of `c/hex-dec.c` as
operators, compared with their references on the strings that StringFind starts
from; sums wrap as the code's 16-bit `short` does.

**SevenSquare** (`lisp/adb.rkt`, `lisp/seven-square.rkt`).  The module body, the
timer's callback `fb-capture` and the threads of `start-wait-thread` all run
`query`; a step ends at each read or write of the socket and, in the waiting
thread, between `(set! wait-thread-id #f)` and the start of the timer.  `Assign`
is a step of its own since the thread runs before its id is stored.  Server and
device come and go at any time (`Environment`), and a link that breaks is seen as
an end of file or as a network error: both happen, `query` handles only the
second, and only where it has a handler.  The server may answer FAIL.  Racket's `timer%`
is armed again when its callback returns: an exception that leaves it (`Uncaught`,
`Raises`, a frame that cannot be drawn) leaves no timer, and the history variable
`escaped` records that.

**MandelbrotTiles** (`mandelbrot-class.rkt` `get-bytes`, `mandelbrot-worker.rkt`).
Four places and the main place, each a process.  Sides halve to exact fractions in
Racket, so coordinates are doubled and byte offsets counted in half pixels.
**MandelbrotView** (`mandelbrot-class.rkt`, `mandelbrot-ui.rkt`) takes an image for
the fields it was computed from and models the events: a resize, a click that
zooms, a click that sends its viewport to the next viewer.  A viewport in `Fixed` is one
that zooming leaves as it is: after some 27 clicks its corners are equal.  Of MandelbrotTiles it
uses the result only: `get-bytes` raises for odd sides.

**FatDir** (`lua/fat.lua`, `fat-shell.lua`).  `stack` holds the calls of `read_dir`
and a step is one turn of the loop of the innermost one.  The image is not chosen
at the start: an entry is chosen when it is first looked at, so a behaviour stands
for all images that agree on what was looked at.  Any entry may have bit 6 of its first
byte set or not, which `dirlfn` tests; no entry names cluster 0 or 1 (see below).  **FatShell** is `fat-shell.lua`
around it: `ReadBoot` (with the FSInfo sector), `ReadFat` and `PrintFat`, each of which may raise,
and then the walk.  Offsets in the FAT are computed as the code does, and `Slot` says what lies
there; `Reads` is the test of `Bytes`, and `FatLength` how much of the active FAT the image
has, which need not be one of the copies.  The number of clusters and the size of a
cluster that FatDir takes for given come out of the boot sector.

**UEventView** (`tools/uevent-view/main.c`).  One step per call of the loop in
`monitor_kevents`; the kernel's queue and the signals are the environment.
`missed` counts the signals handled while the flag had been tested and `select`
was not yet called.  **KernelMessage** is `dump_event`, a fold over the characters
of a message.  **InotifyWatcher** (`tools/inotify/inotify-watcher.c`) is the same
loop over `read`: `Read` takes one event or more, `DumpEvent` is one turn of the
inner loop, `Stop` the handler.  Whether a handled signal ends a blocked `read`
depends on the kernel and is chosen at the start.  **Watchers** composes the two
tools as alternatives, so that one run checks both.

The two **MC** modules only give constants their values.

## Runs

A run is one question.  States are the distinct states TLC finds; most runs take
less than a minute, `fat_dir` about two.

| Run | Module, configuration | What it checks and shows | Bounds, and why they are enough |
|---|---|---|---|
| `producer_consumer` | ProducerConsumer, `ProducerConsumer.cfg` | `ExactlyOnce`: each number is not yet put, in one slot, or taken by one consumer. `NoLostWakeup`: a sleeping producer has a consumer awake to wake it.  `ImplementsStack`. `Termination`, with at most one buffer of numbers left unconsumed. | 3 consumers and 2 slots, the most consumers that 2 slots allow; 4 numbers, so the buffer fills, the producer sleeps, and all go on; one spurious wakeup. 367 000 states. The theorems cover every size, the code's 4 consumers and 3 slots among them. |
| `multi_thread_queue` | MultiThreadQueue, `MultiThreadQueue.cfg` | `ListIntact`: the pointers form one ring of exactly the allocated nodes. `DrainedBeforeClean`: nothing is left when the queue is destroyed, nobody uses it, and the consumers' counts exceed the nodes removed by one each (`CountsRemovals`). `ImplementsFifo`. `HangsOnlyAtGate`: the missed broadcast is the only way to hang. | 3 consumers and 4 nodes: first, middle and last node of the ring are all removed, some with the consumers racing, and any subset of the `malloc`s fails. 60 000 states. |
| `queue_gate` (violation) | MultiThreadQueue, `MultiThreadQueue_gate.cfg` | `WakesAllConsumers`, which a comment of the code says, is violated. | 2 consumers, 1 node; no spurious wakeup, so that the counterexample needs none. |
| `dns_relay` | MCDnsRelay, `DnsRelay.cfg` | `StaleOnlyIf`: an address older than `cache_life` is served only when its age has whole days or a failed lookup renewed its date. `NeverOvercounts`: lost updates, duplicates and resurrected entities never make the counters exceed the lookups. `UnboundOnlyIf`: only with the cache and the hosts list off is a request left without an answer. `CronEnds`: the fetch-and-delete loop ends although requests put back what it deletes. `AloneIsExact`: an administrator's load or delall that runs alone leaves what was asked for, over whatever overlapping ones left. `TwiceOnlyIfOverlapped`: without overlap no domain is listed twice, whatever raises. | 2 requests, so every pair of interleaved updates; all 8 settings of the three switches; life 1, day 2, cron life 2, and time up to 3: what matters is life < day ≤ cron life and a time beyond the day. 2 keys allow the duplicate, a fetch of one entity makes the cron loop go round. 2 administrators, one after another for ever, 4 pages (two domains on a line, localhost and an incomplete line, a domain listed twice, none at all), 3 keys: a duplicate and another domain. 460 000 states. |
| `ipseeker` | IPLocation, `IPSeeker.cfg` | `ParsesDotted`: a text is accepted if and only if it has four parts, each in range when cut down to an int, not all 0, and the address has these parts. `FindsHolder`: the search finds the record that holds the address, or none. `LocatesRecord`: the answer is the country and area of that record, through any redirection. `EchoesAddress`: without a usable file, and only then, the address itself, after any earlier queries, with a sign on the first part from 128 on; only such an address may overrun the buffer. `Answers`: every query is answered, or has overrun it. | Every index of 1 to 4 ranges that begin and end at five addresses, with and without gaps: both parities of every half, both ends. Base 2 instead of 256, so 16 addresses; every text of up to 6 characters over two digits, dot and another; an int of 16 values and a long up to 127, so that numbers of two digits wrap and numbers of three may be too long; a buffer that the addresses without a sign just fit. Strings that just fit the buffer and just do not. Queries one after another for ever. 66 000 states. |
| `ipseeker_first` (violation) | IPSeeker, `IPSeeker_first.cfg` | `ReturnsRecord`, which the comment above `searchIP` says, is violated for the first address. | 2 ranges over 4 addresses. |
| `string_find` | StringAlgorithms, `StringFind.cfg` | `FindsFirst`: the first occurrence or -1. `ReadsInside`: only an empty pattern leads outside of the strings. `CompareAsStrncmp`: `string_compare` is `strncmp` but for the cases it names. `ChunksInHex`: hex-dec prints the low 16 bits of every chunk, with `a` for fifteen and no other lower case digit. | Every string up to 4 and pattern up to 3 characters over a digit, a capital and two lower case letters; 4 digits are where the 16 bits wrap. 136 000 states. |
| `seven_square` | SevenSquare, `SevenSquare.cfg` | `OneQuery`: queries of the shared adb object never overlap. `KeepsWatching`: until it is closed there is a timer or a thread to start it, if and only if no exception has escaped and no thread spins. `ClosedMeansQuiet`: closing ends it all, but for a thread between its last two acts. `HashIsShown`: when a frame is compared with the last hash, the frame of that hash is the one shown. `Recovers`: when server and device are back for good frames are read again, but for the same two cases. | 6 changes of server and device: lost and back three times. 2 threads, since one may be over and its successor started; 4 frames of two sizes, one with too few bytes. 29 800 states. |
| `mandelbrot_tiles` | MandelbrotTiles, `MandelbrotTiles.cfg` | `ImageWhole`: every pixel has been computed for its own point. `EndsBySides`: `get-bytes` returns for even sides and raises for odd ones; only with a side of 1 may it wait for ever. | All sides from 1 to 6, which is even and odd halves of even and odd sides, and every order in which four places finish. |
| `mandelbrot_view` | MandelbrotView, `MandelbrotView.cfg` | `ShowsPresent`: each canvas shows the image of its present viewport, size and limit, unless its last computation raised; at a viewport that zooming leaves as it is the limit may be another. | The three viewers of the program; 2 viewports that zooming changes and one that it does not, an even and an odd size, the real iteration limits. 2 015 000 states. |
| `fat_dir` | MCFatDir, `FatDir.cfg` | `TableOfImage`: the table has every cluster with its slot of the active FAT, but for the last cluster, the last slot and clusters that a short FAT has no slot for. `ListsTree`: of a sound image every reachable entry is printed once at its depth. `NamesOwnRun`: an entry with a whole long name is printed with it, put together from its own parts, an entry without one with its own name. `ShellEnds`: the shell comes to an end unless directories form a cycle, and raises for nothing but an image that is not FAT32, has fewer clusters than it prints, or has its FSInfo sector or active FAT outside. | 3 clusters of 2 entries, 1 of 4 and 1 of 3, with a read buffer of 3 entries: clusters smaller than it, larger, and as large, as 512, 4096 and 2048 bytes are in the code; entries of any kind. Boot sectors for each: one or two reserved sectors, a FAT that is short, full or has room, the active one a copy, none, in the data, across the end of the image or beyond, the FSInfo sector in or beyond, FAT32 or not, data that clusters fill or not. A Lua stack of 3 calls lets any tree of 3 clusters be walked. 1 225 000 states. |
| `uevent_view` | Watchers, `UEventView.cfg` | `NoSilentGap`: what uevent-view prints is what was sent, in order, with no gap. `KeysOnLines`: every field of a message gets a line of its own with its key set off. `PrintsWhatItRead`: inotify-watcher prints every named event it has read, in order; what the kernel drops leaves a gap. `SignalEnds`, `StopEnds`: a signal ends either tool unless all of them came between the test of the flag and the end of the call that blocks. | A socket buffer of 2 that 4 messages can overrun, 3 signals; an event queue of 2 that 4 events can overflow, 2 signals; messages of up to two fields with keys and values of up to three characters. 17 000 states. |

`CHECK_DEADLOCK FALSE` stands where the program may really stop: it has exited,
hangs as the properties say, or waits for input that need not come.
What bounds leave out: more than one spurious wakeup per behaviour, more than two
requests or administrators at a time, more than six entries of a FAT image.

## Fairness

- ProducerConsumer and MultiThreadQueue: weak fairness of each thread, since the
  scheduler runs every thread that can run.  No fairness of the mutex is assumed
  (a consumer may overtake the others for ever while there is something to take),
  and no spurious wakeup has to happen.
- DnsService: weak fairness of a cron job that was started.  Requests may stop
  anywhere, as they do when App Engine ends them, and nothing starts a cron job.
- IPLocation, FatShell: a sequential program goes on; nobody has to ask for another
  address.
- SevenSquare: weak fairness of the main thread with its timer and of each waiting
  thread; none of the server, the device or the user.
- MandelbrotTiles: weak fairness of each place, which are processes.
- Watchers: weak fairness of the program that runs, none of the kernel or of signals.
- StringAlgorithms has none: that the recursion is over is not stated.
- MandelbrotView has no liveness property: nothing happens unless the user clicks.

## Proofs

The theorems hold for every value of the constants that satisfies the named
assumptions of the module, which TLC evaluates in every run.

**ProducerConsumerProof** proves `TypeCorrect`, `EachNumberOnce`, `WakeupsSuffice`
and `BufferIsBoundedStack`.  `NoLostWakeup` is not inductive: that somebody is awake
now says nothing of how many will be after the next few signals have woken the
wrong kind of thread.  `WakeupBudget` counts instead: a consumer falls asleep only
at an empty buffer, and each number put or taken since has woken one sleeper; so
when the producer falls asleep at a full buffer, after at least BUFFER_MAX puts, at
most as many consumers as there are beyond BUFFER_MAX are asleep, and each take
from then on wakes one more.  The invariant is
`TypeOK /\ Control /\ WakeupBudget /\ ExactlyOnce`, where `Control` says who can be
where.  It needs `FewConsumers`: fewer than 2 * BUFFER_MAX consumers.  With as
many, all threads can fall asleep: without that assumption TLC finds the deadlock
with 4 consumers, 2 slots and 8 numbers.  The code's 4 consumers and 3 slots are below
the limit of 6, so a step that nobody states keeps this program alive.  The
refinement is one lemma per step: `ProducerPuts` is `Push`, `ConsumerTakes` is
`Pop`, `MainEnds` is `Close`, any other step changes nothing of the stack.

**MultiThreadQueueProof** proves `RingIntact` (`ListIntact`), `CountsAreRight`,
`DrainedFirst` (`DrainedBeforeClean`) and `FifoImplemented` (`ImplementsFifo`), for any
consumers, nodes and addresses and whichever `malloc`s fail.  `ListIntact` speaks of
the ring as a whole; `Linked` says the same pointer by pointer, so that it can be carried through `list_add` and `list_remove`, which are lemmas about any ring
(`HoldsIsLinked` leads back).  `Linked` alone is not inductive: that a node `malloc`
returns is not in the ring needs `mem` to be exactly its nodes, and that nobody adds
once consumers run needs `Control`, which says who can be where.  `Drained` adds that
the ring is empty from the first consumer that left.  The invariant is
`TypeOK /\ Control /\ Ring /\ Drained`; `Counted` comes on top of it and counts the
turns of all consumers as one finite set.  In the refinement `MainFills` is an offer
accepted or refused, a removal by whichever thread is `Fifo`'s, and the rest stutters.

**DnsServiceProof** proves, of `SSpec`, `StaleAnswers` (`StaleOnlyIf`), `CountsBounded`
(`NeverOvercounts`), `UnboundAnswers` (`UnboundOnlyIf`) and `ListedTwice`
(`TwiceOnlyIfOverlapped`), and `ExactAlone` (`AloneIsExact`), for any number of requests, keys, domains, addresses,
administrators and pages.  `NeverOvercounts` speaks of the entities stored, and is not
inductive: an entity that a request has read may have been deleted or counted up since,
and will be written back as it was.  `Tallies` therefore bounds the union of what is
stored and what is held (`Hits \cup HeldHits`), together with the updates that are
under way, by the updates started; a put replaces stored by held, a failed put or a
deletion only takes away.  It needs finitely many requests.  `StaleOnlyIf` needs the
dates of all entities, stored and held (`Hosts` in `RTypeOK`): in the past, and equal to
the time the address was obtained unless a lookup failed since.  `Assigned` follows
`ret` through both web services.  For the hosts list the invariant is
`overlap \/ (OneAtWork /\ ListedOnce /\ FoundStands)`: as long as nothing has overlapped,
what the query of `add_host` found is still so at its put.

`AloneIsExact` compares the list with the end of a load or delall that began alone and
raised nothing.  The invariant `AInv` relates every step between: the work that is left
(`todo`) is a rest of what was flattened from the page or queried by delall, the domains
before it are listed with the last address the page has for them, and the others as they
were at the start.  What a page lists is a recursive function over its rows.  The theorem
on recursion over numbers takes an operator and cannot be cited, so `Recursion` derives
that such a function exists from `AllNat`, which is induction for a *set* of
numbers; `PutLooksUp` and `RowMapNext` then give its value row by row.  The model's
`PagesAssumption` says what a page is: rows of finitely many names, each with an address.

**IPSeekerProof** proves `TypeCorrect`, `BracketHolds` and `SearchCorrect` for an
index of any size.  The invariant is `TypeOK /\ Bracket /\ Reached /\ FindsHolder`:
`Bracket` (the last entry that starts before the address lies between i and j) is
inductive with `Reached`, which says when the loop has been entered; `FindsHolder`
follows at the exit since the ranges do not overlap (`OneHolder`), and needs
`MiddleInside`: the middle of two different entries lies right of the left one.
Of the whole program (`LSpec`) it proves `EverySearchCorrect` (`FindsHolder`) and
`RightLocation` (`LocatesRecord`), for any strings and any length of the buffer.  `LInv`
is the search's invariant, which a new query does not disturb (`NewSearch`: before the
search begins it says nothing of the address), and that an answer comes from the
record found; what `getIPRecord` makes of each layout are lemmas by cases.  That a text
yields an address within the bounds of the search rests on the test of every part
against Base and on the assumption `MaxIP = Base * Base * Base * Base - 1`: four parts
below Base, as four bytes in the code.  `TextsParsed` (`ParsesDotted`) and
`AddressEchoed` (`EchoesAddress`) hold for every even Base up to 256, every text of digits,
dots and other characters, and files of any kind.  `EInv` says that the address of a call
is that of its argument, that the file is open during the search alone, and what the
answer is otherwise.  Under it lies `TextParsed`: three dots cut a text where `getIntIP`'s
`start` and `end` do (`Parsed`, `Values`), an empty part is 0, and the parts of the number
are those it was put together from (`PartsOf`, from the uniqueness of division), so that
the number is 0 only if they all are.  `FirstHalf` is the sign of the first part, and an
address without a sign fits the buffer by `AddressAssumption`, so that `Overruns` implies
a sign.  What an int holds is in `NumberHeld`: a part that a long holds is cut to its
remainder, with a sign from half of `IntSpan` on, and a longer one becomes the greatest
int or -1 (`IntAssumption`, true of every width of int and long there is), which no part
may be; `NumberIsNat` says that digits write a number.

**MandelbrotProof** proves `PresentShown` (`ShowsPresent`), for any number of viewers,
viewports and sizes, and `WholeImage` (`ImageWhole`), for images of any sides.  The
invariant of the viewers is that each is `Settled` between two events: no field waits
for a refresh and the bitmap is that of the fields (`Current`: at a viewport in `Fixed`,
up to the iteration limit); an image that raises leaves it unsettled until a later one
does not.  For the tiles `GInv` says that every tile copied
so far fitted and its points are still there; a tile leaves the others alone because
two lines share no byte (`LinesDisjoint`) and a pixel belongs to one line of one tile;
an odd side never comes to the end, since the last line of the last tile does not fit.
This is arithmetic with products of two variables, which needed to be led step by step.

**WatchersProof** proves, of `WSpec`, `NothingSkipped` (`NoSilentGap`) and
`ReadIsPrinted` (`PrintsWhatItRead`), for buffers and queues of any size and any
messages and signals.  `Consecutive` relates what `NoSilentGap` does not mention: the
message held and those queued follow on what is printed up to the last one sent, or, when
one was lost, the socket's buffer is full and its error is seen before anything sent
later.  `InOrder` does so for `printed \o buffer \o events`: it grows, is part of what
happened, and is all of it as long as the queue has not overflown.

**SequentialProof** has the programs of one process and constant input.

Of **StringFind** it proves `FindCorrect`, `FindReadsInside`, `TypeCorrect` and
`CompareCorrect` for strings of every length.  The invariant adds `Searching` (the characters compared
so far agree, and the pattern occurs nowhere before `pos`) and `EmptyRunsOut`.
That no byte outside is read follows from the first part: the NUL of `str` agrees
with no character of the pattern.  `CompareCorrect` (`CompareAsStrncmp`) rests on
`TurnsMost`: the loop's turns are defined as a maximum, whose existence has to be proved
(`MaxExists`), and on `AgreeLengths`: strings that agree beyond an end are equal.

Of `c/hex-dec.c` it proves `ChunksCorrect` (`ChunksInHex`), for strings of every length and
chunks of every size up to one beyond it, from `CodesAssumption`: a character is a signed
byte and the NUL is 0.  The loop reads from the last digit on and the reference from the
first, so neither recursion is a part of the other.  They meet in what holds after n turns
(`ChunkRead`): the number of the whole chunk is `base` times that of the digits before,
plus `ret`, up to multiples of 65536; as long as there are at most three digits `ret` has
not wrapped, and it is that exactly.  That the recursive functions exist is `Turned`, with
what each turn keeps as a set of numbers (`AllNat`), since an induction theorem with an
operator as its parameter cannot be used.

Of **FatShell** it proves `TreeListed` (`ListsTree`), `NamesTaken` (`NamesOwnRun`) and
`TableRight` (`TableOfImage`), for images, clusters, buffers and boot sectors of any size.
The properties speak of what an image lists and reaches, but its entries are chosen as they
are read, and choosing an end takes away from what may be listed.  The invariants
therefore speak of what has been *seen* (`Seen`, `SeenReached`), which only grows
(`SeenStays`) and is part of what is listed (`SeenIsListed`).  `WalkOK` says of each call
(`FrameOK`) that its directory is reached and all before `idx` is read and shown, of
each line (`LineOK`) that its place is seen, named at its depth by an earlier line, and has
the whole long name before it or is named by its own, and of each directory that was named (`Complete`) that it
has been gone through or a call is at it.  When the walk is done there is no call, so
what the lines name is closed under going into directories and contains all that is
reached (`AllShown`).  That no entry is shown twice is not inductive: an image
whose directories overlap breaks it.  `Tainted` says that what has been seen already
shows the image not to be sound, and stays so; `Tainted \/ Once` is inductive, where
`Once` says besides that no two calls are at one directory and that in the cluster of a call
only places before `idx` have been shown; a directory entered twice would have been
named by two entries, and those are seen.  Which name an entry gets rests
on `longname_idx`: it is 0 if and only if the entry before is no part of a long name
(`OwnNameTaken` for the turn that prints).  The table is arithmetic: division by a
variable has one result (`Quotient`), so the exact division in `ClusterOffset` counts one
sector of no entries (`ClustersCounted`) and an offset lies in the slot it was meant for
(`SlotTaken`), in what the image has of the active FAT (`LengthIs`).

**SevenSquareProof** proves `QueriesExclude`, `WatchKept`, `CloseEnds` and
`HashShown`, for any number of changes, threads and frames.  The invariant is
`PcOK /\ Control /\ EscapeEnds /\ Watched /\ ClosedMeansQuiet`.  `Control` holds what is
written nowhere in the code: timer and waiting thread exclude each other, at most
one waiting thread is alive, and its id is known or about to be stored, so that
`on-close` kills the right one.  `EscapeEnds` says that nothing is left to go on after an
exception has escaped, `Watched` that without one something is; `KeepsWatching` is both,
with the thread that spins taken out.  For `HashShown` `HashKnown` is added: the hash is
that of the bitmap, or its frame could not be drawn, which ends the polling.

Model-checked only:

- all liveness properties and what is said with `ENABLED`, which the prover does not
  treat: `Termination`, `HangsOnlyAtGate`, `CronEnds`, `Answers`, `Recovers`, `EndsBySides`,
  `ShellEnds`, `SignalEnds`, `StopEnds`;
- `KeysOnLines`: it speaks of one finite set of messages, in which no constant occurs, and
  TLC evaluates it for all of them.

No RECURSIVE operator is used, so that every module can be proved about.

## What the code does against its word

Two disagreements have a run each:

- **`queue_gate`**: "Wake up all consumer thread" (`main.c:63`).  A consumer counts
  as ready (`main.c:35`) before it waits (`main.c:39-40`), without a predicate.  A
  broadcast in between is lost: that consumer sleeps for ever and `main` hangs.
- **`ipseeker_first`**: "return the offset of IP record if found"
  (`evaipseeker.cpp:78`).  For the first address of the index line 93 returns the
  offset of the index entry instead.

These are stated by a property that holds, with the exception in it:

- `config.py` says a cached address lives 6 hours; `dnscache.py:79` compares
  `life.seconds`, which leaves out whole days, and a failed lookup renews the date of
  an address it did not renew (`dnscache.py:46-49`).  `StaleOnlyIf` names both.
- With hosts list and cache off, `main.py:103` may read `ret` before it was assigned
  (`UnboundOnlyIf`).
- A server that dies while `wait-for-device` runs leaves the loop of `adb.rkt:125`
  spinning, or an exception that nobody handles; an exception that leaves the timer's
  callback (`adb.rkt:53`, `seven-square.rkt:143`, `159`) ends the polling for good.  In
  neither case does the window say so (`KeepsWatching`, `Recovers`).
- After some 27 clicks a viewport is too small to change.  A further click changes the
  iteration limit and no field that asks for a new image (`mandelbrot-class.rkt:68-75`,
  `92-96`), so the canvas shows an image of another limit (`ShowsPresent`).
- Closing the window between the two last acts of the waiting thread starts the
  timer after all (`ClosedMeansQuiet`).
- An odd side makes `get-bytes` raise, a side of 1 makes it wait for ever
  (`EndsBySides`).
- A signal between the test of the flag and `select` is not noticed (`SignalEnds`);
  nor is one in the `read` of inotify-watcher, which `signal()` restarts (`StopEnds`).
- inotify-watcher passes over events in silence when the kernel's queue overflows
  (`PrintsWhatItRead`).
- An empty pattern makes `string_find` read outside of its strings (`ReadsInside`).
- A directory cycle in a FAT image ends in a stack overflow, an image without
  FLAG_FAT32 in an error (`fat.lua:118` applies `&` to nil), and so do one with fewer than 15
  entries and one whose FSInfo sector or active FAT is outside of the image: the read
  gives nil, of which `Bytes` takes the length (`fat.lua:52`, `76-84`, `122`; `ShellEnds`).  The last entry of a full FAT is taken for free, and the
  table lacks the last cluster where clusters fill the data area: the exact division
  of `fat.lua:141` makes `ceil` count a sector of no root directory (`TableOfImage`).
- "if IP is not valid or the Data file missed then return IP address"
  (`evaipseeker.cpp:273`): a text that is no address, and `0.0.0.0`, is answered by
  `0.0.0.0`; from 128 on the first part is printed as a negative number, and
  `-128.255.255.255` with its NUL is 17 bytes in a buffer of 16 (`evaipaddress.cpp:70`);
  `4294967297.0.0.1` is taken for `1.0.0.1`, since `atoi` returns an int
  (`evaipaddress.cpp:115`, `ParsesDotted`); a country of
  80 characters or more loses its area (`EchoesAddress`, `LocatesRecord`).
- `string_compare` goes on where `strncmp`, which it is tested against
  (`string-find.c:143`), stops, and never says "greater" of a string of the length
  compared (`CompareAsStrncmp`).
- `UPCASE` subtracts 27 where 32 is meant (`hex-dec.c:8`), so of the lower case digits
  `a` is read as `F` and the others as 0 (`ChunksInHex`).
- Two loads of the hosts list that overlap leave a domain with two entities, of which
  only one is updated from then on (`TwiceOnlyIfOverlapped`; lookups stay exact,
  `AloneIsExact`).

And these were met while reading and no run treats them: without a server
`wait-for-device` returns at once, as if the device were there (`adb.rkt:73`,
`120`); `is_dirty` says true where the bits of a clean volume are set
(`fat.lua:180`, `183`); the step of 80 takes the iteration limit of the Mandelbrot
viewer to 1010, beyond its maximum of 1000; `EvaIPAddress::setAddress`, which
nothing calls, never makes an address valid; hex-dec divides by a chunk size of 0 if it is
given one (`hex-dec.c:84`).

## Not modelled

The components of `PROJECT.json` with status `not_modelled` say why.  In short:
planned is the dumpstate viewer; left out for good are the small algorithms (a
rotation, a count of bits, CRC16), which a test settles, `inspect.lua` and `seeker.c` (by other authors), the demonstrations,
and the transcripts of tutorials, which keep no state that several steps share.
Within the modelled slices data are abstracted where no property looks at them:
the pages of web services, the layout of a frame's header, the colors of pixels,
the characters of names and the labels of events.

Left out inside a modelled component, by choice:

- the kernel joins equal inotify events that follow each other unread: what was joined
  would be printed once, and no property counts equal events;
- `Host.all()` fetches in batches: the list of one administrator is smaller than one;
- `string_compare` and `bt_char2_to_byte` refuse NULL (`string-find.c:36-38`,
  `hex-dec.c:39-42`), which no caller passes; the int `base` of the latter overflows from
  eight digits on (`hex-dec.c:48`), which the usual build wraps, so that its low 16 bits
  stay 0;
- a directory entry that names cluster 0 or 1 leads `read_dir` to an address in the FAT
  or before it (`fat.lua:341`), where what it reads is no directory.

## Plan

The models above hold the concurrency and the failures of the repository.  What is
left is **Dumpstate** (`dumpstate-viewer.py`): the table of sections over changing
tabs, where a row can name a line of another document; and `unshake` and
`isValidHostname` of `dns.py` over short names.

Every safety property a run checks is proved but for `KeysOnLines`; what would be
worth proving with other provers is that the threads of ProducerConsumer end
(`Termination`), whose safety part, `NoLostWakeup`, is proved.
