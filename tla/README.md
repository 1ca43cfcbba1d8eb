# tv_grab_dvb_plus: specifications, model checks and proofs

tv_grab_dvb_plus reads a programme guide from a DVB receiver (or from a recorded stream) and writes
it as an XMLTV document. This directory holds TLA+ modules of the program's control (`src/src/`) and
of the threads of its companion `loadepg` (`src/loadepg/`), the TLC configurations that check them
on small instances, and TLAPS proofs for instances of every size.

To check one run: `tlc -config MCSky.cfg MCSky.tla`; to check a module of proofs:
`tlapm SkyBatProofs.tla`.

## 1. The system

The grabber is one thread. `main` reads the options, loads tables of identifiers, tunes the
frontend if a frequency was given, writes the XML header, opens the input, runs one of two
grabbers, and writes the footer. What makes it hard is not concurrency inside the program but what
surrounds it: tables that are broadcast as carousels nobody can ask to start, sections that are
damaged or missed, a kernel that queues, overflows and times out on its own, and fixed-size tables.
`loadepg` is threaded: a task that grabs, a supervisor that starts and ends it, and (in the VDR
plugin) VDR's own thread share flags, an object and global tables without a lock.

| Component | Source | State it keeps | Operations | Hard part | Correct when |
|---|---|---|---|---|---|
| Section-filter scheduler (Sky, MediaHighway) | `sky_epg.cpp` 1044-1250 | filters with a `Step`, slots with a handle, `IsRunning`, `IsError` | add, open, retire, start, poll, read, stop | more filters than slots; timers, overflows; a slot outlives its filter | slots and filters agree; nothing is attributed wrongly; the guide is written last; the grab ends |
| Sky BAT handler | `sky_epg.cpp` 1558-1845 | bouquets with a counter per section, channels, `EndBAT` | one section | the end of the list is deduced by counting | the end is declared exactly when the list is complete |
| Sky SDT handler | `sky_epg.cpp` 1432-1557 | `firstSDTChannel`, `nChannelUpdates`, `EndSDT` | one section | runs beside the BAT handler; the end is deduced from repetition | every service has given its name |
| Sky titles and summaries | `sky_epg.cpp` 1847-1990 | `InitialBuffer`, tables, text buffers | one section | filters share tables; tables change and fill up | a finished turn stored everything once |
| Join of titles, summaries, channels | `sky_epg.cpp` 992-1039, 2511-2704 | sorted arrays | sort, search, write | searching with another order than the sort's | each programme gets its own summary and channel |
| Sky text decoding | `sky_epg.cpp` 1995-2045, 2760- | Huffman tree | read dictionary, decode | malformed dictionaries | decoding inverts the code |
| MediaHighway handlers | `sky_epg.cpp` 2046-2505 | the same tables | one section | never run | |
| Event parser | `dvb_epg.cpp` 436-556 | the events seen, with a version | one section | repeated and re-versioned sections | each programme once; the deadline not moved for ever |
| DVB channel list | `dvb_parse.cpp` 26-158 | a linked list | one section, write | order of insertion | no service is lost |
| Grab loop and `cFilter` | `dvb_epg.cpp` 558-651, `filter.cpp` | filters, slots, `revents` over several calls, a buffer, a deadline | poll, read, handle | stale buffer, stale `revents` | no buffer handled twice or as another table; the grab ends |
| Freesat decoder | `freesat_huffman.cpp` | a window of 32 bits | one character | codes across the last byte | decoding inverts the code |
| Program | `main.cpp` | options, alarm, document, exit status | all of the above in order | SIGALRM; failures after the header | the status tells whether the document is closed |
| Tuner, tuning files | `tuner.cpp`, `dvb_scan.cpp`, `parse-dvbscan.cpp` | the frontend, the transponders | look up, set, wait for lock, retry, look again | partial failure, timeouts, device types | success only with a lock on what was asked for |
| loadepg's threads | `loadepg.c`, `grabepg.h` | flags, the task, the global tables, the document | start, stop, cancel, delete, report, write | no locks; a Stop at the wrong moment; a kill | tables outlive their users; the document is closed once; the user is told the truth; it ends |
| Channel identifiers, lookup | `chanid.cpp`, `lookup.cpp` | tables | load, look up | formats | |
| Descriptors and text | `dvb_info.cpp`, `dvb_text.cpp` | none | conversions | bounds | |
| Statistics, log, lists; libsi; experiments | | counters; vendored; not built | | | |

How they interact. The scheduler calls a table handler for each section (`ReadBuffer`); a handler
answers through the shared fields `Filters[].Step` (finished) and `IsError` (out of room). The BAT
handler hands the channel list to the SDT handler through `EndBAT`; both, and the title and summary
handlers, fill arrays that `CreateEpgXml` joins at the end, decoding each text. The DVB loop calls
`cFilter::Poll`, which returns one ready handle per call and keeps the rest for the next calls, and
passes the buffer to `parseEIT` or `parseSDT`; `parseEIT` moves the deadline of the loop. `main`
runs `tune` before it opens the input and arms the alarm in `openInput`; the grabber clears it.

## 2. Modules

| Module | Models | Extends |
|---|---|---|
| `FilterPool` | abstract: what a scheduler of filters promises | |
| `SkyFilters` | `AddFilter`, `StartFilter`, `StopFilter`, `PollingFilters`, the fate of a filter in `ReadBuffer` | |
| `SkyBat` | `GetChannelsSKYBOX` | |
| `SkySdt` | `SupplementChannelsSKYBOX` beside the BAT handler | `SkyBat` |
| `SkyTables` | `GetTitlesSKYBOX`, `GetSummariesSKYBOX` for several filters in the passes of the scheduler | |
| `SkyJoin` | `CreateEpgXml`, `CreateXmlChannels`: sorts, searches, what is written | |
| `SkyText` | `ReadFileDictionary`, `DecodeHuffmanCode` | |
| `DvbEit` | `parseEIT` and its list of events | |
| `DvbSdt` | `parseSDT` and its list | |
| `FreesatText` | `freesat_huffman_to_string` | |
| `DvbReader` | `openInput`, `cFilter`, `readEventTables`, with the event parser | `DvbEit` |
| `Tuner` | `tune`, with the parser of the tuning file | |
| `Main` | `main`, `openInput`, `finish_up`, the tuner in place, the grabbers from outside | `Tuner` |
| `LoadEpg` | `cTaskLoadepg::Action` as a thread, `EPGGrabber::Grab`, `cControlLoadepg::Action`, VDR's `cThread` | |
| `SkyFiltersProofs`, `SkyTablesProofs`, `MainProofs`, `LoadEpgProofs` | theorems about the module of that name | it and `TLAPS` |
| `SkyBatProofs` | theorems about the channel list and its names | `SkySdt` |
| `SkyGuideProofs` | theorems about the join and the decoding of texts | `SkyJoin`, `SkyText` |
| `DvbProofs` | theorems about the grab loop, its two handlers and the decoder | `DvbReader`, `DvbSdt`, `FreesatText` |
| `Recursion` | rules of induction and recursion for the loops over data | `TLAPS` |
| `MC*` | the constants of the runs | the modules of a run |

`PROJECT.json` maps each definition to the lines it stands for. Mutants (operators commented
"Mutant") are plausible mistakes in the code; each property of a passing run is shown to fail for
one of them. Where two parts share no state, a run checks them side by side and each of its
behaviours is of one of them (`MCSkyGuide`, `MCDvbTables`). Each module states the types of its
variables; those of `SkyFilters` and `LoadEpg` are proved, and the others can be added to the runs
as invariants (they hold there).

### SkyFilters

A slot is an entry of `ActiveFilters`, a filter an entry of `Filters`; `step`, `fd`, `filterId`,
`isBusy`, `isRunning`, `isError` are the fields of these names, and `phase` and `cursor` say where
the thread is in `PollingFilters`. Each loop over slots takes one step per slot, so that the kernel
acts between any two; the loop over filters that retires finished ones is one step (`Reap`), since
nothing in it reads the environment. A table handler is represented by what it can do to the
scheduler: nothing (`ReadGoesOn`), complete the channel list (`ReadLists`, which sets `listed`, the
code's `EndBAT`), finish the filter (`ReadFinishes`), fill a table (`ReadOverflowsTable`). Whether
it can finish is not up to the scheduler: `whole` is the set of filters whose table, as it is
broadcast, holds the end their handler looks for, and the filter of the names (`NamesFilter`) can
finish only when `listed` is set (`CanEnd`). The kernel (`Deliver`, `Overflow`, `Expire`,
`LoseSignal`) is external: a handle receives sections of the filter it is set to whether or not the
program wants them any more, a timer runs until the first section, and an unread handle stays
readable.

So the grab need not end, and `GrabEndsOnAir` says when it does not: when the list was given up by
its timer or by an error, the handler of the names passes over every section it receives
(`sky_epg.cpp:1435`), its filter is never finished, and its data keep the loop from timing out. The
same is true of a list in which a bouquet never says its name, and of names for which no channel is
in the list (with `-b` or `-B`). The property is that such filters are the only reason: everything
else is done, or they hold all the slots.

Two facts of the code are kept as they are: `open` returning -1 is accepted (`if (File)`), and a
freed slot keeps its kernel filter. `BadHandleCapsTheGrab` states what the first one means: with a
bad handle in slot *b* no more than *b* filters are ever started, since every waiting filter is
offered to the bad handle, refused and retired.

`FilterPool` says what remains when handles, polls and reads are forgotten: each filter runs at most
once, at most `MaxActive` at a time, and the outcome is "complete" only if all are over.
`SkyFilters` implements it under the mapping in `Pool == INSTANCE FilterPool WITH ...`; the run
checks it on an instance and `Implements` proves it for all.

### SkyBat, SkySdt

The carousel is a fixed sequence of sections, each of them once in a turn (`CarouselsAssumption`: one
version of each bouquet is on the air); the position is where the receiver listens. One action is
one way through the handler. `bouquets[b].seen` is `SectionNumber[]`: -1 for a section not seen,
-2 for the one that created the bouquet (which must come twice, so that the whole carousel has
passed), and a `short int` that wraps (`ShortMax`, 32767 in the code). `LoseBat` is a section that
fails its checksum or is overrun, `BatGivesUp` a read error or timeout that ends the filter early.
`SdtAssumption` says the same of the SDT: one version of it is on the air and a service is in it
once; the handler takes the second sight of its first service for a complete turn, so a service in
two places would end the turn at the second. In `SkySdt` either handler takes the next step; its
sections are left unread until `EndBAT`. A BAT filter that was given up never sets `EndBAT`, so no
channel gets a name then (`sky_epg.cpp:1435`).

A service counts for the end of the SDT when its channel is found, and has a name only when a
descriptor gives one (`GivesName`): a service descriptor whose type is one of five in its last three
bits (a type 0x16 is none of them), or a multilingual name. So a channel may be without a name at the
end with nothing lost, and `AllServicesNamed` says exactly which.

`NamedAtEnd` is about the declared end of the list. With `-b` or `-B`, `ShowSelectedInfo` also runs
after the list was given up or failed, and then takes `strlen` of the names of all known bouquets
(`sky_epg.cpp:527`, `942`), of which one may still be `NULL`; nothing in the code excludes it.

### SkyTables

One action per way through the handler for one section (`PassOverShort`, `FinishTurn`,
`TakeSection`, `ReadDamaged`, `ReadFails`), and one for the turn of the scheduler between two passes
(`Turn`), which chooses the filters found ready. The order of the reads in a pass is free, since
which slot a filter is in is not kept. `Header` is the first 20 bytes: what identifies a section,
and the version of its table. A full table sets `IsError` but the pass goes on, so other slots store
into the full table; `OvershootBounded` gives the exact limit, `MAX_TITLES + MAX_ACTIVE_FILTERS - 1`
entries, which is more than the array was allocated for (`calloc(MAX_TITLES, ...)`,
`sky_epg.cpp:498`).

The length of a title's text is a byte of the section less 7 (`sky_epg.cpp:1887`), in an `int`: below
7 it is negative, the test for room lets it pass, and `memcpy` takes it for a length near 2^64.
`CopyRunsAway` is that section: the process dies in it (phase "crashed"). The length of a summary is
the byte itself. `OvershootBounded` says that what is stored stays in its buffer, and that nothing
else than a title with a negative length on the air leads to that copy.

### SkyJoin, SkyText

`SkyJoin` sorts the three arrays with the comparators of the code (`qsort` may leave equal entries in
any order, so any sorted arrangement may come) and takes one step for each probe of `bsearch`.
`SearchIsExact` is the point: the arrays are sorted by more fields, and by another comparator, than
they are searched by, and the search is right only because each search comparator is a prefix of the
order of its array. `EachTitleOnce` and `ChannelsAnnounced` say what the document then has. Kept as
the code has it: without a channel, a summary or a dictionary no programme is written; of several
services with one `ChannelId` the programmes go to the one the search meets; the branch of
MediaHighway writes nothing.

`SkyText` reads a dictionary line by line into a tree (a node is its path) and follows one bit per
step. A code that another character ends (a carriage return) never gets its word; a NUL word is
written on the branch of the zero only (`Written`); of two lines with one code the first wins; after
a code that is not in the tree the rest goes to `DecodeErrorText`, which nothing reads. `TextIsExact`
compares the text with a reference definition of decoding.

### DvbEit, DvbSdt, FreesatText, DvbReader

`DvbEit` keeps the version an event was last seen in (`seen`), how often it was written (`shown`)
and what became of the listings of the last section (`handled`, history). Every reason to pass over
a listing, but being outside the period asked for, leaves `parseEIT`: `fate` is then "never reached"
for the listings after it. `DvbSdt` keeps the list as a sequence.

`FreesatText` takes one step per turn of the decoder's loop: the window of four bytes, zeros behind
the end of the text, the table of the character before, the escape. `FreesatTextIsExact` says that
every encoding of a text comes back as that text, although codes reach across the last byte. Behind
the loop the terminator is stored without the test for space that each character has
(`freesat_huffman.cpp:643`): when the characters fill the buffer it lies one byte behind it.
`FreesatTextIsExact` allows that byte and no more. It is not an artefact of the small table: with
the tables of the repository, 19 characters that are encoded in a text of 6 bytes fill the 19 bytes
allocated for it. A scan of the tables in `freesat_tables.cpp` shows that they are of the shape the
module assumes: codes of 1 to 22 bits, followed by a printable ASCII character or a mark; the codes
behind each character are complete and no code begins another, but for two entries of `START` that
earlier ones hide and one context that is empty and never entered; so `EntryMissing` does not occur
with them (the small table of the run has a code missing, to reach it).

`DvbReader` has the state of `cFilter` (`revents` and `pollIndex` live over several calls of
`Poll`), the buffer and its length `r`, the deadline as the number of ticks left, and the kernel as
in `SkyFilters`. The history variables `fresh` and `misparsed` record whether the section in the
buffer was handled already, or as another table than its handle receives.

### Tuner, Main

`Tuner` goes from the tuning file to the last look at the lock: `frontend` is what was set last,
`attempts`, `looks` and `unlocked` count, `failed` says that a system call failed. Kept as the code
has it: the first line of a frequency decides, even if it is for another kind of device and a later
one would fit; the flags line may be missed, since `strtok` examines a buffer before it is filled
(`ReadFlags`); a satellite transponder is set to frequency 0 (`USE_LNB` is not defined) and S2
always refused; rotor positions are read by nobody. `Main` runs it in the place of the call.

`document` is the sequence of the pieces written. `FinishUp` is the signal handler, which may run at
any moment at which the alarm is armed; tuning, loading the tables and opening the input may fail.
Reading the tables (`ReadEventTables` to `TablesRead`) may be cut off at any programme by
`convert_text`, which exits with 1 if `iconv_open` does not know the encoding of a text
(`dvb_text.cpp:131`, `ConversionFails`): the programmes written so far are then followed neither by
channels nor by a footer. `AlarmOnlyBeforeReading` says what there is for each status.

### LoadEpg

One module for both builds (`build`). `tpc` is where each task's thread is, `spc` where the
supervisor is (`EPGGrabber::Grab` stand-alone, `cControlLoadepg::Action` in the plugin), `upc` where
VDR's thread is. A step ends wherever another thread can make a difference to the next access, so
the flags `IsRunning`, `Loading`, `Stopping` and `Error` are read and written apart. `pthread_cancel`
marks a thread, which dies at its next cancellation point; `Cancel(2)` waits and then kills without
joining. What the models show of the code, beside the properties:

- the plugin frees the arrays and filters before it cancels the thread, and the stand-alone program
  deletes the task after a cancel that may have been a kill: `MemoryIsThere` holds exactly for tasks
  that were not broken off;
- `Stop` clears `IsRunning`, which the polling loop clears and sets again in every turn: a stop while
  slots are prepared is lost (`StopLostOnlyWhilePreparing` says it is lost nowhere else but before the
  polling), and the task is then killed;
- a `Stopping` left over from one load can stop the next, and a request answered "Wait loading epg
  data" can be lost between `Reset` and `Forget`;
- an allocation or a thread that fails, or files that cannot be opened, are still reported as
  "Completed loading" (`TellsHowItEnded` is about tasks whose thread was started).

## 3. Runs

Deadlock is not checked in any run: in all of them the program really ends, or a bounded input is
used up.

| Run | Shows | Bounds and why they are enough |
|---|---|---|
| `sky_filters` | `SlotsExclusive`, `BusySlotIsWired`, `ReadHasData`, `BadHandleCapsTheGrab`, `ImplementsPool`, `GrabEndsOnAir` | 5 filters wanted, a table of 4, 2 slots: a filter is dropped, filters wait, a slot is used twice, one slot may be bad; broadcasts in which every table has an end, or one does not: the list, the list and the names, or another |
| `sky_filters_silence` | violation of `SilenceStops`: a freed slot whose handle was never read makes `poll` return at once for ever, so silence does not end the grab | 2 filters, 2 slots: one freed, one running |
| `sky_channels` | `KnownBouquetsLoaded`, `AllBouquetsKnown`, `NamedAtEnd`, `AllServicesNamed`, `EndIsFinal`, `BatEnds`, `SdtEnds` | every order of three bouquets (two with two sections), joined anywhere, one section lost in each carousel; with and without a selected bouquet; a list that overflows; an unknown service, a service of two channels, services of types that give a name and of one that does not; `ShortMax` = 3 so that the counter wraps |
| `sky_tables` | `TurnIsComplete`, `RepeatedByLossOnly`, `OvershootBounded`, `TurnsEnd` | three filters on two slots, one filter misses a section, one table changes its version; table and buffer small enough to fill up; a title of a negative length |
| `sky_guide` | `SearchIsExact`, `EachTitleOnce`, `ChannelsAnnounced`, `TextIsExact` | up to three channels, two titles and two summaries in every order, with equal and missing keys; dictionaries of up to three lines with every kind of conflict; texts of up to eight bits |
| `dvb_tables` | `NoRepeats`, `VersionsFall`, `HeadIsSmallest`, `LostOnlyToSmaller`, `FreesatTextIsExact` | three versions (the largest one too), eight kinds of section, updates ignored or not; lists of up to 6 services; bytes of 3 bits, payloads of up to 4 bytes and every encoding of texts of up to 3 characters, so that codes cross every boundary |
| `dvb_eit_version` | violation of `DroppedIsSeenOrOlder`: a *newer* version of a known event is dropped, an older one is taken | |
| `dvb_reader` | `NeverMisparsed`, `ReadyIsReadable`, `DeviceGrabEnds` | two filters on two slots, two versions of a table, a deadline of two ticks |
| `dvb_reader_freesat` | violation of `EventsParsed`: the event pid of Freesat is received and not handled | |
| `main` | `StatusTellsClosed`, `AlarmOnlyBeforeReading`, `TunedMeansLocked`, `GivesUpLate` | all formats, all kinds of input, tuning files of up to two lines, for this device and another, complete and cut off |
| `main_input` | violation of `ReadsItsInput`: a file named with `-i` is examined and closed, and the standard input is read | |
| `loadepg` | `MemoryIsThere`, `StopLostOnlyWhilePreparing`, `TaskOnlyWhileLoading`, `TellsHowItEnded`, `DocumentCloses`, `GrabEnds`, `RedEnds` | two tasks, so that one follows another that was broken off; two providers, so that the choice can change; waits of one or two looks, so that each can run out |

Where the code and its own words differ. Besides the violations above, the models show these, which
no run is spent on:

- A programme that ends more than two weeks ahead is written: the operands of the difference are the
  other way round (`dvb_epg.cpp:518` against the comment in the line before).
- The loop over standard input ends on an error only, not at the end of the input
  (`dvb_epg.cpp:609`; in `DvbReader` the thread then turns for ever).
- A Freesat text whose characters fill their buffer has its terminator one byte behind it
  (`freesat_huffman.cpp:643` against the comment in lines 511-512; in `FreesatText`, `Len(uncompressed)`
  is then `alloc_size + 1`).
- A listing without descriptors leaves `parseEIT` and takes the listings after it along
  (`dvb_epg.cpp:501` against the comments in lines 459 and 499; the fate "never reached").
- `mhw1` and `mhw2` are accepted and nothing is grabbed for them (`main.cpp:558`; in `Main` the
  document is then a header and a footer, with status 0).
- The Sky grabber opens the adapter's demultiplexer whatever `-i` names (`sky_epg.cpp:1097`), and
  uses 60 s whatever `-t` says.
- `chanid.cpp:49` promises a manufactured identifier for an unknown key; the code returns `NULL`.
- `convert_text` gives the Freesat decoder `strlen` of a coded text (`dvb_text.cpp:124`), so one with
  a zero byte in it is cut there.

### Fairness

- `SkyFilters`: the thread keeps executing (`WF` of `Thread`: it is a loop around a `poll` with a
  timeout); timers of the kernel expire and a table on the air is repeated (`WF` of `Expire` and
  `Deliver`). `TablesComplete` (`SF` of `ReadLists` and of `ReadFinishes`) says that a handler that
  keeps receiving a table whose end it can recognise (`CanEnd`) recognises it: it is what `BatEnds`,
  `SdtEnds` and `TurnsEnd` establish of the handlers, under the same condition. Nothing is assumed of
  the other filters, and no read has to fail. `GrabEndsOnAir` also assumes that the signal stays and
  that the thread keeps up with it (`KeepsUp`): a handle that overflows for ever never delivers.
- `SkyBat`, `SkySdt`: the broadcasts go on and the thread reads them (`WF` of the handlers). A loss
  is never forced, and there are at most `MaxLost`.
- `SkyTables`: a filter that runs is found ready again and again (`SF` of a `Turn` with it), and what
  is ready is read.
- `DvbReader`: the thread keeps executing and time passes (`WF` of `Thread` and of `Tick`).
- `LoadEpg`: only the supervisor is scheduled (`WF` of `SuperStep`): its waits run out by a clock.
  Nothing is asked of the task, which may hang in the device or in a handler, nor of the user.
- The others: safety only.

## 4. Proofs

The proofs treat each module for every value of its constants (`MainProofs`: for every tuning file
and every set of formats and inputs). Each theorem is `Spec => []...` (or an action property, or the
refinement), and none uses fairness. The assumptions are the `ASSUME`s of the modules, which TLC
evaluates in the runs. Every safety property of the passing runs is proved.

Loops over data (the events of a section, the services of an SDT, the channels announced, the bits
of a text, and the ways to encode a text, by its length) are recursive functions. What such a loop
does is proved by induction over the number of entries done, with the rules of `Recursion`: a set of
naturals that is not empty has a smallest element, a bounded one a largest, and a set that has 0 and
with each number up to *n* its successor has all of them. They are stated with sets, since the
prover cannot instantiate a rule that takes a predicate. For each loop one lemma derives from them
that its recursive definition has a value and that the value satisfies the equation
(`SupplementRuns` and its like), the next what one entry changes, and the next what all of them do.

**`SkyFiltersProofs`**, for every number of filters and slots (`SizesAssumption`): `TypeCorrect`;
`Exclusive` (`SlotsExclusive`), `LoopCorrect` (`LoopKnows`), `Wired` (`BusySlotIsWired`), `Readable`
(`ReadHasData`) and `XmlLast` (`XmlAfterAllRetired`) from `Invariance`; `Forward` (`StepsForward`);
`BadHandleCaps` (`BadHandleCapsTheGrab`); `Implements` (`ImplementsPool`).
The invariant `IInv` is the conjunction of the first six. Why each needs others: that a slot is freed
for the right filter (`SlotsExclusive` after `Reap`) needs that two slots never name one filter; that
a waiting filter is started once needs that a slot left free means nothing waits (`LoopKnows`,
`LoopPrepare`); that the guide is written last needs that the loop is left without an error only when
everything is retired (`LoopStop`), which in turn needs what `IsRunning` means while slots are
prepared; that the handle of a busy slot is set to its filter needs `SlotsExclusive` when a slot is
used again; and that a read finds data needs that only the read of a slot empties it while the pass
runs. `Capped` adds what a bad handle does: until its slot is reached in the first pass each earlier
slot has started one filter at most, and afterwards no filter waits. For the refinement, that the
pool's capacity is kept is a counting argument: busy slots name different running filters.

**`SkyBatProofs`**, for every set of carousels in which each section comes once and the sections of a
bouquet agree on their number (`CarouselsAssumption`), any number of losses, any limits:
`NothingMissing` (`KnownBouquetsLoaded`), `AllNamed` (`NamedAtEnd`), `WaitsForAll`
(`AllBouquetsKnown`), `EndStays` (`EndIsFinal`). `Entries` says what the table of bouquets is and that
a bouquet without a name has nothing counted; `Worth`, that a section with a count of 0 or more has its
channels in the list if its bouquet is selected: a nameless bouquet may get its name later, which is
why it must not have counted anything before. `Turned` explains the -2: while not every bouquet is
known, the section the list started with is at -1, everything passed since is of a known bouquet, and
it has not come again. When it does, the carousel has made its turn.

For the SDT, `ServicesAreNamed` (`AllServicesNamed`), for every division of the services into
sections (`SdtAssumption`). `NamesInv`: the channel seen first is where the turn began, and, as long
as nothing was missed, the sections on the air since have given every service of theirs that is in
the list the names it has to give, and no others. `EndSDT` is set at the section with that channel,
before anything after it is read; the sections since are then all of them, because no other has the
channel.

**`SkyTablesProofs`**, for any number of filters and slots, any limits, and carousels whose sections
begin differently and have each event once (`TablesAssumption`, `CarouselAssumption`):
`OvershootIsBounded` (`OvershootBounded`), `TurnsComplete` (`TurnIsComplete`), `RepeatsAreLosses`
(`RepeatedByLossOnly`). `RoomInv` bounds what is beyond the limit together with the slots still to be
read in the pass: a full table sets `IsError`, no new pass begins after that, and each slot left adds
one entry at most before its handler leaves. `CrashInv` says of which section a copy that runs away
comes. `TurnInv` is the account the code does not keep: for
each filter the section its turn began at, whose events, and those of the sections on the air since,
are in the table once, and those of the others not at all; with a section missed, at most twice; and
never under another version than the one the turn began with. It has to say all of this of
one filter while others store into the same table, so it counts entries by filter.

**`SkyGuideProofs`**, for tables of every length: `SearchesAreExact` (`SearchIsExact`),
`TitlesAreWrittenOnce` (`EachTitleOnce`), `ProgrammesHaveChannels` (`ChannelsAnnounced`). The lemmas
`ChannelsByChannelId` and `SummariesByEvent` show that each search comparator is monotone over the
order its array was sorted in; the invariant `SearchOK` is that what is searched for is between the
bounds of the search. `JoinInv` is about the loop: the titles before the one at hand are done, each
with its programme or without one for a reason that the tables as they were collected give. A sort is
a rearrangement, so a title is followed by its place and not by its fields, and equal entries need
no order.

And for every dictionary and every text: `TextsAreExact` (`TextIsExact`). Of `TextInv`,
`DictionaryRead` says that the nodes of the tree are the beginnings of the codes read so far and that
a word at a node is that of a line with its code, `DecodedTo` that the bits taken so far are the
codes of the words written, followed by the way from the root to the node at hand, on which no word
lies. Without the last part a code that begins another could be passed over unseen; with it, the next
word met is the only way to go on, which is how the reference definition reads the text.

**`DvbProofs`**, for every list of filters, number of slots, input and deadline: `Readable`
(`ReadyIsReadable`), `HandledOnce` (`NeverMisparsed`). `Handout`: a slot still to be handed out has
something to read, because only the read of the slot just handed out empties one; `Matched`: a result
that says "valid" speaks of a fresh section of the table that `Poll` named, because the result is
cleared at the head of the loop and nowhere set without the buffer.

For every sequence of sections: `NeverRepeated` (`NoRepeats`) and `KeptVersionsFall`
(`VersionsFall`) about `parseEIT`, `HeadStaysSmallest` (`HeadIsSmallest`) and `OnlySmallerLoses`
(`LostOnlyToSmaller`) about `parseSDT`. `Kept`: an event that was written is among the events seen,
with a version that is not greater than any it was written in, so that it can be written again in a
smaller one only. `Headed`: the head of the list of services is smaller than the others. The entries
after the head are in no order, so the head is the one place a proof (and the code) can rely on.

For every table of codes of the shape assumed (`FreesatAssumption`), every payload and every length
of text: `FreesatTextsAreExact` (`FreesatTextIsExact`). `FreesatInv` says that the characters stored
fit the buffer (`Bound`, with one byte more for the terminator when the text is decoded), and that
what is left of an encoded text is encoded in the bits behind those shifted out, by one of the ways
that begin after `lastch`. Three facts carry it. The first entry that fits the window is the one
that was meant, since no earlier one is a beginning of its code or goes on after it, wherever the
window ends in the text (`FirstFits`). As long as a bit of the text is ahead, the counter of bytes
is below its limit: this is where the `+ 4` of the loop is needed (`NotAtTheEnd`). And eight bits
behind an escape are read as the character that was written, which is an induction over the bits
(`ReadsWhatIsWritten`).

**`MainProofs`**, for every tuning file: `StatusTells` (`StatusTellsClosed`), `AlarmBefore`
(`AlarmOnlyBeforeReading`), `TunedIsLocked` (`TunedMeansLocked`), `TunerIsPatient` (`GivesUpLate`).
The invariants `DocumentOf`, `Setting` and `Patience` are tables of the places of `main` and `tune`:
what was written, what the frontend is set to, how often was looked. While the tables are read the
alarm is cancelled, and the two ways on, the end of the tables and a text that is not converted, lead
to the two documents `AlarmOnlyBeforeReading` distinguishes.

**`LoadEpgProofs`**, for any number of tasks and providers and any waits (`LoadEpgAssumption`):
`TypeCorrect`, `HeldWhileLoading` (`TaskOnlyWhileLoading`), `MemoryStays` (`MemoryIsThere`),
`ToldTheTruth` (`TellsHowItEnded`), `StopIsLostRarely` (`StopLostOnlyWhilePreparing`), `ClosedOnce`
(`DocumentCloses`). The invariants are `Held`, `Sole`, `Told`, `Stopped`, `Closed`; `Sole` carries the
weight: as long as no task was broken off only the supervisor's current task has a thread, its flag
`active` tells the truth, and so the supervisor frees only when nobody uses the tables.

Only model-checked: all liveness (`GrabEndsOnAir`, `BatEnds`, `SdtEnds`, `TurnsEnd`,
`DeviceGrabEnds`, `GrabEnds`, `RedEnds`), which is out of the prover's reach.

## 5. Not modelled

- *MediaHighway handlers* (`sky_epg.cpp` 2046-2505): no format that `main` accepts creates the task
  that holds them (`Main` shows it), so they never run.
- *Time offset* (TDT/TOT): the first section ends its filter, which `SkyFilters` has; the difference
  of two clocks is arithmetic on one value, `TimeOffset` in `SkyJoin`.
- *Descriptors and XML text* (`dvb_info.cpp`, `dvb_text.cpp`): conversions without state; what they
  write is wording. The exit of `convert_text` is in `Main` and left out of `DvbReader` and `DvbEit`,
  where it would only end the run.
- *Channel identifiers, lookup* (`chanid.cpp`, `lookup.cpp`): formatting and a table of words. Whether
  a service has an identifier is an input of `DvbEit` and `SkyJoin`.
- *Statistics, log, lists*: no property of the grab depends on them. *libsi* is vendored, generated
  tables (`freesat_tables.cpp`, `sitables.h`) are data, `experiments/` is not part of the program.
- Of *loadepg*: its handlers, versions of their own of what the Sky grabber has (one step each here);
  the menus, the setup, the parsing of its configuration, loading from a file or a script, unloading
  the plugin; the SVDRP commands, which free and read again the list of providers that a task may be
  reading; the table of equivalents, which is always empty.
- In what is modelled, these are abstracted: the content of texts, names and attributes; the order of
  channels in the array the BAT handler keeps (a set); the text lengths of titles (their sizes only);
  dates (classes: past, near, far); the memory the tables are in; the number of bouquets, which
  nothing in the code checks against `MAX_BOUQUETS`; in `SkyText` what `sscanf` takes for a word, the
  second reading of the dictionary, which only logs, and the themes; in `Tuner` the fields of a
  transponder other than type and frequency.

The lines the map covers are a small share of the repository because most of it is not control:
tables of codes and words, libsi (twice), translations, menus of the plugin, and the handlers of
`loadepg.c`, which do over again what `SkyBat`, `SkySdt` and `SkyTables` have of `sky_epg.cpp`.

## 6. Plan

Done: everything in section 2 with the runs and proofs above. What a later version could take up:

1. The numbers of `GetSatelliteTimeOffset` and of the dates, with their widths.
2. `chanid.cpp` and `lookup.cpp` as functions from file to table.
3. The lower half of `loadepg.c` (its handlers, and the commands that read the providers again while
   a task runs) beside `LoadEpg`, with the proofs that its task uses no table that was freed.
