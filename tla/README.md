# Verification of the downloader

TLA+ models of this repository, TLC configurations that check them on small
instances, and theorems checked by TLAPS.  The program downloads large files
from a file host over many "proxies" (alternative addresses of the server) at
once, keeps the progress of every file in a `.stat` file, and unpacks or checks
the RAR volumes it fetches.

Run `tlc -config X.cfg M` for a configuration `X` and its module `M`, both in the
table of section 3, and `tlapm M.tla` for each module `M` of section 4.

## 1. Inventory

| part | source | state | operations | interacts with |
|---|---|---|---|---|
| download task | `download.go` | `t.ranges` of `[cur:end]` with a state, `t.Mutex`, `t.f`, the `.stat` file | `init`, `getThread`, `Go`, `run`, `SaveStat`, the ticker goroutine | called by every proxy; the ticker runs beside them; the `.stat` file survives the process |
| transfer loops | `download_linux.go`, `download_other.go` | `cur`, a pipe (Linux) | `Download` | moves `cur` without the lock; returns an error to `Go` |
| HTTP | `raw_http.go`; `run`, `initURL` of `download.go` | the prepared request, shared by all proxies, and its lock; `t.header` | `SendHeader`, `readHead`, `parseCode`, `initURL` | called by `run`; a link that expired is fetched anew |
| proxies and task list | `proxy.go`, `main.go` | `curTask`, `taskMutex`, `once`, the scanner of `urls.txt`, `wg` | `runProxys`, `runProxy`, `nextTask` | share one current task; call `init` and `Go` |
| infection detector | `infect_detector/` | a walk over the archive's encrypted headers; a checksum fed by a second goroutine | `next`, `CheckFile`, `ReadFrom` | a program of its own |
| unrar: volumes | `unrar/` `reader.go`, `archive*.go`, `unpack.go` | the open volume, the block, the header of the current file | `next`, `Next`, `Read`, `openNextFile`, `UnpackTo` | reads volumes, feeds the decoder |
| unrar: window, filters | `decode_reader.go`, `filters.go`, `decode29.go` | ring window, queue of filter blocks, table of filters | `Read`, `fill`, `queueFilter`, `processFilters`, `parseVMFilter` | between the decoders and the reader |
| unrar: decoders | `bit_reader.go`, `huffman.go`, `decode29_lz.go`, `decode50.go`, `ppm_model.go` | bits read ahead, code tables, old offsets, the PPM model in a memory of its own | `init`, `fill`, `readSym`, `decode`, `ReadByte` | called by `decodeReader` |
| unrar: machine, decryption | `vm.go`, `decrypt_reader.go` | registers and memory; a cipher's block | `execute`, `Read` | called by a filter, by the volumes |
| small tools | `id/`, `range2stat/`, `sparse_formatter/` | none | one-shot programs | none |

Hard behaviours, and what must hold:

* **Ranges.**  A proxy reads a range's `cur` in `getThread` while its owner
  moves it; `Go` merges a failed range into its neighbour while that
  neighbour is being fetched; `SaveStat` empties the slice after it released
  the lock.  No byte may be forgotten, no range may have two writers, a range
  marked busy must have an owner, the task must end.
* **Restart.**  The process may be killed at any step; the `.stat` file must
  lead to every byte that is not in the output file.
* **Requests.**  Proxies write their offsets into one shared buffer while links expire
  and `t.header` is replaced without a lock.  Every request must ask the offset of
  its own range, only bytes of a file of this length may be stored, each at its place, and
  every range must be fetched in the end, as far as failures leave it to be.
* **The task list.**  Every proxy may initialise, finish or leave the current
  task, and reads `curTask` outside its mutex.  Tasks must be initialised
  once, none may be passed over, and the program must end.
* **Checksum.**  Two goroutines share an error variable; the verdict on a file
  must not depend on their order.
* **Read-ahead.**  The detector deciphers headers through a buffer that reads ahead in the
  file, and the Huffman decoders read bits ahead of the block they are in.  Where the next
  header, block or symbol begins must be right all the same.
* **Volumes.**  A file continues in another volume, which may be missing, damaged, encrypted or
  of another archive.  A file gets its own data only, and the walk ends.
* **Decoding.**  The window wraps under reads, writes and copies, a match that does
  not fit is finished later, filters are queued for bytes not yet decoded, offsets and
  lengths are remembered between copies, blocks and files.
* **Memory.**  The PPM model fills a memory of fixed size; freed blocks are glued, and a
  model that finds no room starts over.

`PROJECT.json` lists every hazard at its line.

## 2. Modules

### `DownloadTask` (with `MCDownloadTask`)

One task and the proxies working on it.  A thread object is a number of
`Threads`; `ranges` is the slice as a sequence of them, `cur`, `end` and
`state` are their fields.  `held[p]` is the local `thread` of `Go`, `err[p]` its
`err`, `prev` and `l` the locals of `getThread` for the proxy that owns
`t.Mutex` between its scan and its split.

| actions | code |
|---|---|
| `NothingLeft`, `TakeIdle`, `TooSmall`, `TakeStray`, `ScanSplit`, `Split` | the outcomes of `getThread`; the only one that looks at `prev` twice is in two steps |
| `Start`, `Connect`, `RunFails`, `DialFails` | `Go` up to `Download`: the test `cur < end`, the dial and its nil connection, `run` with the flush of the header's reader |
| `Loop`, `Receive`, `ReceiveFails` | one turn of the transfer loop; `Linux` selects what a socket error becomes and whether the loop writes through `t.f` |
| `Finish`, `FinishPanics` | `Go` from `t.Lock()` on: scan, merge, removal, release |
| `Complete`, `Snapshot`, `Clear`, `Truncate`, `WriteStat` | the ticker and the steps of `SaveStat` |
| `Restart` | the process dies at any point and `init` reads the `.stat` file |

Abstractions:

* Bytes are numbers.  A read delivers 1 to `MaxRead` bytes of the file at the
  range's offset.  The request asks for everything from `cur` on, so a read
  may pass the end of the range.
* `cur` is moved by its owner without the lock.  Each lock-protected scan
  reads the ranges' `cur` in one step; a scan that saw some of them later
  would see them further on, which is what `Split` reading `prev` again shows.
* The data and the `cur` of one write change together: a kill leaves both or
  neither.  A kill is the death of the process, not of the machine: what was
  written stays written.
* Once the ticker has closed `t.f`, a write through it stores nothing (`Stored`,
  `FileOpen`): on Linux the flush of the header's reader ignores the error and the
  splice loop has a descriptor of its own; elsewhere the write ends the loop.  The
  contents of bytes received after a flush that failed are not followed.
* The lines of the `.stat` file have equal width, so that cutting it to the new
  text's size leaves whole lines of the old text.  A line cut in two, which
  `init` cannot parse, is listed as a hazard and not modelled.
* `init` at the start of `Spec` is that of a fresh file of known length; after
  a `Restart` it is that of a file with a `.stat` file.  The length checks and the
  refresh of the link are those of `Requests`; here their failure is `RunFails`.
* A failed dial runs `conn.Close()` on a nil pointer (`DialFails`): the
  program dies.

Three ghost variables name the ways in which the code gives up bytes: `seams`
(the byte before a split's middle), `dropped` (the rest of a range that `Go`
removes) and `torn` (lines lost by a kill inside `SaveStat`).  They make the
safety properties sharp: *nothing else* loses a byte.  A fourth, `missed`, holds the proxies
whose scan at the end of `Go` met two adjacent ranges before their own, so that another was
removed (section 5); `OnlySeamsLost` is about downloads in which that did not happen.

### `FileDownload`

What the download of one file promises whatever ranges and proxies it is made of:
bytes are written in runs, a save leads to everything that is left, the task completes
when nothing is left, and bytes are given up only in the places the ghosts name.
`DownloadTask` implements it (`ImplementsFileDownload`): the ranges, the proxies and
their locals are hidden, `lost` is what the ghosts hold, `saving` is the time between
`Truncate` and `WriteStat`.  A merge, a split or a lock is a stutter; `Receive` is `Fetch`;
`Split`, `Finish` and a lost read are `GiveUp`.

### `Requests` (with `MCRequests`)

The request header and the refresh of a link.  `Start`, `Append` and `Write` are `SendHeader` (the
choice of `t.header`, the offset put into the buffer under the header's mutex, the
write), `Head` is `readHead` with the checks of `run`, `FetchLink` and `Renew` are `initURL`,
`Receive` and `Breaks` the transfer.  A header is an object with its own link, buffer and
mutex; `t.header` points to one, a proxy that is about to send to another perhaps.
The server is external: a link works until its epoch ends (`Expire`), and a fault lets it answer with
the rest of any other file of `Lengths`, of our length too.  A byte is the file it is of and its offset there.
The ranges are fixed here.

Failures end as they do in the code.  `Breaks`: a connection that fails leaves the range for a retry, or, when
the Linux loop has lost the error (`download_linux.go:52`), `Go` removes the range, which is then in `dropped`.
`FetchLink`: no link (the old header stays), or a fetch that never returns (`Hung`).  `Panics`: the nil connection of a
failed dial, the slices of `readHead` and `getFileURL`, and its `panic` end the process for all proxies.

### `Proxy` (with `MCProxy`)

The proxies, `curTask`, `taskMutex`, `nextTask` and `wg`.  A task is the
number of its idle ranges; `GoTakes`, `GoSplits`, `GoLeaves`, `WorkDone` and `WorkFails` are what
`DownloadTask` shows of `Go` at this level.  `Leave` keeps the mutex, as the
`break` in `runProxy` does.  `InitLoad` and the end of `init` are steps of their
own, because a proxy with a stale `curTask` may run beside them.  A line of `ips.txt` that
is no address starts no goroutine, so one run has instances with one proxy and with two.

### `HashReader` (with `MCDetector`)

`CheckFile` and `hash32.ReadFrom`.  A file is a sequence of chunks of one buffer
each.  The reading goroutine (`Read`, `HandOver`, `Check`, `Compare`, `Record`) and
`CheckFile`'s loop (`Stat`, `Hash`, `Assign`, `Test`, `Return`) meet only in `HandOver`:
`datChan` has no buffer.  Both assign the named result `err` without a lock, so
every access to it is a step.  Buffers are addresses of a small memory,
so that a buffer filled while it is hashed would show.  The hash is
the sequence of chunks itself: two files with one checksum are outside the model.

### `DetectorWalk` (with `MCDetector`)

The detector's walk over a RAR archive with encrypted headers: `Open` (the signature and the first
block), then one `next` per header (`NextFile`, `NextArc`, `NextEnd`, `NextOther`, `NextFails`).  An
archive is a row of blocks with the cells they take; the buffers of `bufio` are where they
begin and how far they have read, so that `Seek`, `Discard`, `Peek` and the place of a header
are computed as the code does.  `HashReader`'s verdict on the unpacked copy is an
input.  Names, times and the cipher are left out.

### `Window`, `DecodeReader` (with `MCDecodeReader`)

`Window` has the ring buffer's methods as operators on a record.
`DecodeReader` is `decodeReader.Read` with everything it calls.

| actions | code |
|---|---|
| `Read`, `Filled`, `Deliver` | the branches of `Read` |
| `Literal`, `Match`, `FilterBlock`, `FillEnds` | one turn of the decoders' `fill` loop: what a symbol does to the window or to the list of filter blocks, and the ways the loop ends |
| `Queue` | `queueFilter` for one block |
| `FilterHead`, `FilterChain` | `processFilters` up to the first filter, and one turn of its loop |
| `NextFile` | `init` for the next file, `window.reset` included |

Abstractions: the decoder's symbols are inputs (`HuffmanBlocks` and `LZSymbols` have what is
behind them); a byte is the number of its place in the stream; a filter keeps the
length of its block (as those of `filters.go` do) and marks its bytes with its
number and the offset it was told; a filter or decoder that fails is `corrupt`, except that a filter block
that format 5 cannot read is a panic (`FilterPanics`).
A file that ended with an error other than the end is not drained
(`UnpackTo` would call `Next` again).  Ghost variables: the decoded `stream`, the
`plan` of filter blocks at absolute places, each with the number of the block whose reset dropped
it, and `out`, what the caller got.  `Remains` is the
place of the last queued block behind what is buffered, by recursion over the queue.
`WellFormed` says what a correct encoder plans: a block begins no earlier than those in force when it is
announced; the blocks that stay are equal or apart and inside the file; none is beyond the window, and
there are no more than the queue holds.  About other files nothing is promised, and the window's mask
(`decode_reader.go:174`) is one reason why.

### `ArchiveWalk` (with `MCArchiveWalk`)

The walk of `UnpackTo` through an archive in volumes.  A volume is a sequence of cells, block
headers and units of data.

| actions | code |
|---|---|
| `CallNext` | `Reader.Next`: drain a solid file, skip the rest, look for the next header |
| `ReadUnit`, `ReadShort`, `BlockEnds`, `PackedEnds`, `FileEnds`, `WriteFails` | reads through `packedFileReader` and the checksum, in `io.Copy` and when draining |
| `ArchiveHeader`, `EncryptionHeader`, `FileHeader`, `EndHeader`, `OtherHeader` | one block header in `archive15.next` and `archive50.next` |
| `HeaderAtEnd`, `HeaderOfClosed`, `HeaderGarbled`, `HeaderRefused` | the ways a header cannot be read; of a closed volume `bufio` may still hold some |
| `OpenNextVolume`, `NextVolumeMissing` | `openNextFile` with the old and the new naming scheme, the reset of the format's reader |

`ArchiveAssumption` says what an archive is: the data of a block stands behind its header, and
no unit or first block of a file comes twice or out of order.  What was lost, cut off or damaged
since does not change that; a volume put together by hand might.

`IntactAssumption` says what a disk without a fault holds, and TLC evaluates it on the disks of
the run: volumes numbered on from the first by one naming scheme (`Numbered`), each a row of headers with their data
up to an end block where the format needs one (`SoundVolume`), and the blocks of the files one behind the
other, each with the units that follow those of the block before (`SoundBlock`).  `NumberingAssumption` is about
damaged archives of format 5: damage leaves a trace, so that a volume between two blocks of a file shows a block of
that file, something that is no header, or a missing end block (`Walled`).

The decoder is `fed`, the units it was given since its last reset; decompression and the
cipher's key are not followed.  `UnpackTo` is the only caller, and calls `Next` again after
every error but `io.EOF`.

### `HuffmanBlocks` (with `MCHuffmanStreams`, `MCCodec`, `MCHuffmanBlocks`)

Bit readers, canonical codes, code length tables and block headers of both formats, down to
the bits of headers and symbols; the entries of a code length table are whole.  Bytes have 4 bits and codes up to 7, so that a code may be longer than a byte, and the
quick table is shorter than the longest code, as in the code.  Files come from an encoder
in `MCHuffmanStreams`, which puts codes together from the definition of a canonical code and
shares nothing with the decoder.  The several codes of a block are one here.

### `LZSymbols`, `Filters` (with `MCCodec`)

`LZSymbols` has the meaning of symbols: slots with their bases and extra bits at the code's
own sizes, the low offset bits that are shared, the previous offsets, the lengths
added for far copies.  An encoder that knows only `<<length, offset>>` picks any symbols that say
it.  `Filters` has `parseVMFilter`'s table of filters and lengths with its failures, and `filterE8`,
`filterDelta` and `filterArm` against encoders written from the format.

### `SubAllocator`, `PpmModel` (with `MCCodec`)

`SubAllocator` has the memory: two heaps, a free list per size, `glueFreeBlocks`, `allocUnits`,
`allocUnitsRare` and their kin as operators on a record.  `PpmModel` has contexts, states, frequencies,
successors and the text, with `ReadByte` as its one action: search and escapes, `update`,
`createSuccessors`, `rescale`, and the restart when memory runs out.  The symbol that was coded is
chosen freely (the range coder and the adaptive estimates only weigh that choice);
`MCCoded` keeps texts regular enough to use up the memory in lists of several sizes.

### `DownloadTaskProofs`, `HashReaderProofs`, `RequestsProofs`, `ProxyProofs`, `ArchiveWalkProofs`, `DecodeReaderProofs`, `DetectorWalkProofs`, `NumberLemmas`

The theorems (section 4), each module beside the one it extends.  `NumberLemmas` has the facts about
numbers that several of them need.

## 3. Runs

| run (cfg) | module | instance | shows |
|---|---|---|---|
| `DownloadRaces` | `MCDownloadTask` | 3 proxies, 6 bytes, no fault | without faults only a byte before a split's middle can be lost |
| `DownloadFaults` | `MCDownloadTask` | 2 proxies, 5 bytes, 1 fault, Linux, fairness | types; every byte explained; one writer per range; no busy range without owner; at most as many ranges as proxies; somebody stays while ranges are left; the task ends or the program panics |
| `DownloadRestart` | `MCDownloadTask` | 2 proxies, 4 bytes, 1 kill, 2 saves | the `.stat` file leads to every byte, except between cut and write; `DownloadTask` implements `FileDownload` |
| `DownloadSeam` | `MCDownloadTask` | violation | a complete task with a byte missing |
| `Requests` | `MCRequests` | 2 proxies, 3 ranges, 2 expiries, 2 faults, fairness | a request asks its own offset; every stored byte is that of its offset in the file or one of exactly its length; every range is fetched in the end, but the dropped ones and those of a proxy that hangs, unless the program panics |
| `Proxies` | `MCProxy` | 1 or 2 proxies, 4 lines, 1 fault, fairness | one `init` per task; nothing forgotten by a lone proxy; every line started by a lone proxy; the mutex lost only after the last line; the list runs out; a lone proxy's program ends |
| `ProxyHang` | `MCProxy` | violation | with two proxies the program does not end |
| `Detector` | `MCDetector` | 3 chunks, 7 reads, 1 fault; archives of up to 5 blocks | chunks hashed in order; the verdict right in every interleaving; every file checked once with its own range |
| `Unpack` | `MCArchiveWalk` | 2 files, up to 3 volumes | own data only, in order, and kept only whole; intact archives whole; a solid decoder fed everything; the walk ends |
| `DecodeReader` | `MCDecodeReader` | windows of 4 and 8, 5 bytes, 3 filter blocks, 2 files | the window holds the stream; the caller gets every byte through its filters; no false refusal; no empty read |
| `Codec` | `MCCodec` | see below | symbols, copies and filters as encoded; the PPM memory partitioned, its contexts consistent, every symbol reachable |
| `PpmUnflushed` | `MCHuffmanBlocks` | violation | a PPM block begins with whole bytes still in the bit reader |

**Bounds of the downloads.**  `MinSplit` of 2 with 5 or 6 bytes lets a range be split, and a half
split again once fetched from the other side; `MaxRead` of 2 lets a read end
before, at and past a range's end.  `MaxThreads` bounds the objects alive at a
time: `RangesBounded` shows that at most as many ranges as proxies exist, and
each proxy holds at most one more, so 4 or 5 objects never run out (a run that
ran out would deadlock, and deadlock is checked).  `MaxSaves` bounds the ticker's
saves: one is enough to interleave a save with everything, two to overwrite an
older file.  In `Requests` three ranges for two proxies let a proxy begin again with a
header that was replaced; two expiries let a proxy that fetched a link of the first
epoch overwrite one of the second.  One other file has the length of ours and one is
longer; two faults are enough for half of the file to be another's, or for a range to be dropped while a proxy hangs.  The second line of `urls.txt` is a file already
downloaded.

**Bounds of the detector and of `DecodeReader`.**  Three chunks let the reader be ahead while two
buffers are in use; seven reads let it read on when the hasher's `nil` hides the
end of the file from it.  Blocks of 2 to 4 cells with ciphers' blocks of 2 and buffers of 4 give
headers with and without padding, that end inside, at and past the buffer; data of 6 cells
is longer than what can be read ahead.  A window of 4 holds 3 bytes and wraps after 4; a match of 3
with 1 or 3 bytes of source overlaps itself, waits for space and crosses the
end of the buffer; filter blocks of 1 and 2 bytes, at the write position or 2
bytes ahead, fall together, apart, overlap, cross the window and the end of
the file; the second file may be solid, and may need the larger window.

**Bounds of the archives.**  Two files of 2 and 1 units, cut at every subset of the two places
into volumes: a file that fills two volumes, ends with one, or shares one.  In some plain archives the
first file has 3 units, one in each volume, so that a volume that was cut off may lie between two
blocks.  Both formats, the three
naming schemes, stored, packed and solid, with and without encryption, service blocks and
end blocks.  The plain shapes are also checked with every single later volume missing or of another
format, every volume cut off at every cell, every single cell damaged, and an end block put before a file of the last
volume, which announces another one.

**Bounds of the codec.**  A behaviour of `Codec` runs one of four parts.  *Huffman*: three symbols,
six tables (complete, incomplete, a single symbol, the shortest and the longest codes), every
way to describe them with repeats, every short message, two or three blocks, every place to
cut off.  *LZ*: every length, both ends of every offset slot, and five of four copies that differ
in every kind of slot, in any order, with new blocks and files between.  *Filters*: up to three
filters and five parses; every address behind a call within 5 bits, blocks of up to 5 bytes in
up to 3 channels.  *PPM*: order 2, eight symbols, 18 bytes in a memory of 56, which is used up, glued
and restarted within that.

Deadlock is checked except in `Proxies` and `ProxyHang`, where the program really blocks for
ever on `taskMutex`, and in `Codec` and `PpmUnflushed`, whose sequential decoders stop
when their input ends.  `Stopped`, `Finished` and `Done` are the end of a program that
runs to its end.

**Fairness.**  Each goroutine's next step is weakly fair (the Go scheduler
runs what can run, and a network wait ends by data, an error or a deadline).
Waiting for `taskMutex` is strongly fair: Go's mutex hands the lock to a waiter
that starves; the header's mutex in `Requests` needs only weak fairness at this size.  `UnpackTo` is
one goroutine whose steps do not wait.  Links need not expire, and the number of faults is bounded; a network that
fails for ever never finishes a file.  A call of `getFileURL` that never returns is an outcome in `Requests`; in
`Proxy`, as in `DownloadTask`, `init` and `run` return.  `HashReader` claims no liveness: if the
hasher's `nil` always arrived before the reader's test, the reader would never
stop, and no fairness of the scheduler rules that out.

## 4. Proofs

Every theorem holds for all values of the constants that the named `ASSUME` of its model allows:
any number of proxies, ranges, lines, chunks, files, volumes, blocks, faults and kills, any file length, read
size and window size.  The assumptions give the constants their types.  Beyond that they say that
the set of proxies is finite and, for the download, not empty; that `None` is not a proxy or a
number; that a window has at least 2 places, and that matches and filter blocks fit into it
(`ReaderAssumption`: the code's windows have 256 KiB or more, far more than the longest match, and
`queueFilter` masks a block's length); and what an archive is
(`ArchiveAssumption`, `IntactAssumption`, `NumberingAssumption`, section 2; `DetectorAssumption`: a header fits into a buffer of `bufio`, or `Get` refuses it, a cipher's block is as long as
two salts, the buffer holds whole ones, and an archive begins with its own header, without data).  TLC evaluates each of them in the runs.

| module | theorem | property |
|---|---|---|
| `DownloadTaskProofs` | `TypeCorrect`, `EveryByteAccounted`, `EveryByteResumable` | `TypeOK`, `Accounted`, `ResumeAccounted` |
| | `OneWriter`, `NobodyOrphaned` | `Exclusive`, `NoOrphan` |
| | `SomeoneWorks`, `NoMoreThanProxies`, `LostAreSeams` | `SomeoneStays`, `RangesBounded`, `OnlySeamsLost` |
| | `Refinement` | `ImplementsFileDownload` |
| `RequestsProofs` | `OwnOffset`, `StoresRight` | `AsksOwnOffset`, `StoredRight` |
| `ProxyProofs` | `InitOnce`, `LinesStarted`, `RangesKept` | `OnlyOnce`, `AllStarted`, `NoLostRange` |
| `HashReaderProofs` | `OrderedHash`, `AcceptsNoOther`, `AcceptsIntact` | `HashedInOrder`, `AcceptedIsIntact`, `IntactAccepted` |
| `ArchiveWalkProofs` | `OwnDataOnly`, `IntactFilesKept`, `DecoderFed` | `OwnData`, `IntactUnpacks`, `SolidFed` |
| | `UnitsInPlace` | none: what a file got of an intact archive, or of any of format 5, are its first units |
| `DecodeReaderProofs` | `StreamHeld`, `AllReturned`, `Progress` | `WindowHoldsStream`, `EndsComplete`, `ReadProgresses` |
| | `InOrder` | none: the bytes that were returned are those of the file, in place |
| | `FiltersRight`, `NeverRefused` | `OutputRight`, `NoFalseInvalid` |
| `DetectorWalkProofs` | `EachFileReported` | `FilesReported` |

In each module one theorem (`Invariance`, `OwnInvariance`, `RequestsInvariance`, ...) shows that the
inductive invariant holds, with a lemma per action or group of actions, and the theorems of the
table follow from it.

**`DownloadTaskProofs`.**  `IInv` is `TypeOK` and `Accounted` with what makes them inductive:

* `WorkInv`: a proxy inside `Go` holds a thread;
* `Overshoot`: a range's `cur` passes its `end` only over bytes
  that are written, so lowering an end never hides a byte;
* `EndsInv`: the end of every range is the file's end or a byte in `seams`;
  this is why a loop that stops at `cur = end` leaves only a seam behind;
* `LockInv`: between scan and split the range `prev` keeps its end and its owner
  only moved forward over written bytes, so the middle computed from
  the second read is still inside what the first read saw;
* `StatInv`: the `.stat` file and `SaveStat`'s buffer lead to every byte
  that the ranges led to when they were taken, because ranges only shrink by
  writing.

`OwnInv` says that held threads are pairwise different and that exactly they are marked busy.  On it
rest the others.  `SomeoneStays`: a proxy leaves only when every range is busy, so it leaves an owner
behind.  `RangesBounded`, by `BoundInv`: a range is split only when each has an owner other than the
splitting proxy, so before the split there are fewer ranges than proxies (an injection from ranges to
proxies, counted with the library's theorems on finite sets); the slice read back from the `.stat` file is
no longer than the one saved.  `OnlySeamsLost`, by `LossInv`: without a fault a range leaves the slice only when its owner
is through with it; the other ways out, a thread that `getThread` made up and
`t.ranges = nil`, open only when nothing but seams is missing, and then they do no harm.

Its last part is the refinement.  Each step of `DownloadTask` is a step of `FileDownload` or a stutter under the
mapping of `Promise`.  The bytes a step writes or gives up are a run of consecutive ones
(`RunOfBytes`, `ClosedIsRun`), and `StatInv` gives the step that a save or a resume is.

**`RequestsProofs`.**  `HoldInv`: who is about to write holds the mutex of the header *it took*, which need not be
`t.header` any more, and the offset in that header's buffer is its own.  A renewed header is never one in
use, as there is one more than there are proxies (`FreshHeader`, by counting).  `AnswerInv` carries
the offset from the request to the answer, and the length that `run` checks makes the answer the rest, from that
offset, of the file or of another as long: `StoredRight` says so of every byte, and if no other file has our length,
that all of them are ours.  `RangeInv` says that no two proxies have one range.

**`ProxyProofs`.**  `LockInv`: whoever initialises a task, or has left the loop, holds `taskMutex`, so `once` is
set before anybody else looks.  `LoneInv`: of a lone proxy, the task it has is the
current one and initialised, no other initialised task has idle ranges, and what is neither
downloaded nor started has not been handed out yet.  What the second half says is not true with two proxies
(section 5).

**`HashReaderProofs`.**  `DataInv` follows every chunk from the file through at most
two different buffers into the hash, and `ErrInv` says: whatever error the reader
found, either the buffer that came with it is not handed over yet or the hasher
has still to assign its `nil`.  So `err` is `nil` when `ReadFrom` returns, the end of the
file is never reported as an error, and a read that failed shows as a wrong
checksum.

**`ArchiveWalkProofs`.**  The walk never goes back (`Onward`: what lies ahead after a step lay ahead before it).  So
while a file is copied, what it got lies behind and has smaller numbers than all that may still come
(`CopyInv`); the rest of the block that is read is its own (`RestInv`); and a file whose first block
lies ahead has no result yet (`FirstInv`).

Its second part follows the walk through an intact archive (`IntactInv`).  `VolumeInv`: where the walk stands, behind
the data that is left, a header begins or the volume ends; it expects encryption exactly where that was announced,
and the scheme in `v.old` is that of the volumes, so the next name exists whenever there is another volume
(`NextIsThere`) and no step fails (`NeverIntact`).  `ArcInv`: the flags of the archive are those of its header, or no
file was met yet.  `PlaceInv`: either no block was read (`Outset`), or the current header is that of a block `p`, all
blocks behind `p` lie ahead, and what the file and the decoder got is counted from `p` and what is left of it
(`Current`).  A file header that is met is then that of the block that follows (`FileGiven`), and `IntactAssumption` says what it
continues.  `ReasonInv`: another file is looked for only behind a last block.  That needs it stated for each way
out of a file, since a solid file that is left is drained and any other one skipped.  `ResultInv`: every file before the
current one has a result, none of them a failure.  So when the last volume ends no block lies ahead and all files are
done (`AllRead`).

Its third part is about format 5 with any damage (`NumberInv`).  `Along`: the units of the block read last
are numbered on from what the file got; when the walk leaves the volume of that block, it stands before any wall of the next,
and the volumes it went through have none (`Beyond`).  A block that is accepted as the next of the
file is therefore in the next volume, and its first unit is the next one.  In format 1.5 this is false (section 5), for `HeaderAtEnd`
opens the next volume where this one was cut off.

**`DecodeReaderProofs`.**  `ReaderInv` has `RingOK`: counted back from the write index the ring holds the last bytes of the
stream, all that are unread and all that a match may reach, and a copy that waits finds
the buffer full and repeats what is there; a lemma for each method of the window
(`WriteRing`, `MatchRing`, `ReadRing`, ...) shows that it keeps this.  `CountInv` says that
what was decoded is what was returned, what waits in `outbuf`, what is buffered and what waits to be
copied; `PlaceInv` where the queued filter blocks begin; `EndInv` and `StepInv` what an error
and each place in the code know.  The theorems assume `~Abandon`, as the run does: when files may be
left early `win.l` survives `reset`, and they are false (section 5).

Its second part is about the filters.  `FilterInv` adds to `ReaderInv` which blocks are where.  `CollectInv`: the blocks that `fill` collects
are the last announced, at their places.  `QueueInv`: the queued blocks are announced ones, in their order,
in force until a reset that is still collected, and each offset is the distance to the block before (or to what was taken).
`DoneInv`: a block that is neither dropped nor queued lies wholly before what was taken, so none is
lost.  `ChainInv`: while filters take each other's output, that output is a block's.  `MarksInv`: the bytes in
`out` bear the marks of all blocks over them, those in `outbuf` the marks of the blocks already processed.
These hold while nothing was wrong with the blocks (`Sound`), and what is wrong must stay wrong, or the
invariant is not inductive: `WellFormed` itself may become true again when a reset drops the block that
was out of place, so `Sound` looks only at blocks that begin before what was taken, which no reset drops any more
(`TakenApart`).  `FillInv` says that `fill` goes on until the window is full, so that with
`MarksInv` and `CountInv` a filter that lacks data lies past the end of the file; `RefusedInv`, that an error of the
filters means a file that is not `WellFormed`, is `NoFalseInvalid` made inductive (`err` holds the error before
`res` does).  These theorems assume `~Abandon` too.

**`DetectorWalkProofs`.**  `PlaceInv`: in an archive of files, folders and an end the walk is, between two turns, at
the end of some block, and has checked exactly the files up to there.  A step from it needs that the place is read as
the next block and no other (`NextIsRead`: blocks begin at rising places, as each header takes at least a cell, so a
place tells its block), and that the place computed from salt, size and padding is the end of that
block (`RoundUp` and `Padding` are complements modulo the cipher's block, as two salts make one).  That a whole archive never breaks off
(`WholeInv`) needs the read-ahead: the cipher's blocks are read whole, as far as the file and the buffer go, so a header
that lies in the file is deciphered in full, whatever was buffered before.  With service blocks the walk does lose its place
(section 5), and only that what is checked are files of the archive is claimed, and proved.

**`NumberLemmas`.**  Least elements of sets of numbers, the arithmetic of `%` and `\div` that a ring index and a padding
need, which the solver does not have, and that a recursive function over `0..n` exists and obeys its equation
(`Iterates`, for the places of blocks and the deciphering of a buffer).  They are shown from a least counterexample, with the library's
`NatLessThanWellFounded`, since the induction theorems take an operator.

Out of the prover's reach, and left to TLC: liveness under fairness (`Terminates`, `AllFetched`,
`TasksRunOut`, `ExitsAlone`, `UnpackEnds`) and `ENABLED`; what the folds and nested
recursive functions of the codec compute for every input, which is induction over data (`SymbolsRight`, `CopiesMeant`, `FiltersInvert`,
`BlocksRight`, and the properties of the PPM model).  No module declares a RECURSIVE operator.

## 5. What the checks found

Three are violation runs with a finding in `PROJECT.json`:

* the byte before a split's middle is fetched by nobody (`download.go:317`, `DownloadSeam`);
* `runProxy` leaves with `taskMutex` locked (`proxy.go:52`, `ProxyHang`);
* a PPM block behind an LZ block is read from behind the bit reader, which still holds bytes
  of it when the end symbol's code is short (`decode29_ppm.go:20`, `PpmUnflushed`); the files of
  `Codec` are those in which this does not happen.

Others are behaviours of the models, listed as hazards, without a run of their own:

* a range extended after its owner left the loop is removed (`download.go:237`): the
  bytes are in `dropped`;
* the splice loop loses its error (`download_linux.go:52`, `Reported`; `Breaks` in `Requests`);
* another file of the same length is not told apart (`download.go:275`, `Head`): when a fault lets a link or proxy
  answer with a neighbouring volume of one set, its bytes are stored among ours, so `StoredRight` claims the file up to
  files of its length;
* `getFileURL` does not return once its POST request is answered without a link (`main.go:104`, `Hung`): the loop sends
  that request again, whose answer is no page, and its range stays busy;
* a failed dial, an answer too short for `readHead`, a cut page and a failed POST request end the program
  (`download.go:220`, `raw_http.go:82`, `main.go:94`, `101`, `112`, `Panics`), so `AllFetched` has a panic among its ends;
* a filter block that format 5 cannot read makes the decoder panic (`decode50.go:194`, `FilterPanics`);
* `getThread` returns a thread of no range (`download.go:290`, `TakeStray`);
* `runProxy` reads `curTask` after the unlock (`proxy.go:59`, `ReadTask`): another proxy may have ended
  the task it initialised, and the next, which nobody has initialised, has no ranges, so `Go`
  returns nil and the task is ended without having been started;
* for the same reason a line may be passed by whose `init` was never called at all, so the first part of
  `AllStarted` says nothing of several proxies: `p` leaves the mutex, another ends the task and
  moves on, `p` reads the new `curTask`, `Go` finds no range and returns nil, and since `task == curTask`
  the list advances past it (found while looking for the invariant of `ProxyProofs`);
* the end of `Go` may remove a range of another proxy (`download.go:228`, `MissesOwn`).  The scan stops at the
  second range it recognises, and `pos` is set only at the proxy's own.  When two ranges end where its own begins and come
  before it in the slice, `pos` is 0 and the first range goes.  Two ranges with one end come from a split that raced its owner: with
  4 proxies and `MinSplit` 1, `p` scans a range with 2 bytes left, its owner reads 12 more, and the split puts the old and the new
  range's ends out of order.  TLC finds a first range removed under a proxy that still had a byte to fetch, without any
  fault; the bytes are in `dropped`, and `OnlySeamsLost` excludes the case (`missed`);
* a block of a file may be passed over without an error (`reader.go:186`, `archive.go:262`): a volume of format
  1.5 that is cut off before its file header ends like one without an end block, so the walk opens the next, whose
  block continues the file by name.  Only the checksum tells, and the file is removed; `OwnData` therefore claims order, not
  completeness, and `IntactUnpacks` that format 5 has no such gap;
* a proxy ends a task others work on (`proxy.go:73`, `GoLeaves` and `TaskEnds`) and
  dereferences a nil `curTask` in a log line (`proxy.go:75`, `TaskSwitched`);
* a filter offset that the window's mask cuts (`decode_reader.go:174`, `astray`);
* when more blocks are announced than the queue holds (`decode_reader.go:161`), the one that was refused is gone, and
  `Read` returns the bytes already in the window without it before it reports the error (`Filled` looks at the error only when the
  window is empty); `WellFormed` excludes it through `astray`;
* a block that begins before a queued one is refused (`decode_reader.go:168`) even if a later block of the same `fill`
  resets the queue, so `WellFormed` counts the order over the blocks in force when a block is announced (found while
  looking for the invariant of the filters);
* the detector skips a service block from where the read-ahead left the file
  (`rar15.go:487`, `NextOther`), so `FilesReported` claims less of such archives;
* `window.reset` keeps the length of the copy that waits (`decode_reader.go:74`).  `DecodeReader` violates
  `OutputRight` when `Abandon` is TRUE.  With a window of 4: two literals, a match of 3 bytes
  of which one fits, so 2 wait in `win.l`; a read of 1 byte delivers and copies one
  more of them, so 1 waits; the caller leaves the file, as `UnpackTo` does after a write
  error; the next file is not solid, the buffer is cleared and `win.l` stays 1; the next file's only literal
  is read, the waiting copy puts a byte behind it, and the file comes out one byte too
  long.  `Next` drains the packed bytes, not the decoder, so nothing clears it.

## 6. Not modelled

* `vm.go`, the filter machine: an interpreter of byte code, sequential 32-bit arithmetic on
  256 KiB.  A filter whose code is not one of the known ones is left out for this reason;
  the itanium, RGB and audio filters are fixed arithmetic on bytes.
* `unrar/decrypt_reader.go` and key derivation: block alignment around the standard library's AES.
* The range coder and the estimates of the PPM model (`PpmModel` chooses the symbol), the escapes
  of a PPM block, the four or more codes of a block (one here).
* Header fields nothing depends on: names, times, attributes, host system.
* The bytes of a `.stat` line, `init`'s choice of a length for a file of at most 1 MiB, the pipe of the
  splice loop, the speed figures.
* `getFileURL` (network I/O; its outcomes are `FetchLink`, `Panics` and `InitFails`), logging.
* In `DownloadTask` a locked section is one step, or two where it reads a range twice; `t.ranges = nil`
  (`download.go:197`), which takes no lock, may fall before or after one, not inside.  Inside the end of `Go` the
  slice expressions would panic, as `FinishPanics` shows for a `Clear` before it.
* `UnpackEnds` is about intact archives: after a lasting error of a damaged one `UnpackTo` calls `Next` for ever.
  Whether files are packed is one choice per disk, so a stored file inside a solid archive does not occur.
* Code length tables are entries of the stream in `HuffmanBlocks`, not bits, and cannot be cut off inside
  (`huffman.go:197`).
* A PPM model whose `init` failed and is used again (`PpmModel` begins with one that was initialised).
* `id/`, `range2stat/`, `sparse_formatter/`: one-shot programs without state; `unrar/err_range.go`: used
  by nothing.

## 7. Plan

The modelling is as complete as planned, and every safety property of the download, the detector, the archive walk and the
decode window has its theorem.  The properties of the codec and of the PPM model stay with TLC, for the reason given in section 4.
