# A verification project for spatulastic

spatulastic copies a directory tree to another volume through a ring of large
buffers, and compares checksums of source and destination. These are TLA+ models of it, the
TLC runs that check them on small instances, and TLAPS proofs for every value of
the constants. Paths are relative to the repository (`src/` is its root). The
repository has no tests; its documentation is a short README, a TODO list and
the comments, and what the models call "promised" comes from these comments.

```
tlc -config CopyFaults.cfg MCCopyJob      # any run: the module and cfg of PROJECT.json
tlapm CopyJobProofs.tla                   # the proofs: every module named ...Proofs
```

## 1. Inventory

| component | source | state it keeps | operations |
|---|---|---|---|
| ring buffer | `lib/filecopy/lib/ringbuffer` | `ringLength` buffers, three cursors (read, write, processing), three `int` sample counters, a processed flag per buffer | rotate one cursor, rotate with the counters, read and write samples, `reset`, `set_size` |
| FileCopy | `lib/filecopy` | source and destination streams, remembered sizes, two byte counters, flags, a ring of 4 buffers | `open_source`, `open_dest`, `read_to_buffer`, `write_from_buffer`, `write_processed_from_buffer`, `pre_buffer_source`, `execute`, `complete`, `close`, `reset` |
| execute_transfer | `src/main.cpp` | local hashers, a progress bar | drives a FileCopy, hashes in the ring or at the end, draws the bar, compares |
| TreeSlinger | `src/treeslinger.cpp` | source and destination lists, two queue indices, two checksum lists, progress, threads | `set_source`, `set_destination`, `_stage`, `_run_copier`, `_copy_file`, `_sys_file_copy`, hashers, `verify`, `verify_threaded`, `_create_csv`, `reset` |
| GatherDir | `lib/gatherdir` | lists of files and of directories | append a tree to them |
| progress bar | `lib/progressbar` | state and maximum | `increment`, `set`, `is_complete`, `get_bar` |
| hash library | `lib/hashlib2plus` (vendored) | a context per algorithm: chaining value, bit count, block buffer | reset, update, finalise for MD5, SHA-1, SHA-256, SHA-384 and SHA-512; wrappers for strings, files and a self-test; a factory |
| timer, template instantiator | `lib/timer`, `lib/templateinstantiator` | wall-clock statistics, nothing | outside the copy |

How they interact: `main` stages a tree with TreeSlinger, which lists it with
GatherDir, creates the directories of the destination and pairs each source with
a destination path. Copier threads (one, run by `main` itself, in the present
program; `_spawn_thread` is the call for more) take indices from
`_sourceQueueIndex` under a mutex and give each file to a FileCopy: `reset`,
`open_source`, `open_dest`, `execute`. FileCopy moves bytes between its two streams
through its ring. `verify_threaded` resets the queues, starts hashers of both
kinds, joins them and compares the two lists. `execute_transfer` is a second driver
of the same FileCopy member functions; nothing in the repository calls it.

What is hard here:

* FileCopy keeps the same fact in five places: two byte counters of its own, one
  sample count and two cursors in the ring. Its streams say a sixth thing. Nothing is
  checked except at the end, and only in a debug build.
* The loops end when these agree. A case in which they never do is a hang, not an error.
* `fstream` errors are silent: a failed open, a short read, a failed write only
  set flags, and `tellp()` of a failed stream is -1, which enters unsigned sums. An
  `ofstream` holds the tail of a file until `close()`; `tellp()` counts it before it is
  written, and that `close()` could not write it goes unnoticed.
* A copy that dies leaves a file that the next run takes for one to be kept.
* Inline hashing puts a third cursor, with a count of its own, into the ring.
* Copiers and hashers share queues, vectors and a progress counter without any
  other synchronisation than three mutexes and the joins.
* A TreeSlinger keeps most of its state when it is used again: lists grow, indices
  stay behind their ends, threads stay in their vectors. Sources, destinations
  and checksums belong together by position only.
* Destination paths are computed on text, by cutting off as many characters as the
  parent's path has.
* Each hash algorithm counts bits in its own widths, decides about a second block of
  padding in its own way, and two of them use the message buffer as scratch.

What makes each component correct: the ring hands out what was put in, in order, and
never more than it holds; FileCopy's destination is a prefix of its source at any
moment, `execute` ends, and returns only with a whole copy (or a file it was told to
keep; or, without `_DEBUG`, one whose tail was lost on `close()`); `execute_transfer` hashes each byte once, before it is written, and its
checks blame only real damage; TreeSlinger mirrors the tree, copies each file once,
overwrites none, hashes a file when it is finished, and finds a match exactly when every
destination is its source; a digest is the one the standard defines, however
the message was cut up and whatever the context was used for before.

`PROJECT.json` lists every hazard with the line where it bites and the
properties that cover it.

## 2. The modules

| module | models | state → code |
|---|---|---|
| `RingBuffer` | `Buffer::RingBuffer<T>` as an abstract data type: a record and operators on it | record fields are the members; `rotate_*` are operators from the old record to the new one |
| `FileCopy` | class `FileCopy`, its two files and streams | `bytesRead` is `_numBytesReadToBuffer`, `buff` is `_buff`, `target` is the destination path (parent directory, existence, content); one action per member function |
| `CopyJob` | `TreeSlinger::_run_copier` and `FileCopy::execute` for one file after another; crash and rerun | `pc` is the next statement of the copier's thread |
| `Transfer` | `execute_transfer` with and without inline hashing | `hashed` is what the MD5 context was fed |
| `CopySpec` | what either driver promises of a destination file; no ring, no streams | implemented by `CopyJob` and `Transfer` under the mapping `CopyStatus`; `Loss` is the most that a copy taken for done may lack: 0, but for `CopyJob` without `_DEBUG`, where it is `MaxLoss` |
| `ProgressBar` | `BasicProgressBar<T>`: counters and `get_bar` | a record; the text is a function from positions to `#`, `-` or what was there |
| `TreeSlinger` | copier and hasher threads, queues, progress, `verify_threaded`, main's order | `thread` has each thread's next step and its local `index` |
| `GatherDir`, `Staging` | the members of TreeSlinger in any order, on a file system; one action per member | `assets`, `directories` are GatherDir's lists, `destFiles` etc. the members of that name; `fs` maps paths to nodes |
| `RingClient` | the ring's public read and write members and a client of them | `rb` is the ring, `written` and `consumed` the client's own count |
| `HashBlocks` | what the algorithms share: blocks, padding, integer widths, and the digests the standards define | a chaining value is the list of blocks compressed into it |
| `Md5`, `Sha1`, `Sha256`, `Sha2ext` | the classes of these names | a context is a record of the members of its struct |
| `HashWrapper` | wrappers, factory and a client that hashes message after message | `ctx` is the member `ctx` |
| `MCFiles`, `MC...` | values for the constants | |
| `FileCopyProofs` | lemmas on the member functions of FileCopy and the ring, and that reading and writing keep the bytes in order | |
| `CopyJobProofs` | theorems about `CopyJob` | |
| `TransferProofs` | theorems about `Transfer`, and about its progress bar | |
| `FoldProofs` | lemmas on what the folds of the community modules compute, by induction on sets | |
| `TreeSlingerProofs` | theorems about `TreeSlinger` | |
| `RingClientProofs` | theorems about `RingClient` | |
| `StagingProofs` | lemmas on paths, orders and loops over lists, and the theorems about `Staging` | |
| `HashWrapperProofs` | lemmas on blocks, padding and counts, what each algorithm makes of a message, and the theorems about `HashWrapper` | |

`CopyJob` and `Transfer` extend `FileCopy`, which extends `RingBuffer`; the callers
give FileCopy's actions an order, FileCopy composes the ring's operators. `TreeSlinger`
uses the result: one file's copy is two steps there (created, whole), which is what
`CopySpec` allows of it. `Staging` uses the results of both: one call is one step, a
copy is what `CopySpec` and the runs of `CopyJob` say it is (whole, kept, an exception, or
without end), and what the threads do inside a call is in `TreeSlinger`. `RingClient`
extends the same `RingBuffer` that `FileCopy` does. `HashWrapper` extends the four
algorithms and gives them one interface, as the virtual functions of the wrappers do.

Abstractions:

* **Data.** Byte k of the source is the number k, a byte of any other origin is
  `Foreign`. A lost, repeated, swapped or stale byte is therefore visible; all that a
  byte's value could add is a coincidence.
* **Integers.** The ring's counters are `int`s mixed with unsigned operands, FileCopy's
  are `size_t`. `AsInt`, `AsUInt` and `AsSize` reduce them to `IntHalf` = 2^31 and
  `SizeMod` = 2^64 in the program, 16 and 64 in the runs. The proofs leave both open.
* **Streams.** A stream has an open flag, a position and a failbit. Faults are
  a constant: `"open"` (a source that is gone or cannot be opened), `"read"` (a
  read that comes up short), `"write"` (part of what is to be written is, then badbit; in
  `write()` or in `close()`). A destination that cannot be created is in `Targets` (`NoParent`).
  The destination's stream may also hold bytes that it has counted and not written
  (`held`): what is in the `filebuf` of an `ofstream`. A `filebuf` has a few KiB, a chunk of
  the ring 4 MiB, and a write of more than the `filebuf` goes through it to the file; so only a
  chunk that is short of a buffer may be held (`HoldBack`), and `close()` writes it or loses
  any part of it from the end (`CloseDest`). A crash loses it too.
* **Atomicity.** Within FileCopy one thread runs; a step is one member function
  call of the loops, between which a crash may come. A crash inside a call is the
  same as one after it with part of the open file lost, and `Crash` lets any
  part of an open file be lost.
* **Digests.** In `Transfer` MD5 is collision free: a digest is the sequence of bytes it was
  fed. `getHashFromFile` takes a read error for the end of the file, as the library does.
  In the hash modules the compression function is uninterpreted: a chaining value is
  its initial value and the blocks compressed into it. Widths are scaled together: a
  block has 4 bytes of 2 bits, an `unsigned int` 16 values, a length field two cells.
  Byte order is left out.
* **Paths** are sequences of names, and names sequences of parts, so that two names the
  program writes after each other without a separator become one name. All names
  have one character, so that text lengths can be computed.
* **File contents** in `Staging` are a number and a size, the number 0 for a file without
  any bytes; links lead to directories whose entries are the paths below them; `other` is an
  entry without a size, such as a socket. A `dangling` link leads to a file that is not there, in
  a directory that is: `exists()` is false, and opening it for writing creates a file, which the
  model puts at the link's own path. A `broken` one leads into a directory that is not
  there, and cannot be opened. `HangingSizes` are the sizes for which `copy_ends` and
  `pre_buffer_hang` find that a copy does not end.
* **Builds.** `Debug` is `_DEBUG`. `CMakeLists.txt:9` fixes the build type to
  Debug, so that this is the program as built; other runs say what is left without.
* **Mutants.** A definition whose comment starts with "Mutant:" is a plausible bug,
  kept next to the original. No run uses it as it stands; with the original replaced
  by it, the property named in `PROJECT.json` fails.

## 3. The runs

Buffers have two bytes and the ring four buffers, as in the program; files have 0 to
9 bytes. With three writable buffers that is: an empty file, part of a
buffer, exactly one to three buffers, strictly between two and three (the hang),
more than the ring holds, and the cursors going around once with a partial buffer at the
end. After 8 bytes the cursors are back where they were, so longer files repeat the
states of the ring. Destinations are: no parent directory, no file, an empty
file, a file of 3 bytes (shorter, equal and longer than some source). Copiers go on
to another file and another destination for ever, with the ring's old content.

| run | question | result |
|---|---|---|
| `copy_faults` | debug build, every fault, crash anywhere: order of bytes, agreement of counters and cursors, early close, what `execute` returns with, what the checks blame, old files, refinement of `CopySpec` | holds |
| `copy_release` | the same without `_DEBUG` and with `_overwrite` set, with failing writes and counters that wrap around: refinement of `CopySpec` with `Overwrite`, which covers the order of the bytes and what `execute` returns with | holds, with a loss of less than a buffer on `close()` |
| `copy_ends` | which jobs end | all but those in `Stuck`, and these never do |
| `transfer_faults` | with and without inline hashing, chosen per call; no `_DEBUG`, every fault, the object used again after exceptions: hashing before writing, what a return means, the bar, refinement of `CopySpec` | holds |
| `transfer_ends` | debug build, files that can be read through: which transfers end, and whether an alarm may be false | exactly those with an unopened destination never end (`Stuck`), all others do; inline transfers after an exception are left out of that (`Stale`); no false alarm |
| `slinger` | 2 copiers, 2+2 hashers, 3 files (sizes 0, 1, 2), old files of two sizes, any thread may throw: who works on what, progress, the verdict, and that all joins return | holds |
| `staging` | any sequence of calls on one TreeSlinger, both builds, thirteen file systems | holds, with the exceptions the properties name |
| `ring_client` | a queue-like and an overrunning client of the ring | holds, with the exceptions the properties name |
| `digests` | five algorithms, any cutting of a message, contexts used again | holds |
| `pre_buffer_hang`, `empty_dest_hang`, `md5_length` | see section 4 | violated |

`Terminates`, `copy_ends` and `transfer_ends` use fairness: weak fairness of the steps
of each thread, that is, the scheduler runs every thread that can run. The
mutexes of TreeSlinger are held for one increment each, so a thread that wants one
gets it; claiming an index is one step for that reason. Nothing is assumed of the
environment: no fairness makes a fault happen or stop, the process die or be
run again, or the caller have another file.

`TreeSlinger` stops at the end of main or at an uncaught exception, and `Staging` at a call
that never returns or at the bounds on calls: their runs do not check deadlock. The
others never stop, and their runs check it.

Bounds of `slinger`: two copiers and two hashers of each kind are enough for every race of
the queue: three files make one thread take two, and the claims, copies and joins interleave
in all orders. `TreeSlinger` leaves an empty old file out, since its copy never
ends (`empty_dest_hang`), and `MayThrow` covers the exceptions FileCopy can throw.

Bounds of `staging`: lists of at most three files hold two trees of two and one file, or
one tree listed twice in part; two repeated or failed preparations (`MaxRepeats`)
allow a second source and a second `_stage` or a `reset`; three uses (`MaxUses`) allow to
copy, verify and copy again. The file systems have a tree with a subdirectory, a flat
one at another depth, one directly below the root, old files of the same size, of another and
without bytes, an empty file and one whose copy hangs, a file where a directory has to be, a
link to a directory, a link to nothing and a socket among the sources, links to nothing at the
destinations, one that a file can be created behind and one that none can, and one in place
of the report, and a source that is no directory. The directory iterator may visit siblings in
any order. `CompleteMeansCopied` follows the calls of `_copy_file` with two history variables,
the files that were counted and whether one was counted twice.

Bounds of `ring_client`: 3 buffers of 2 samples and 15 samples between two resets are
two and a half times around, in writes of 1 to 7 samples: parts of a buffer, across
buffers, more than fits.

Bounds of `digests`: messages of 0 to 132 bytes are 33 blocks and pass 2^(2 x 4) bits, the
scaled 2^64, where SHA-1 gives up, the counters of MD5 and SHA-256 wrap and that
of SHA-512 carries. They are built from chunks of 0 to 15 bytes, so that a
chunk ends at every place of a block, fills it, or spans several. Strings of 15, 16 and
18 bytes straddle the largest `unsigned int`.

What the properties of these runs have to except, and what a user of the code
should know:

* `staging`. A tree directly below `/` is not mirrored: its files land beside the
  destination under a glued name (`treeslinger.cpp:142`). For a tree without
  subdirectories no directory is created (`:293`) and the first copy never returns. Calling
  `set_source` twice appends to the gatherer's lists and `_stage` to the destinations:
  files are then copied under other files' names; a debug build throws
  `FILE_NUM_MISMATCH` on verification, another one may say "match". The queue index that
  `_run_copier` or `verify_threaded` leaves is past the end, so the next run of
  a copier skips a file (`:180`). A second `verify_threaded` joins joined threads (`:598`) and
  the program ends. `reset` empties neither the gatherer nor the checksum lists.
  `_copy_file` adds the size of what is at the destination, whether it was copied now,
  before or by somebody else (`:487`): a file that is given to it twice, or an old file that a
  build without `_DEBUG` keeps although it is longer than the source, makes `is_complete` true
  with other files missing. `CompleteMeansCopied` names these two and says that there are no other
  reasons, also after a second `set_source`, which `_transferred` survives. `_run_copier`
  writes to the progress directly, and a mixture of both is excepted. A link to nothing
  at the destination is opened through: the file appears where the link leads, or, if that
  cannot be created, the copy never returns. A link to a
  directory becomes an empty directory, its contents are not copied, and verification
  matches. `TODO` leaves open whether sources and destinations are ordered together:
  for a TreeSlinger used once they are (`DestinationsMirrorTree`).
* `ring_client`. A ring that gets full loses a processed flag (`ringbuffer.cpp:252`). A ring
  that is drained refuses every further write until it is reset, because
  `is_writable` takes it for full (`:193`). `reset` and `set_size` keep the processed
  count, `set_size` also the flags, and the default constructor leaves the counters
  uninitialised. `write()` counts its passes down in an `int8_t` (`:536`): a ring of more
  than 127 buffers, which `uint8_t ringLength` allows, takes nothing from it.
* `digests`. A string of 2^32 bytes or more is hashed in part; a message of 2^64 bits is
  reported by SHA-1 in the context only, with the code of another error, and its digest
  is uninitialised.
* `transfer_ends`. `RingBuffer::reset` keeps `_samplesProcessed`. An inline transfer on
  an object that was stopped between hashing and writing may write more than it read, and
  then its loop does not end. `TransferEnds` excepts these (`Stale`); no property says which of
  them hang.
* `copy_faults`, `copy_release`. `write_from_buffer` closes the destination when nothing is left
  to write (`filecopy.cpp:250`). What the `ofstream` still holds is written then, and it
  was counted before, by `tellp()` (`:242`). If that fails, a release build returns the size of a
  file whose tail is missing, less than a buffer of it; a debug build throws
  `FILESIZE_MISMATCH`, with both byte counters equal to the source's length
  (`ChecksNeverMisfire`, `LostOnClose`). `execute_transfer` compares sizes in both builds.
* `copy_release`. After a write that fails in `write()` `tellp()` is -1, the byte counters
  never agree again, and `execute` does not return, so that nothing false is returned. With
  `_DEBUG` the ring throws `std::out_of_range` instead (`ChecksNeverMisfire`: it does so
  for no other reason), unless the write that fails is the last before a multiple of
  4 GiB: the ring takes the length as an `unsigned int`, -1 minus the bytes written is then
  less than a buffer, and the copy goes on as in a release build.
* `BarShowsProgress`. The pending part of the bar is drawn up to `width - elapsed`
  (`progressbar.cpp:151`): beyond half of the bar the rest keeps its old characters, which are
  uninitialised ones if the first chunk already was more than half of the file.

## 4. Disagreements between the code and its comments

Each is a run that TLC ends with a counterexample.

* **`pre_buffer_hang`**: "Executes copy and blocks until transfer is complete"
  (`filecopy.cpp:338`). A source strictly between two and three buffers long (8 to 12 MiB
  with the configured 4 MiB) is never copied: `pre_buffer_source` loops while
  `available()` is not zero, `read_to_buffer` reads only while `buffers_available()`
  is not. The last, short read leaves less than a buffer free, and nothing closes the
  source.
* **`empty_dest_hang`**: "If destination file exists, skip it" (`filecopy.cpp:317`).
  `execute` tests the remembered size, 0 for an empty file. `open_dest` has not opened
  it, so nothing is ever written and the loop does not end. A crash right after `open_dest`
  leaves such a file.
* **`md5_length`**: "number of bits, modulo 2^64 (lsb first)" (`hl_md5.h:90`). `count` is an
  array of two `unsigned long`s, whose carry (`hl_md5.cpp:338`) is a wrap-around that does
  not happen at 2^32 where an `unsigned long` has 64 bits. `Encode` takes the low 32 bits
  of each, so that from 512 MiB on the length in the padding is wrong and the digest is not the
  file's MD5. Source and destination are hashed alike, so that verification still
  compares what it should; the checksums printed are not those of another tool. With a 32-bit
  `unsigned long` (`digests`) the digest is right at every length.

## 5. What is proved

Each theorem holds for every value of the constants that the named assumptions of
the modules admit. For the copier these are `RingAssumption`, `FileCopyAssumption` and
`CopyJobAssumption`: buffers of any length, any widths of the counters that hold the
ring, any set of source lengths and of old destination files, both builds, any
faults, crashes, reruns, `Overwrite` or not; four buffers, which the code fixes. A
source is shorter than 2^64 - 1 bytes, because a `size_t` has to count it
and a destination of 2^64 - 1 bytes would be as long as `tellp()` of a failed stream says.

**The order of the bytes** (`CopyJobProofs`):

* `TypeCorrect`: `Spec => []TypeOK`.
* `CopyInvariant`: `Spec => []CopyInv`, the inductive invariant.
* `PrefixSafety`: `Spec => []TargetIsPrefix`.
* `RingOrder`: `Spec => []RingHoldsUnwritten`.
* `ExistingKept`: `Spec => ExistingFileKept`, the action property.

Neither `TargetIsPrefix` nor `RingHoldsUnwritten` is inductive. That the next chunk written
continues the destination needs five facts at once, and these are the parts
of `CopyInv`: the length of the file and of what its stream holds is `bytesWritten` as long as
no write has failed; what it holds are the next bytes of the source (`HeldFollows`), and only the
end of a source that came up short is held, so that nothing is written after it
(`HeldIsTail`); the
chunks between the cursors hold the source from byte `bytesWritten + 1` on
(`SlotHolds`); FileCopy's counters and the ring's count agree, and the stream's
position is `bytesRead` (`CountersAgree`); and all chunks but the last are full
(`RingFilledInOrder`), because `_buffered` counts bytes while cursors move by whole
buffers, and one count describes both only then. The last holds because a
read that comes up short sets the failbit, after which nothing more is read: a second
chunk never follows a short one. `ChunksInRing` is at most 3: a read takes place only
when `buffers_available()` is not zero. After a failed write in a release build the
counters mean nothing, and the invariant keeps only that the destination gets no more
bytes. `FreshAtOpen` carries it over `reset` and to the next file. The induction has
one step per action (`NextInv`), and the two that move data rest on
a lemma each, `ReadKeepsOrder` and `WriteKeepsOrder`, which split on the number of chunks
in the ring. They are in `FileCopyProofs`, because the other driver calls the same members.

**What `execute` returns with** (`CopyJobProofs`):

* `ReturnInvariant`: `Spec => []ReturnInv`, the inductive invariant.
* `ClosedInTime`: `Spec => []NoEarlyClose`.
* `ChecksAreRight`: `Spec => []ChecksNeverMisfire`.
* `WholeCopies`: `Checked => (Spec => []ReturnsOnlyWholeCopies)`.
* `Refinement`: `Debug \/ Faults \subseteq {"write"} => (Spec => ImplementsCopy)`, step
  by step: `CopyStep` maps each action to one of `CopySpec` or to a stutter.

`ReturnInv` adds to `CopyInv` what happens when a stream fails. A write can fail at two places,
and `DestCounted` has a part for each. When `close()` fails, the file is short of
`bytesWritten`, by what the stream held, at most `MaxLoss` (`CloseLoses`). The size check of a
debug build finds it; without that check it is a false success, the only one that a failing
write can end in: `ReturnsOnlyWholeCopies` and the `Loss` of `CopySpec` say so, and both are 0
without `"write"` in `Faults`. When a write fails before that, there is no false success: from
then on `bytesWritten` is `size_t(-1)`, whatever it was before, because each difference of two
`tellp()`s is taken modulo 2^64 and the second of them is -1. `complete()` then asks for
`bytesRead`, at most the length of the source, to be `size_t(-1)`: the copy does not end.
`LoopFed` says that the ring is not found empty while the source has more, so that
`write_from_buffer` does not close the destination early; it holds at the loop's test only,
which is why it names steps. `SizesKnown` ties the remembered sizes to the files at the steps
that decide by them, `Completed` carries `complete()` over to the checks after the loop, and
`FoundUntouched` is for the builds without checks: what `open_dest` found is still there when
it is kept.

The two hypotheses are needed, and TLC shows it. Without `_DEBUG` a source that is cut off or fails
to read is copied in part and `execute` returns: only the checks of a debug build compare
sizes, hence `Debug` or no fault but failing writes. For `ReturnsOnlyWholeCopies` a crash
must also leave no part of a file that the rerun would keep, hence `Overwrite \/ ~MayCrash` in
the second case. As the program is built (`CMakeLists.txt:9`), `Debug` holds.
While these were proved two statements turned out to be false at sizes that no run has, and
were corrected: `NoEarlyClose` after a failing write just before a multiple of 4 GiB
(section 3, `copy_release`), and all of this for a file of 2^64 - 1 bytes.

**The other driver** (`TransferProofs`), with and without inline hashing, for any use of the
object after exceptions, and for the constants above; source sizes are below 2^63, because a
position in a file is signed:

* `TransferTypes`: `Spec => []TypeOK`.
* `TransferInvariant`: `Spec => []TransferInv`, the inductive invariant.
* `HashedBeforeWritten`: `Spec => []HashedThenWritten`.
* `VerifiedCopies`: `Spec => []VerifiedWhole`.
* `AlarmsReal`: `Spec => []AlarmsAreReal`.
* `TransferRefinement`: `NeverThrown => (Spec => ImplementsCopy)`, by the step lemma
  `TransferStep`.

`RingOrdered` is the copier's invariant at each step of this loop. `HashedAhead` adds the third
cursor: `samplesProcessed` is the one chunk hashed and not yet written, the processing cursor
is one buffer ahead of the read cursor just then and at it otherwise, and `hashed` is
`bytesWritten` plus that chunk. It is needed because `hash_data` asks `buffered()` for a length,
which counts hashed samples again; only the order of the loop makes that harmless.
`HashedThenWritten` follows (`InvHashed`). Two kinds of run leave this order, and
the invariant follows both to their ends. A failed write (`Lost`) makes `bytesWritten`
`size_t(-1)` for good. An exception between hashing and writing leaves `samplesProcessed`
behind, which no `reset` clears; then a later inline transfer may write more than it read
(`Overrun`). For that one, the invariant bounds `bytesWritten + samplesProcessed`, so that
the counters cannot come around and agree by accident. That bound is why sizes stay below
2^63. At `Finish`, `complete()` holds, hence the two counters are equal and the transfer was neither
`Lost` nor `Overrun`; what the checks find is then what happened to the files, or to the
tail that `close()` was to write: the size check comes after it, in both builds, so that `CopySpec`
is implemented without loss.

`NeverThrown` says `~Debug`, or no failing writes. Without it an overrun transfer puts
bytes into the destination that its source does not have, and that is no step of `CopySpec`.
`HashedThenWritten` excepts the same objects by `~stopped`. `VerifiedWhole` and `AlarmsAreReal`
need no exception.

**The threads** (`TreeSlingerProofs`), for any number of files, copiers and hashers,
any sizes and any old destinations of the kinds in section 2:

* `SlingerInvariant`: `Spec => []SlingerInv`, the inductive invariant.
* `SlingerTypes`: `Spec => []TypeOK`.
* `NoFileShared`: `Spec => []NoSharedElement`.
* `EachCopiedOnce`: `Spec => []CopiedExactlyOnce`.
* `HashedAfterCopy`: `Spec => []HashedWhenFinished`.
* `VerdictIsRight`: `Spec => []VerdictRight`.

The argument has three layers. `CopierLoops` and `HasherLoops` say what the main thread
knows of the others at each of its steps: whom it has started, whom it has joined, and that
the phases do not overlap. `SharesQueue` says what the threads of a group know of their queue:
every index in hand is below the queue's, and a thread ends only when all indices are given
out; with `NoSharedElement`, one claim per index follows from one increment
per claim. `NoneLeftOut` and `HashesAgree` then say of each index given out that its work is
done or in the hands of a thread that has not ended. When the last join returns no such
thread is left, and the properties follow. The exception is part of the invariant: after
one escapes a thread, `pc` is `"aborted"` and nothing is claimed to be complete.

* `ProgressInvariant`: `Spec => []ProgressInv`.
* `CompleteIsCopied`: `Spec => []CompleteMeansCopied`.

`ProgressInv` says that the progress is the sum of the sizes of the files that have been
counted. A copier that has executed and not yet counted holds its file out of that
sum; `NoSharedElement` is what makes one increment add one file. With `Debug`, the check in
`execute` is why the size of the destination, which is what the code adds, is the
source's. That a part of the files reaches the total only when nothing but empty ones are missing
is `SumOfPart`.

`FoldProofs` proves what `SumFunctionOnSet` computes for sets of any size. The library's
induction theorems take an operator as a parameter, and the installed provers cannot
instantiate them; the lemmas use `WFMin` and `NatLessThanWellFounded` instead, which
take sets: the sizes for which a claim fails would have a least element. `RecursionExists` shows that
the recursive function behind a fold exists, `SumTakes` that the order in which it
takes the elements does not matter; `SumOrdered` and `SumAgrees` compare the sums of two
functions.

**Copies that hang** (`CopyJobProofs`, `TransferProofs`):

* `StuckCopies`: `~MayCrash /\ "read" \notin Faults => (Spec => StuckForever)`.
* `StuckTransfers`: `"read" \notin Faults => (Spec => StuckForever)`.

`StuckForever` says that a copy which starts as one of those hangs does not return, which is
a safety property and needs no fairness. Its invariant is `Hanging`: the copy has not begun, or
something is read and nothing takes it, so that `complete()` never holds (`WaitsForDest`),
or the ring holds the whole source and has less than a buffer free (`WaitsForRing`, after
`pre_buffer`). The hypotheses are needed: a crash ends any copy, and a source that can no longer
be read looks like a shorter one. For transfers, `Stuck` are those whose destination was not
opened; nothing is proved of those that `Stale` excepts.

**The progress bar** (`TransferProofs`):

* `BarIsRight`: `NeverThrown /\ Width < IntHalf => (Spec => []BarShowsProgress)`.

`BarInv` is the invariant: the bar's state is `bytesWritten`, its maximum the size of the source,
and the text is as drawn for the last chunk (`TextShowsBar`). The text keeps characters of
earlier calls, so the proof needs that rounding is monotone (`QuotientGrows`,
`ElapsedGrows`) and that the quotient is never above 1 (`BarCounts`). The width has to be an
`int`, in which `get_bar` rounds.

**The ring as a queue** (`RingClientProofs`), for rings of any number of buffers of any
length, writes and reads of any size, both styles of client, resets at any time:

* `RingInvariant`: `Spec => []RingInv`, the inductive invariant.
* `RingTypes`: `Spec => []TypeOK`.
* `QueueKept`: `Spec => []RingIsQueue`.
* `RefusalsKnown`: `Spec => []RefusedWhenFullOrDrained`.
* `ReadsOrdered`: `Spec => ReadsInOrder`, the action property.

`HoldsFrom` describes the ring by two numbers, the slot of its first unread buffer and the last
sample that is gone (`Behind`); whole buffers follow, then a part of one in the write
buffer. Each member moves one end of it: `WriteMoves` and `StoreKeeps` the write cursor's, `ReadMoves` the
read cursor's. `RingIsQueue` is not inductive, because it does not say that
`samplesRemaining` is what the write buffer lacks, where the write cursor is, or how many
buffers are held at most. That last bound needs `WritableMeans`: before the first read the
buffer at the read cursor is not used, afterwards it is, so that the same test refuses at
two different counts. `FlagsFollow` is the part about the processed flags: one above the last
buffer held has to be clear, and the processing cursor is at the first that is not
set. It is given up when the ring gets full, since the write cursor then clears the flag of
the oldest buffer.

`write()` is a fold over its passes. `FoldOfPasses` gives for it what an induction would:
a set that every pass maps into itself (`Kept`) contains the result, which is the result of a
pass. The set says that the ring holds the samples up to those left over, in order, so that no
number of passes matters. A ring of more than 127 buffers makes none
(`MaxPasses`), and the theorems hold there because nothing is written.

**TreeSlinger as its caller sees it** (`StagingProofs`), for any file system, any trees of any
depth and number of files, any sources and destinations, both builds, and any
sequence of calls, after exceptions too:

* `StagingInvariant`: `Spec => []IInv`, the inductive invariant.
* `StagingTypes`, `TreeIsMirrored`, `FoldersAreReady`, `MatchIsMirrored`, `CompleteIsCopied`: the
  five invariants of the run `staging`.
* `FilesStay`, `AllAreCopied`: its two action properties.

`StagingAssumption` asks that what is given as a file system is one (every entry is in
a directory, finitely many, only files have bytes, and a file has data exactly if it has
bytes). `IInv` has four parts:

* `Types`, after any calls: the lists hold directories and files of the file system, the
  checksum lists have one length, the parent of the destination is there, and paths are
  cut between names, wherever the tree was (`IsCut`).
* `Once`, until something is set, staged or reset again or fails: what was gathered is
  below the source, without repetition, each file in a gathered directory or in the source
  itself (`Gathered`); every other file below the source is behind a link, a copy, or the report
  (`Accounted`); the destinations are those of the assets, position by position, with
  their directories and all ancestors (`Prepared`).
* `Counted`, after any calls: the maximum of the progress is the sum of the sizes of the
  gathered files, if the last `set_source` got so far; each file that was counted has a
  file at its destination, in a debug build of its size; and unless one was counted twice,
  `_transferred` is the sum of the sizes at their destinations. The report is left out of
  this, since it may be written again.
* `Ended`: what a call that has said "match" or never returns has found.

None of the five invariants is inductive: `DestinationsMirrorTree` says nothing before
`_stage`, and what it then says depends on where the gatherer's entries came from.
`Accounted` has to follow a copy into the tree that is copied, and `Counted` needs the set of
counted files, because `_copy_file` may be called in any order and a sum does not show what
it is made of. A call of it adds the size at the destination to the sum and the file to the set
(`CopyFileCounted`), and both belong together unless the file was in the set. When the sum
reaches that of all sources, and no counted file is longer at its destination than at its source,
which the check of a debug build rules out, only empty files are missing (`SumOrdered`,
`SumOfPart`). No step
disturbs a fact about an entry that is there, since every step lets the file system only
grow but for the report and the files that come where dangling links lead (`Grows`, `Stepwise`); that is also why `NothingOverwritten` holds.

Each call is a fold over a list. `Steps` gives every fold the values between its
turns, and a property of all turns is then a set of indices that grows by one (`AllSizes`).
The loops share this (`Turn`), and have one lemma each for what a turn keeps. That every file
has its directory rests on the order of the iterator only in that it visits a
directory at all (`VisitedIs`): a file that no link hides has a parent that is visited
or is the source.

**The hash algorithms** (`HashWrapperProofs`), for blocks of any length,
integers of any width that `HashAssumption` allows, messages, chunks and file blocks of any
length, and any sequence of calls:

* `HashTypes`: the context of every wrapper keeps its type.
* `ContextHolds`, `DigestsRight`: if an `unsigned long` is as wide as an `unsigned int`, a
  context holds the message at any time, and every digest is the standard's
  (`ContextHoldsMessage`, `DigestRight`).
* `ContextHoldsShort`, `DigestsShort`: on every platform, except for an MD5 message whose
  low 32 bits of the count are used up (`FieldRight`). The run `md5_length` shows that this
  exception is needed.

The inductive invariant is `HashInv`: the context is of the wrapper's kind whatever it was used
for (`Shaped`), while a message is fed it holds its first `fed` bytes (`Fed`), and a digest is
the standard's. `ContextHoldsMessage` alone is not inductive: it says what the
context shows of the message, and not that the rest of the message is where the next update
puts what follows, that no field has changed its width, or what a context looks like
that is reset next: `hashIt()` wipes only part of it. `Fed` names for each kind the
one context that a message of `n` bytes can leave but for the cells of the buffer past
`n % BlockLength`, which an update may leave with anything, since the compression of SHA-2
uses the buffer as its schedule. The argument:

* An update moves a context that holds `n` bytes to one that holds `n + len` (`MD5Feeds`,
  `SHA1Feeds`, `SHA256Feeds`, `SHA512Feeds`), wherever `n` is in a block. The blocks compressed
  are those of the message (`Fits`, `Fills`, `Direct`); the rest is arithmetic: a count in
  two words carries exactly when the low word wrapped (`CountAdds`, `Count128Adds`,
  `OneMoreByte`), and the bytes that wait follow from the count although it has wrapped,
  because its width is a multiple of a block (`CountedBytes`).
* The end of a message adds the padding of the standard, in the block begun or in that
  and one more (`LastBlock`, `LastBlocks`, `PaddedMessage`), with the mark in the last
  cell of a block, in the first one of the length field, and in between. MD5 ends a message with
  two ordinary updates (`MD5Ends`).
* SHA-1 takes a byte at a time, SHA-512 counts a block at a time, a file is fed a block at a
  time: folds over data. The library's induction cannot be used (it takes an operator), but that
  a fold has a value for every set of indices is a statement about sets, by induction on
  their size with `AllSizes` of `FoldProofs` (`TurnsExist`); from it the values of a fold one
  after the other (`Steps`).

`FileCopyProofs` has the lemmas on conversions, rotations and the types of the member
functions. All invariants were checked by TLC on the bounds of the runs before they were proved.

Only model-checked:

* Liveness (`EndsUnlessStuck`, `TransferEnds`, `Terminates`): TLAPS has no support for `ENABLED`,
  which weak fairness needs.
  What they share with safety is proved: `StuckForever` says which copies never return.

## 6. What is not modelled

* `open_dest()` without argument: it takes its name from `_rename_dest`, which returns
  nothing (undefined behaviour). The copy constructor of FileCopy, used on fresh objects only.
* `relative_dest`, `_strip_parent_path`, `_hash_source`, `_hash_dest`, `print_bar` and
  `decrement`: nothing calls them. `set_hash_inline` and `set_hash_algorithm`: what they set is read
  by the report's heading only.
* A write to the ring that is forced by `write(data, true)`: the forced rotations are modelled,
  which is what it lacks. `get_ring_index`, pointer arithmetic.
* The rounds of the compression functions and byte order. Their results on test
  vectors are a matter for tests, and the self-test of the wrappers is one.
* The 64-bit `unsigned long`s of MD5's chaining value: only their low halves are ever used.
* Threads that are still running while the next call is made: no member leaves one
  running, except the second `verify_threaded`, which ends the program.
* Changes of the file system from outside while the program runs, and permissions.
* The text of the CSV report (placeholders), console output, the timer (statistics of wall-clock
  time) and the template instantiator (a stub): nothing depends on them.
