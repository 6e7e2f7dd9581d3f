# libmediascan in TLA+

libmediascan finds media files below a set of directories, reads their
properties, makes thumbnails, and hands the client a result per file through
callbacks: from within `ms_scan`, or from `ms_async_process` when the scan runs
in a thread of its own. A Berkeley DB file remembers what was scanned, so that a
rescan reports only what is new. This directory holds TLA+ modules translated
from that C code, TLC runs over small instances of them, and proofs.

## The system

| component | state | operations | what is hard | what makes it correct |
|---|---|---|---|---|
| Event delivery (`thread.c`, `send_*` and `ms_async_process` in `mediascan.c`) | event queue, pipe, `s->thread`, `_want_abort` | send an event, signal, read the signal, pop, callback; abort, destroy | two threads; one byte per event but up to nine read at once; `s->thread` assigned after the worker started; callbacks that abort or destroy | every event once, in order, on the client's thread, freed once; both threads end |
| Scan pipeline (`do_scan`, `ms_scan_file`, `mediascan_unix.c`) | directories to enter, files to scan, progress | walk, hash, look up, scan, store, count | files change under it; aborts; reuse of one object; overlapping paths | a finished scan misses nothing and reports nothing twice |
| Cache database (`database.c`, `HashFile` in `util.c`) | path to hash; one environment for the process | open, clear, look up, store, close | what a scan skips depends on flags, earlier scans, earlier objects | it never claims more than was scanned |
| Progress (`progress.c`) | total, done, rate, eta | count, report | counted in two places, kept over an abort | total = done + files left |
| Byte buffer (`buffer.c`) | memory, offset, end; bit cache | append, get, consume at either end, fill from a file, read bits | compaction, growth, short reads, left-over bits | a queue of bytes, always within its memory |
| Object set-up (`ms_create`, `ms_add_*`, `ms_set_*`, `_should_scan`) | paths, ignore lists, flags, callbacks | add, set, match | limits of the arrays; substring matching of extensions | a file is listed if and only if its extension is known and not ignored |
| Results (`result.c`, `audio.c`, `video.c`, `tag*.c`, `error.c`) | a result and what it owns | open, probe, fill, pick a frame, destroy | a failure at each step must free what there is, once | what is told is whole, nothing leaks, files are closed, the search for a frame ends |
| Thumbnails (`thumb.c`, `fixed.h`) | pixels of image and thumbnail | size, resize, rotate, hand to the encoder | rounding, rotated coordinates, fixed-point range | each pixel written once, reads inside the source, colours kept, upright |
| Image decoders (`image*.c`) | pixels, file buffer, static masks | read a header, load rows, destroy | a pixel cut in two by the end of the buffer; state kept between images | every pixel is read from its place in the file |
| Folder monitor (`folder_mon_win32.c`, Windows) | watch thread | file added, changed, removed | third thread on the same object; its stop event is never signalled | |
| DLNA profiles (`libdlna/`, vendored) | none | first profile that matches | order of the tables | |

Threads share `MediaScan`, the event queue (under a mutex), the pipe, the abort
flag (no lock) and the event data, whose ownership goes with the event. The
client calls into the library from one thread; the worker thread runs
`do_scan`. The database is used by whoever runs `ms_scan_file`.

`PROJECT.json` lists these components with their status, every hazard with its
line, and for each modelled definition the lines it stands for.

## Modules

**EventChannel** is the abstract specification of event delivery: events are
sent, delivered in order and at most once, and all of them eventually unless
the client closes the channel.

**AsyncScan** is the thread code and both its users. The worker's place in `do_scan` is
`wpc`; its place in a `send_*` call is `out` (`signal` between the unlock in
`thread_queue_event` and the write of the byte, `direct` while it runs a callback itself
because `s->thread` is not assigned yet). The client's place is `cpc`; `publish` is the
gap between `pthread_create` and the assignment of `s->thread`. A critical section is
one step, and so is each system call; between any two of them the other thread may run,
and between the abort flag being read and the progress event being sent at the end of a
directory. Which files there are is left open: visiting a directory finds any number of
files, a file yields a result, an error or nothing. `sent`, `called` and `mark` are
history: what was sent, what was called back, and how much had been sent when the abort
was asked for. An event's identity is its place in `sent`.

**ScanPipeline** is what the worker computes: `recurse_dir` flattened to a stack
`todo` of directories to enter and the `entry` of the one that is being read,
one entry a step. A directory that was read puts its subdirectories in front,
which is the order of the recursion. Then comes the file queue, and
`ms_scan_file` in three steps (HashFile and look-up; result_scan and put; send)
with the file system changing, or the process ending, between any two, and the file
counted and taken off the list in two more; around it `ms_create`, `ms_scan`,
`ms_abort`, `ms_scan_file`, `ms_destroy` called by the client. A file's contents
are a version number, which is also its hash. Faults are a directory that cannot
be opened, a get, a put or the truncation of the database that fails, and the end
of the process at any point, after which the database's file has, for each path, the
last entry or the one from when it was last closed (`disk`). A result whose hash was
put but which the end of the process kept from being sent is remembered in `unsent`,
one that goes with its queue in `lost`. Results are told at once, or
queued once there is a thread; `AsyncScan` is about how the queue is emptied.
**MCScanPipeline** gives it two directories, one inside the other and both on
the list of paths, a good file, a broken one and one with an unknown extension.

**ResultScan** is one file on its way through `ms_scan_file`: `result_create`,
`result_scan` with `scan_image` or `scan_video`, the decoders as what they
allocate and where they fail, the loop of `video.c` that looks for a frame, a
thumbnail per specification, and `result_destroy`. `heap` is what was allocated
and not freed, `r` and `img` are the pointers of the result and its image;
`twice` collects objects freed when they were not allocated. `result_destroy` hands
`avformat_close_input` the context instead of the address of a pointer to it, so the
model closes an "avclass" (what the context's first field points to) and leaves the
context (`Destroyed`); that this call may end the process is left out, as nothing comes
after it. A picture that was decoded stays in the frame that `av_free` frees alone
(`Picture`), and a GIF without images loads without pixels, of which the first
thumbnail ends the process (`ResizeNothing`).

**ThumbResize** is `thumb_create_from_image` with the arithmetic of `fixed.h` at
the width of a word: the size of the thumbnail, padding, the resizer pixel by
pixel, the rotated coordinates of a turned photo, and the rows in which the JPEG
and PNG encoders take the pixels. A pixel records the place it shows. An orientation is
any number, as `image_jpeg.c` takes it from Exif; a pixel put outside the thumbnail's
cells is lost (in the code it overwrites whatever is there).

**BmpLoad** is `image_bmp.c`: header, masks, and the loop over rows that refills
its buffer in the middle of a row, for one image after another, since masks and
shifts are static. `ptr`, `offset` and `read` say which byte of the file is under
the pointer.

**ByteFifo** is the abstract specification of a buffer: a queue of numbered
bytes that can be read bit by bit. **Buffer** is `buffer.c`: the memory as a
function from addresses to byte numbers, `offset` and `end`, the compaction and
growth of `buffer_append_space` in the code's order (`WithRoom`), short reads in
`buffer_check_load`, and the bit cache as a sequence of bits that is shifted.

**AsyncScanProofs**, **ScanPipelineProofs**, **ScanCoverageProofs** (which builds
on the second), **BufferProofs**, **ResultScanProofs**, **BmpLoadProofs**,
**ThumbResizeProofs** and **ThumbSumProofs** (which builds on that) hold the theorems.

EventChannel is composed with AsyncScan, and ByteFifo with Buffer, by refinement.
AsyncScan's `ScanFile` is the whole of ScanPipeline's `ms_scan_file`, and
ScanPipeline's `CanScan` the outcome of ResultScan: the composition of all three
in one run would multiply interleavings none of their properties is about.

## Runs

| run | bounds | shows |
|---|---|---|
| `async_scan` | 1 directory, up to 2 files, pipe of 8, reads of 3 | events reach their callbacks once, in order, and memory is freed once; both liveness properties and the refinement of EventChannel |
| `full_pipe` | the same with a pipe of 2 | `ms_destroy` can wait for ever (violation) |
| `publication` | as `async_scan` | callbacks on the worker's thread (violation) |
| `destroy_in_callback` | as `async_scan`, callbacks may destroy | a freed object is read (violation) |
| `scan_pipeline` | 2 objects, two scans with the first and one with the second, one change of a file, one fault, 1 direct scan per file | the pipeline's invariants, and that scans end |
| `result_lost` | 2 scans of 1 object, no change, no fault | a result that goes with its queue is never told (violation) |
| `buffer` | 6 bytes in all, pieces of 1 and 4, file of 3, memory of 5, 2-bit bytes and 4-bit words | bounds, refinement of ByteFifo, reads that succeed when they can |
| `result_scan` | up to 4 specifications and 4 places for thumbnails, videos of up to 4 packets, 2 of them skipped | ownership, closed files, whole results, an end |
| `close_context` | the same | a video's context is not closed (violation) |
| `thumb_resize` | images and thumbnails up to 4 by 4, orientations 0 to 9, 6 fraction bits in words of 15 | the resizer's invariants |
| `rotated_png` | the eight orientations | a turned photo is saved in rows of the wrong length (violation) |
| `bmp_load` | buffer of 7 bytes, widths 1, 3 and 9, heights 1 and 2, all depths, files up to 4 bytes short or long | pixels come from their places |

*AsyncScan.* `NoLostWakeup` (a queued event has a byte in the pipe, a writer about to
write one, or a client already draining), `InOrderOnce`, `HeapExact` (allocated =
owned), `WorkerOutlived`, `CallbacksNeverOverlap`, `FinishMeansDone`, `AbortIsPrompt`
(after an abort at most one more file is reported, and four events in all),
`SignalNeverWaits` (with a byte of room for each directory, two for each file and two
more, the worker never waits for the client), `GetsNearer` (whichever thread takes a
step, there is less ahead of them), `FinishCalled`, `DestroyReturns`,
`ImplementsChannel`. One directory and two files give up to seven events, three reads of
the pipe, an abort before, between and after files, and more events than one read takes;
with two directories the same run passes on 1.2 million states. The pipe of 8 has room
for all of a scan's events (1 + 2 * 2 + 2): this is the condition of `SignalNeverWaits`,
under which `ms_destroy` returns, and `full_pipe` shows it is needed.

*ScanPipeline.* `NothingMissed` (after a finished scan the client knows the present
contents of every file that did not change during it and met with no fault, unless the
result was `lost` with its queue or `unsent` after a crash; `result_lost` shows the
first of them), `FreshFullScan`, `ReportedOnce`, `CacheNeverAhead` (the database is not
ahead of what was sent, is in hand, or was kept from being sent by a crash),
`ProgressExact`, `ScanEnds`. Two objects, one of them used twice, are the least that
show a database handed on, an object reused, and a thread replaced; one change comes
before, during or between scans, at any step of `ms_scan_file`; one fault, in any scan,
leaves scans after it to make up for it. What the run leaves open beyond these bounds is
proved below.

*Buffer.* The proportions are those of the code (a word of two bytes instead of
four, compaction at four fifths, so that six bytes through a memory of five are
the least that compact with data left). With words of W and bytes of B bits,
requests of up to W - B + 1 bits are safe, which is 25 for the real sizes, and
the run asks for no more.

*ResultScan.* `FreedOnce` (but for a JPEG's line after longjmp, and what is closed in
place of a video's context), `AllFreed` (with the exceptions the code has: libjpeg's,
libpng's and giflib's errors jump over what they would free, and the context and last
picture of a video stay), `ToldWhole`, `ScanEnds`. Four places and four specifications
show the place that is never used (`MAX_THUMBS` is 8 in the code); four packets with two
to skip show a key frame before, at and after the limit (200 in the code). A frame
decoded beyond the limit, the file's first included, makes the loop give up; below it, a
decoded key frame is thrown away.

*ThumbResize.* `ReadsInside`, `WrittenOnce`, `PortionsAddUp`, `PlainStaysPlain` (a
picture of one colour stays one, up to the error of the inverse), `JpegAsAsked`
(upright, and of the size asked for). `WrittenOnce` and the upright half of
`JpegAsAsked` are for orientations up to 8 (`Known`); `UnknownUnturned` below is about
the others, of which 9 stands for all, as the code only asks whether a value is at least
5. `PlainStaysPlain` is for sums that a word has room for, `OverflowKeepsColour` below
about the others. The code has 12 fraction bits in words of 32; 6 in 15 keeps the ratio
between the largest sum and the word for images of 4 by 4. All ratios of sizes from 1:4
to 4:1 occur, with and without padding.

*BmpLoad.* `PixelsInPlace`, `ReadsHeld`, `CompleteLoads` (a file is loaded if it has
three bytes more than its rows; `RefusedIncomplete` below is about those that have
fewer). A buffer of 7 bytes is cut within every kind of pixel, between a row and its
padding, and within the padding; rows of nine pixels need several refills. The code's
buffer of 4096 bytes is cut in the same places by wider images.

Every property has a mutant in PROJECT.json: a defined operator that changes a
mapped definition as a plausible bug would, and breaks the property.

### Fairness

`AsyncScan!Fairness` is weak fairness of the worker (the operating system runs
it) and of the client's event loop: it calls `ms_async_process` when the
descriptor is readable, as the header demands, and its callbacks return.
Starting, aborting and destroying are never forced. `ScanPipeline` assumes weak
fairness of `do_scan` only, ResultScan of the one thread it is about.
`EventChannel!Spec` has weak fairness of delivery, which AsyncScan is shown to
implement, with the fairness above. Buffer, ThumbResize and BmpLoad have no
liveness: each of their calls ends by itself.

## Proofs

**AsyncScanProofs** proves, for all values of the constants that satisfy
`AsyncScanAssumption` (any bounds on directories and files, any positive pipe
and read size, any set of callbacks, callbacks that call `ms_destroy`
included): `TypeCorrect`, `WakeupsKept`, `DeliveredInOrder`, `NothingLeaks`,
`WorkerStopsFirst`, `OneCallbackAtATime`, and `RefinesChannel`, the safety part
of the refinement.

None of these invariants is inductive by itself. `IInv` conjoins the type
invariant, `NoLostWakeup` and `HeapExact` with four strengthenings. `FileInHand`:
the worker has a file while it is scanning one. `Phases`: which places of worker,
client, `thread`, `fds` and `alive` go together; in `publish` the worker exists
but `thread` is false, after the join the worker has exited, and so on. `Hands`:
the event the client is handling is the last one called, and nothing is queued
while events are called back directly. `Order`:
`InOrderOnce`, and no more events are called or queued than were sent. `NoLostWakeup`
needs `Phases`, since a worker past its signal relies on the client not having
closed the pipe; `HeapExact` needs `Order`, since events are freed by number and
a number must not occur twice; the refinement needs `InOrderOnce`, since the
next event delivered must be the oldest. The step lemma of each part has one
case per action, with what the worker's steps share in `ScanStepShape` and
`WorkerStepType`, sending in `SendType`, `SendOrder` and `SendHeap`, popping in
`PopOrder`, and the steps that leave ownership alone in `SameHeap`.

**ScanPipelineProofs** proves `TypeCorrect`, `ProgressCounts`, `CacheHonest` and
`OnceEach`, for any finite lists of directories and files, links that make the
directories a graph with cycles included, any flags, and any number of objects, scans,
changes and faults. `CacheNeverAhead` needs that the file the worker is at has not gone
back behind the hash it took (`HashOld`: versions are times, or 0), and that the file of
the database, which a crash brings back, claims no more than was sent, or kept from
being sent by a crash, either (`Claimed(disk)`). `ReportedOnce` needs that a file
reported in this scan has its present hash in the database until it changes
(`Reported`).

**ScanCoverageProofs** proves `ScanMissesNothing` and `FullScanIsFull` from the same
assumptions. The invariant, `Coverage`, says where a file that is due is: below a
directory on the stack (`Below` is the least closed set, and entering a directory only
takes that directory out of it), among the entries not read yet, on the file queue, or
seen to. It needs `Stages` (which lists are empty in which phase; an object's first scan
finds the database closed), `Past` (a result is of contents the file has or had, and is
told, lost, unsent, queued or in hand), so that a hash in the database that equals the
file's shows that this very version was sent, and `FreshEntries` (what a database that
was emptied holds is from this scan).

Two more invariants of AsyncScan are inductive next to `IInv` and not part of it.
`FinishIsLast` follows from `Finishing`, which says from where in `do_scan` the finish
event can still be sent. `AbortsPromptly` counts: `Stopping` bounds what was sent since
the abort together with what the worker may still send from its place (`StillToSend`),
and says where a result or an error can still follow.

Two theorems are the safety half of the liveness properties, for any number of
directories and files. `NeverWaits` is about the pipe: its invariant `Sparing` is a
budget. The events sent and those the worker may still send from its place
(`SendsFrom`) are no more than the directories and files account for, and the pipe,
with the byte that is about to be written, holds no more bytes than events were
sent. `AlwaysNearer` says that a step of either thread lessens `Ahead`, which
weighs what is left of `do_scan` against events queued, bytes in the pipe and the
client's place: an event that is sent costs the worker more than it adds for the
client, and a wake-up that finds nothing still takes a byte. So threads and client
cannot keep each other busy for ever, and what is left to TLC of `FinishCalled` and
`DestroyReturns` is that they never stop short of the end.

ScanPipelineProofs has a theorem `AlwaysNearer` too: each step of `do_scan` takes
at least one off `StepsLeft`, a directory that cannot be opened or a file on the
list twice included, and neither client, crash nor change of a file adds to it;
only another `ms_scan` does. The steps of a walk cannot be added up by recursion
here, so the theorem is for any function `W` that gives a list of directories
more steps than its first one takes and the rest of the list has left (`Tree(W)`).
Of directories that form a tree the sum of what each one takes is such a function
(`FlatIsTree` proves it of those without any below). Of a directory that contains
itself there is none (`LoopIsNoTree`), and rightly so: `recurse_dir` has no limit
that applies to it.

**BufferProofs** proves `AlwaysInBounds`: for every size of memory, slack,
request and file, and every order of calls, the data stays inside the memory.
One lemma each says that rewinding, compacting, growing and appending keep the
region sound; `Counts` says that the bit cache never gives back more bits than it
was filled with, so that what `buffer_get_bits` takes is counted right.
Its second part proves `ImplementsQueue`, the whole refinement of ByteFifo
(which has no fairness), `LoadsEnough` and `TypeCorrect`. `FifoInv` adds to the
first part's invariant that only stored bytes are held (`Written`) and that
less than a byte is left in the bit cache between calls (`CacheInv`). A step of
the memory maps to a step of the queue by what it does to `Data`: compaction and
growth leave it as it is, an append adds a numbered byte at its end, consuming
takes a part of it off. Filling the cache bit by bit maps to one read of that many bits.
The hypothesis `MaxBits + ByteBits <= WordBits + 1` is needed, for a request of
more bits finds no room for the byte it still needs (see `BitsAreData` below).

**ResultScanProofs** proves `FreesOnce`, `LeavesNothing`, `TellsWhole`
and `TypeCorrect`, for any number of packets, of specifications and
of places for thumbnails. `FreedOnce` holds because the heap is known at each
place: `Kept` says that what the scan owns there (`Own`), what the thumbnail in
the making owns (`Current`) and what the finished ones own (`Made`) is allocated,
`Accounted` that nothing else is but the open codecs, what was `abandoned` and what
no place in the code frees (`Forgotten`: a video's context and last picture).
`Added` (thumbnails are of different specifications, each below the one in the
making) keeps the three apart, `Places` and `Outcome` say which pointers are set
where and when there is an error. `AlwaysNearer` is why a scan ends: every step is
one off the packets still to be read, the thumbnails still to be made and the places
after them; the round that goes back to the first packet is the last of the loop.

**BmpLoadProofs** proves `PicturesTrue`, `LongFilesLoad`, `ReadsOnlyHeld` and
`TypeCorrect`, for buffers of at least 4 bytes and images and files of any size.
`Position` is the heart of it: the byte under the pointer, the bytes left of the row and
the bits taken of the byte are all determined by the pixel to be read, so a refill in
the middle of a row changes nothing. `RowShape` says what a padded row has, `RowGoesOn`
that the pixels of each depth divide it, `Cells` that no two pixels have the same cell.

**ThumbResizeProofs** proves `WritesOnce`, `JpegsAsAsked`,
`TypeCorrect`, and with hypotheses `ReadsStayInside` and `PortionsExact`, for images
and thumbnails of any size. `InnerInside` bounds the place
of a centred image, with a padding on both sides and at least one row; `RotatedInside`,
`IndexInside` and `IndexApart` say that a turned place has a cell, and one of its own.
`Shown` says that a cell that was written shows a place that had its turn, in that
place's cell, so the next cell is still padding, and `Counted` that there are as
many as places that had their turn.

**ThumbSumProofs** proves what is a sum: `PortionsSumUp` (what the source coordinates
of a pixel count for is all that the pixel stands for, none of it twice),
`WeightsStayBelow` (the pixels together, each product rounded down, weigh no more than
that part of the image has area) and, with it, `PlainKept`. A sum in the model is a
fold over a set (`MapThenSumSet`), and the induction that evaluates it is over the size
of a set, which the provers cannot do by an operator; `SetInduction` gets it from the
least element of a set of naturals instead. `SumExists` gives the function that adds up
one element after another in whatever order, `SumAdds` says that the fold computes
that function, `IntervalSum`, `RowSum` and `GridSum` add up over coordinates, rows and
the whole rectangle.

The hypotheses of both modules are of two kinds. `PowersOfTwo`
(2^n is positive and doubles) is plain arithmetic the provers cannot do, `^` being
recursive. `FitsWord` and `RoomForColours` are where fixed-point
arithmetic ends: sides below 2^19, a colour and an inverse below 2^31; beyond them the
code wraps around and promises nothing. `PlainKept` leaves out black, whose sum is 0.
All of them hold wherever the run `thumb_resize` puts a pixel.

But for these hypotheses and `Tree(W)`, the theorems rest on the modules' assumptions
about their constants only, which TLC evaluates in the runs.

Model-checked only: the liveness properties (`FinishCalled`, `DestroyReturns`, both
`ScanEnds`, and the fairness of EventChannel in `ImplementsChannel`), beyond the prover
here, which has no ENABLED and hence no fairness. Each of the modules they are about has
its `AlwaysNearer`: that nothing goes on for ever is proved, that nothing stops
before its time is checked. Every safety invariant of a passing run is proved.

## Disagreements

The runs that end in a violation each check one sentence of the header, a comment or
a test; PROJECT.json quotes them under "findings": the full pipe, the late assignment
of `s->thread`, the object freed under `ms_async_process` (where header and source
contradict each other), the result that goes with its queue after its hash was stored,
the context of a video that is never closed, and the turned photo saved as PNG.

More claims that the code does not keep are stated in the modules and are not part of a
run; each fails when it is added as an INVARIANT to the configuration of the module,
with the constants changed as given:

| claim | module | what the code does | constants |
|---|---|---|---|
| `FullScanScansAll` (`libmediascan.h:386`) | ScanPipeline | the second full scan of an object skips what the first one scanned (`database.c:48`, `mediascan.c:1108`) | |
| `OnlyCurrentAborts` (`ms_abort`) | ScanPipeline | an abort outlives its scan, and the next one stops short | |
| `KeyFrameUsed` (`video.c:111`) | ResultScan | a decoded key frame is thrown away, as `got_picture` is never set | |
| `ImageInMemory` (`result.c:473`) | ResultScan | a GIF that ends before its first image counts as loaded | |
| `UnknownUnturned` (`thumb.c:220`) | ThumbResize | an orientation of 9 or more is written outside the thumbnail, or twice | |
| `OverflowKeepsColour` (`thumb.c:343`) | ThumbResize | a sum that overflows goes on as it is (at the real width it takes about 2057 pixels of the image for one of the thumbnail) | Colour = 255, MaxSide = 3 |
| `RefusedIncomplete` (`image_bmp.c:223`) | BmpLoad | a file with all its rows is refused when its last bytes come with a refill of fewer than 4 | |
| `DefaultMasks` (`image_bmp.c:20`) | BmpLoad | an image of 16 bits without masks is taken apart by those of an earlier one | |
| `BitsAreData` | Buffer | bits are lost beyond 25 | MaxBits = WordBits |

## Not modelled

The repository's 159,144 lines are for the most part not its own: the sources of
libpng and libjpeg for Windows, Berkeley DB's header, Perl's `ppport.h`, libdlna,
lookup3, iconv. They are outside the model for that reason, and so is
what only calls into them: the loops of `image_jpeg.c`, `image_png.c` and
`image_gif.c` (ResultScan has what they own and where they fail), the properties
copied from libavformat, Berkeley DB's own recovery (a crash leaves each entry
old or new).

Not modelled, and why:

- links and `RECURSE_LIMIT` (the count is passed on unincremented, so the limit
  never applies); a link to a directory is followed only if its name has a media
  extension, and then listed as a file too;
- `_should_scan`: it looks for the extension as a substring of a list, so that
  short or ignored extensions match others; the model takes its outcome;
- the limits of the object's arrays: `ms_add_thumbnail_spec` has none;
- changes a hash cannot tell apart (same size and second);
- several objects at a time, which share `myEnv`: destroying one closes the
  environment of another;
- audio files, which fail without an error since there is no scanner for them;
- the number decoders of `buffer.c`, which take their bytes with `buffer_get_ret`
  (Get), and its conversions to UTF-8, which nothing in the build calls;
- a BMP header of another depth than the format's six, or with sizes below one or a
  product beyond an int: `image_bmp_read_header` takes all of them, and the loop reads
  no pixel for a depth it has no case for;
- the sizes of further images in one GIF, which are read into the pixels of the first;
- a weight of 0 in the resizer, when one pixel stands for less of the image than a
  fixed_t can hold (`PlainStaysPlain` leaves it out);
- BMP's offset to the pixels, which the code reads and ignores; the pointer to a
  row of a JPEG after `longjmp`, which is not volatile (FreedOnce leaves it out);
  the packet that is freed unset when `avcodec_open2` fails (video.c:225);
- rate and eta; memory that runs out, where FATAL only logs and the code goes on;
- the walks of Windows and Mac, the Windows folder monitor, the Perl binding;
- `wav.c`, which is not part of the build, and `image_tiff.c`, which decodes nothing.

## Plan

1. *CacheEnv*: several objects and one environment.
2. *ShouldScan*: extensions, ignore lists and the limits of the object's arrays.
3. *FolderMonitor*: the Windows watch thread composed with a scan.
4. *DlnaMatch*: first match over the tables of `libdlna/profiles.c`.
