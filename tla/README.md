# A TLA+ verification of curlftpfs

curlftpfs mounts an FTP server as a file system: FUSE calls its operations from
several worker threads, libcurl talks to the server. This directory holds TLA+
modules of the parts that carry its logic (uploads, reads, the cache, the
listings and the paths, the command line and the start-up), TLC configurations
that check them on small instances, and TLAPS proofs for all instances. Line
numbers refer to the files of the repository.

## The system

| Part | State | Operations | What makes it correct |
|---|---|---|---|
| Streaming upload (`ftpfs.c`, `buffer.c`) | per handle: `stream_buf`, `pos`, `eof`, `isready`, `written_flag`, `write_fail_cause`, four semaphores, a thread | open, write, ftruncate, flush, fsync, release; `ftpfs_write_thread`, `write_data_bg` | one side at the buffer at a time; a success reported is true; every call returns; an appended upload continues at the right place |
| Attribute cache (`cache.c`) | hash table of nodes with three expiry times, time of the last cleaning | getattr, getdir, readlink, every mutation with its purge | no answer from the cache that a completed mutation has made wrong; cleaning loses no live answer |
| FTP metadata operations (`ftpfs.c`) | the shared connection, `ftpfs.host` | getattr, getdir, readlink, `ftpfs_do_cmd` and its callers | the answer is about the path that was asked for |
| Listing parser (`ftpfs-ls.c`) | none | `parse_dir` and three line formats | a file is found exactly when the server has it, with its date and its link; what is added to the cache meets later lookups |
| Buffered reads (`ftpfs.c`) | per handle: a window of the file; shared: `current_fh`, `multi`, `attached_to_multi` | `ftpfs_read_chunk`, `check_running`, `cancel_previous_multi`, opens for reading, release | what is read is the part of the file that was asked for, whatever other requests do to the shared connection; a read returns |
| Paths and character sets (`path_utils.c`, `charset_utils.c`) | none | encoding of URLs, conversion between `iocharset` and `codepage` | the server is asked about the file the path names |
| Command line (`main.c`, `compat/fuse_opt.c`, `cache.c`) | `struct ftpfs`, `struct cache`, the arguments left over | two passes of `fuse_opt_parse` with two tables | each option reaches the one that reads it; FUSE gets the rest |
| Life of the process (`main.c`, `passwd.c`) | the handles of libcurl | start-up with every early return, `prompt_passwd`, the mount, the shutdown | documented command lines start; nothing is left attached at the end |
| curl settings (`ftpfs.c`), messages (`error.c`) | none | copies of options, texts | not modelled |

How they interact. FUSE calls the operations of `cache.c`, which call those of
`ftpfs.c`. Those that list a directory hand the listing to `parse_dir`, and that
calls back into the cache for each line. Everything but an upload uses one
connection under `ftpfs.lock`; each upload has a connection and a thread of its
own and meets its callers only through semaphores and unlocked fields.

What is hard about it: the handshake of the upload under failures at any point;
a flush in the middle of a file and the resumption with `APPE`; several
descriptors of one handle; the cache, which is not locked between a listing and
the insertion of its lines, nor between a change and its purge; listings that
fail half-way; reads that lose their transfer to other requests; names with
characters that two encodings treat differently. `PROJECT.json`
lists these as hazards, each at its line, with the properties that cover it.

## StreamWrite: one handle opened for writing

Two callers (`op`, for what the kernel sends one at a time, and `flush`, for a
flush of another descriptor that overlaps it) and the upload thread. `pc[c]` is
the place in the handler (`o_` open, `w_` write, `f_` `finish_write_thread`,
`s_`/`r_` flush, fsync and release, `t_` ftruncate), `tpc` the place in the
thread (`t_` `ftpfs_write_thread`, `cb_` `write_data_bg`, `curl_` inside
libcurl). The other variables are the fields of `struct ftpfs_file` under their
own names, `sem` for the four semaphores, `wire` for the bytes libcurl has taken
and not sent, and the file on the server. A step is the code between two points
at which the other side can notice a difference, so every order of two
unsynchronised accesses is explored. `told` is a history variable: some call on
this handle has returned an error.

A byte is named by its place in the file, which makes "the server holds what was
written, in order" a comparison of sequences. libcurl is external: it connects or
fails, before the server has seen the command or after `STOR` has emptied the file, sends what the callback gave it in whole or in part, and ends the transfer
when the callback returns 0. What the server keeps of a completed upload is a
constant (`ServerLoses`). A failed `realloc` leaves NULL with the new size
recorded, and a write that follows may then end the process (`WriteCrash`).
`sem_wait` is taken to return only when it has a unit: the code ignores its
result, so a signal that ended a wait would break `BufferExclusive` (that is the
mutant `CallbackWaitInterrupted`); no signal handler of the program does.

Reads and the read-only open are in `ReadPath`. The O_RDWR mode is refused, as in a
build without `CURLFTPFS_O_RW_WORKAROUND`.

`Upload` is the promise of such a handle with nothing said of threads, semaphores
and buffers: a write is accepted at the end of what has been accepted, or refused;
the file grows by accepted bytes, each at its place, and only while an upload runs
(`running`); a flush reports success only
when all of them are there; once an error has been reported the placing of bytes is no longer
promised. `StreamWrite` implements it (`ImplementsUpload`); the mapping takes the
variables of the same names, and `write_conn` for `running`. What the code does against that promise is named
there as an exception of its own: a write elsewhere than at the end is dropped and
reported as written, but only while no upload runs (finding 2).

| Property | Meaning |
|---|---|
| `TypeOK` | types, and what a write leaves in `stream_buf` fits the size that `buf_resize` recorded |
| `OneToken` | the right to touch `stream_buf` is a single token while the upload runs |
| `BufferExclusive` | the callback never copies while a write fills the buffer |
| `NoThreadAfterFree` | no handle is freed under its thread |
| `WriteDelivered` | a write that reports success left nothing in the buffer or with libcurl |
| `FlushHonest` | a flush that reports success, on a handle that has reported no error, means the server has exactly the bytes accepted (`pos` of them; a write that was dropped is not among them) |
| `ImplementsUpload` | every step is one of `Upload` or changes nothing that it speaks of |
| `AppendAtPos` | `APPE` starts at `pos` (violated, finding 3) |
| `CallsReturn` | every call returns |

## Cache: the attribute cache and what fills it

Worker threads serve requests step by step: the look into the table, the listing,
one step for each insertion that a line causes, the insertion of the answer; for
a mutation the command on the server, the freeing of its URL, the purge. The
table is a partial function from paths to nodes with the fields of `struct node`;
`now` is the clock. `struct stat` is one value, and so is the target of a link.
`stale` and `staleDir` are history variables: the entries that came from a
listing that was incomplete or has been overtaken, or were changed by what no
purge follows.

| Property | Meaning |
|---|---|
| `AttrCoherent` | an answer to getattr from the table is what the server has, unless a purge is pending, the listing was incomplete or overtaken by the change, the path lies under a renamed directory, the reply to the change was lost, or the change is an upload |
| `DirCoherent` | the same for the names in a directory |
| `LiveKept` | a node that can still answer leaves the table only by a purge |

The five exceptions of the first two are what the code admits; that there are no
others is what the run shows. The hazards they name (`cache.c:228`, `:300`, `:116`, `:366`,
`:480`, `ftpfs.c:185`) are therefore described by these properties and not caught by them. The last one is a mutation of its own (`upload`): an
open with O_TRUNC, a flush or a release that changes a file through
the operations `cache_unity_fill` passes on, after which nothing is purged.

A rename frees `ftpfs.host` (see the findings). The use of the freed string is
undefined: the model notes it (`host = "undefined"`) and says nothing of what
follows, so the invariants speak of every state before it.

Not in this module: `cache=no` (the `cache_unity_` functions keep nothing), and
`symlink` and `link` (no FTP operation is behind them, `ftpfs_oper` leaves them out).

## ReadPath: reads on the shared connection

`ftpfs_read_chunk` holds `ftpfs.lock` from beginning to end, so one request is served
at a time; what makes it hard is what it leaves behind. A read returns with its
transfer still attached to `ftpfs.multi`, the next read of the same handle goes on
with it, and every other request cancels it. `pc` is the place in the function;
`buf` and `begin_offset` are the window of each handle, `transfer` is what libcurl
does on the connection, one step for each call of `curl_multi_perform`, which may
bring bytes, end the transfer with or without an error, or bring nothing. A handle is
its address, and a freed address may be used again. A byte is named by its file
and its place in it. Offsets are written into a string of 15 characters: the
model cuts them at `RangeDigits` digits of base `Radix`. After a failed `realloc` a
copy from the window ends the process (`Crash`).

`FileRead` is the promise: a read is answered with the bytes of its file at the
offset asked for, as many as were asked for or as are left, or with an error.

| Property | Meaning |
|---|---|
| `WindowTrue` | the window of an open handle is a piece of its own file at `begin_offset` |
| `TransferContinues` | a transfer that the current handle would go on with was started for it, and continues where its window ends |
| `MessageWaits` | `curl_multi_info_read` is called only when a message waits: the code follows the pointer it gets |
| `RangeCleared` | the range of a read is gone before the next request |
| `ImplementsFileRead` | `FileRead` |
| `RequestsReturn` | a request returns, if the server goes on answering |

`SelectFailsIn` says in which requests `select` may fail. The run lets it fail in
reads. In an open the properties would not hold: the open fails and frees its
handle, the transfer stays attached and `current_fh` keeps the address, so that
a later handle at the same address goes on with the transfer of another file
(TLC shows it with `SelectFailsIn = {"open", "read"}`: `TransferContinues` fails).
The code treats both alike (`ftpfs.c:291`), so this is a limit of the run and of the proofs:
`select` can fail there only when a signal interrupts it, and the handlers that FUSE installs
end the mount. No text of the repository speaks of it, so that it is no finding either.

## Options and Mount: the command line and the life of the process

`Options` has `fuse_opt_parse` as operators on a record with the fields of its
context: one argument, or one option of a list, at a time, options in groups (`-oa,b`,
`-o a,b`), `--`, words, the templates with and without a parameter, what is kept and what
is taken. The tables `ftpfs_opts` and `cache_opts` have one option of each kind.
`Reading` and `Others` are what a command line says and what is left of it without the
options of the tables. `Manual`, `Unset` and `Means` are the reference for the settings: the
entries of the usage text (`main.c:93-158`) and of the manual page (`doc/curlftpfs.1`), with a
parameter or without, their defaults, and what a reader of them would say a command line
means. They are written from these texts and share nothing with the tables. `IsLine` says what a command line is: an option that
stands alone has a dash, which no template has of an option that sets a field, and the
list after a bare `-o` does not begin with `-o` itself. `Mount` assumes it of
`CommandLines`.

`Mount` EXTENDS `ReadPath` and `Options`: `phase` is the place in `main`, every early
return and `exit` is a disjunct, and between the mount and its end the requests are
those of `ReadPath`.

| Property | Meaning |
|---|---|
| `SettingsTaken` | every option given has the effect the manual page says, in whichever structure reads it; the last of two counts; not so for `ftpfs_debug` alone |
| `RestToFuse` | FUSE gets the other options in their order and the words after the host |
| `NoTransferLeft` | at the end no transfer is left in the handles of libcurl that are destroyed |
| `StartsAsDocumented` | the command line of the README does not end in an assertion (violated, finding 6) |

`SettingsTaken` leaves `iocharset` out: `main` gives it a default after the parse. Its
exception is a divergence of the texts from the code: `doc/curlftpfs.1:111` and
`main.c:104` give `ftpfs_debug` without a value, the template `ftpfs_debug=%u`
(`main.c:37`) does not match that, and the option goes to FUSE. The property replaces that
one entry of `Manual` (`DebugAlone`) by the form the program reads (`DebugLevel`); with
`Manual` as it is TLC finds it violated by the command line with a bare `ftpfs_debug`.

## Paths and Listing: from a path to a line of a listing and back

`Paths` has the functions of `path_utils.c` on sequences of bytes, with
`convert_charsets` between UTF-8 and Latin-1 and the decoding of a URL by libcurl.
`Listing` has one request: the path is encoded and sent, the server decodes it and
lists the directory it reached, and `parse_dir` goes through the listing line by
line, adding to the cache. A line is a record's number followed by the text that
the parser cuts (name, marker, target); its other columns are what they mean. The end
of a listing may be lost.

`parse_dir` tries `parse_dir_unix` first on every line (`ftpfs-ls.c:245`). Its scan for lines
without a number of links (`:72-81`) takes the date, the hour and the size of the second
format (`win`) for mode, user and group and looks for the other columns in the name:
`05-14-03  02:49PM  40448 10 Top 40 Hits of 1990` is a file `of 1990` of 10 bytes. `UnixName`
is that scan with the rules of `sscanf` (numbers, words of bounded width, the blanks
between them) and what it leaves as the name; `TakenByUnix`, `Text` and `Markers`
follow from it.

| Property | Meaning |
|---|---|
| `ReachesFile` | the server is asked about the file or directory that the path names; not so for a name that needs encoding in a command, which nobody decodes (`path_utils.c:56`) |
| `AnswerTrue` | a file is found exactly when the server has it, and the right one; not so for listings whose end is lost, and for names that no line can tell (`Mangled`): they hold ` -> `, or, those of links, end in ` ->`; they begin, in the second format, with a blank or with words that `parse_dir_unix` takes for columns; or the text of the line ends in a carriage return and the server ends lines with a line feed alone |
| `KeysTrue` | what is added to the cache is stored under the path of later lookups, and answers for no other file; below a directory that needs encoding it is stored in vain |
| `YearRight` | the year guessed for a date without one is right; not so for a file of last year whose month is five ahead of this one (August 31 seen on March 1, `ftpfs-ls.c:128`) for one that the server's clock put into next year, and for a name in the second format that was taken for columns (what `strptime` makes of them is left out) |

The exceptions are the code's own limits, each stated as narrowly as the run
allows: `AnswerTrue` excuses a file that is missed only when it is itself `Mangled` or
the listing was cut, and one that is found in the place of another only when the one
found is `Mangled`.

`RequestsAssumption` says what requests and servers are like: no name holds a slash or a
line feed, no two files of a directory have one name, links occur in the first format
only, and a line ends in LF or CR LF. The name of the server, up to the first slash of the
host, needs no encoding: `url_encode` encodes it like the rest and libcurl decodes only the
path, so that a host given as `user@name` would not be reached. It is left out. The directory of a getattr or getdir is one whose
name comes back from the conversion as it was (`IsKnown`), which every name does that the
kernel has from the server. Left out is a directory that was just made by mkdir under a
name that is not in `iocharset` or that `codepage` cannot express.

## Runs

| Run | Result | What it shows |
|---|---|---|
| `sw_upload` | passes | the properties of a handle opened for writing, with failing opens, failing allocations and a server that may lose data; `Upload` is implemented, every call returns |
| `sw_no_thread` | violated | a failed `pthread_create` in a write leaves a flush waiting for ever |
| `sw_gap_write` | violated | a write beyond `pos` with no upload running reports success and is dropped |
| `sw_lossy_append` | violated | after a flush whose listing failed, `APPE` continues a file of unknown size |
| `sw_overlapping_flush` | violated | a flush of a second descriptor leaves a waiting write waiting for ever |
| `cache_coherence` | passes | two workers, three requests, a tree of two directories, every mutation, failing listings and lost replies |
| `cache_cleaning` | passes | one worker, four requests, three different timeouts, a clock that passes each of them and both cleaning intervals |
| `cache_readlink` | violated | readlink answers with the last link of the listing |
| `cache_rename_host` | violated | a request after a rename uses the freed `ftpfs.host` |
| `mount_reads` | passes | from the command line to the shutdown: options, and reads of two handles with all other requests; `FileRead` is implemented, every request returns |
| `mount_documented` | violated | the command line of the README, which names no user, ends in a failed assertion |
| `listing` | passes | names and directories with special characters through both encodings, both line formats, cut listings, and dates |

Bounds. An upload has four bytes in chunks of up to three through a libcurl buffer of
two: writes that need one callback and writes that need two, a first, a middle and a
last chunk, and an upload that is resumed. `Round` is 2 instead of 32, so
that the buffer is reallocated within four bytes and has room to spare too. The runs
that show violations need two bytes. A handle may be opened, closed and opened
again without bound.

Reads: two handles, so that one address can be reused while the other handle reads;
files of three bytes, one byte and none; offsets up to 4, beyond every end; up to two
bytes in one call of libcurl. The window shrinks beyond one byte instead of
`MAX_BUFFER_LEN`. Three binary digits fit the range string, as many as the largest
offset has; in the code it is 14 decimal ones, so that the run speaks of files of
less than 100 TB. Beyond, an offset is cut and the wrong bytes are read, as the mutant with a
string that is one digit shorter shows.

The 180 command lines are combinations of eleven lists of options (each kind of table
entry, pairs that set one field, values that do not parse, `ftpfs_debug` alone), their two groupings,
their places before and after the words, seven sequences of words, and the kinds of
user. Once the program is mounted the command line is forgotten: the requests
modelled depend on no option.

Listings: two files and a line in no format; names and directories that are plain,
blank, `%20`, an accented letter, `a -> b`, `a ->`, begin with a blank or with words that look
like columns (`1 c d e a`) or end in a carriage return; two hosts, one with a directory that
needs encoding; nothing, one or three characters of the listing's end lost;
every pair of days at the ends and in the middle of a month,
in a leap year and the next, up to six months (`SixMonths`, 182 days) apart, and
a server's clock that is a day ahead. No request has one more than `ClockAhead`
days ahead: the guess of the code is not meant for that.

In the cache two workers are enough for the race of one insertion
with one change; the third request finds what they left. `MaxCalls` bounds the
requests and `MaxTime` the clock; in `cache_coherence` the clock stands still,
because time only removes answers. The workers are interchangeable there, which
the symmetry set uses. The tree has directories of one level below the root
(`DepthAssumption`): a rename moves what is directly in a directory.

`sw_upload` lets `pthread_create` fail in open only; that it may fail in a
write is the subject of `sw_no_thread`. `ConcurrentFlush` is off except in
`sw_overlapping_flush`: the properties are those of one descriptor for each
handle, and the proofs say so in their assumption.

Fairness of uploads (`sw_upload`, `sw_overlapping_flush`): weak fairness of each caller and
of the upload thread. The callers are threads that the operating system
schedules; the transfer cannot stand still, because the code gives it up after
60 seconds at less than a byte per second (`CURLOPT_LOW_SPEED_TIME`,
`ftpfs.c:396`). That limit is set for uploads only: that the listing of a flush and the
commands of an open or a truncation, which use the shared connection, end as well is an
assumption about the server. No fairness is assumed of requests, nor of the outcome of a
transfer.

Fairness of reads (`mount_reads`): weak fairness of the request that holds the lock, of
the start-up and of the shutdown, and strong fairness of a call of
`curl_multi_perform` that makes progress. The last is an assumption about the server, not about the
code: a read has no timeout of its own, only a `select` that returns every second
(`ftpfs.c:285`), so that a server that is silent for ever would hold it. With it
`RequestsReturn` says what the code owes: the loop ends when the transfer does.

Deadlock is checked in every passing run; the end of a process and of a request is a
stuttering action of its own.

## Proofs

`StreamWriteProofs` proves, for every length of file, chunk, libcurl buffer and
rounding, wherever allocations and threads fail and whatever the server loses:

- `TypeCorrect`: `TypeOK`, with the buffer that is large enough for what it holds (`RoundUp`
  and `ResizedFits`, for every rounding). `TypeInv` adds what the actions need to know of a
  request in progress (a caller at a label of write serves a write).
- `OneTokenHolds`, `BufferExclusion`, `ReleaseJoins`, under the assumption
  `~ConcurrentFlush`. `OneToken` alone is not inductive: starting a thread resets
  the semaphores, and that no other thread is left then must be known.
  `ControlInv` relates the two sides (a closed handle has no thread, a thread has a
  connection, after the join there is none, a running transfer has no recorded
  failure, the second caller is idle, a caller in the middle of an upload has its connection), and `TokenInv` is its conjunction with
  `OneToken`.
- `WriteDelivery`, under the same assumption. The units of `data_written` can come
  from the callback or from the end of the thread; `HandoffInv` says which
  evidence each of them is of: while a write waits, a unit of it exists
  only if the buffer and the wire are empty or the failure has been recorded.
- `FinishHasThread`: `FinishWaitsForThread`, when besides no `pthread_create` fails in a
  write. `sw_no_thread` shows the failure; this shows that it has no other cause.

`UploadProofs` goes on from there (`~ConcurrentFlush` again) to the contents of
the file:

- `FlushesHonest`: `FlushHonest`. Its invariant `AllInv` adds `UploadInv` to those
  above. `ServeInv` ties each caller to the request it serves and the
  thread's start to the caller that waits for it. `WireInv` says that buffer and wire
  hold the bytes accepted last, in their order, also after errors. `ServerInv` says
  that until an error has been reported the file, the wire and the buffer together make up
  what was accepted. The last is not inductive without the others:
  what the callback moves must be the next bytes and no others.
- `StreamImplementsUpload`: `ImplementsUpload`. Initial states map to initial
  states, and each action to one of `Upload` or to a stutter, under `AllInv`.

`CacheProofs` proves `CleaningKeepsLive`: `LiveKept`, for all paths, workers,
timeouts and intervals. Its invariant, `TableInv`, says that `valid` is at least
each of the three expiry times, which the insertions keep by never lowering it.

`CoherenceProofs` proves `AttributesCoherent`, `NamesCoherent` and `CacheTyped`
(`AttrCoherent`, `DirCoherent`, `TypeOK`) for every number of workers and
requests, every set of paths and every timeout. The invariant is

    CoherenceInv == ShapeInv /\ StoreInv /\ WorkerInv /\ AttrInv /\ DirInv

and it is stronger than the properties in four ways, each forced by the code:

- An answer is as good as the listing it was added from, so `WorkerInv`
  (`ListingTrue`) says what every line is worth that a worker still has to add.
- `cache_add_dir` and `cache_add_link` make a missing file found again with its
  old attributes, so the listing must also say that the file was there.
- An answer that has expired may not come back, so `AttrInv` and `DirInv` do not
  mention the clock.
- The purge after a change of attributes leaves the directory alone, so a directory
  counts as awaiting a purge (`Awaited`) only where the purge reaches it, which is
  less than `DirCoherent` allows.

`CacheTyped` is the only one that uses `TreesAssumption` (the server starts with a
tree) and `DepthAssumption` (directories of one level below the root, the depth
for which a rename is modelled). TLC checked `CoherenceInv` on the instance
of `cache_coherence`, and on the same one with a clock that moves.

`ReadPathProofs` proves `TypeCorrect`, `WindowsTrue`, `TransfersContinue`,
`MessagesWait`, `RangesCleared` and the refinement `ReadsImplementFileRead`, for all
handles, files, offsets, sizes and window limits, under two hypotheses that the run
makes too: `RangeFits` (the offsets asked for fit the range string) and
`"open" \notin SelectFailsIn`. Both are needed; without either the properties are
false (see `ReadPath` above). The invariant `ReadInv` is `TypeOK` with `CallInv` (a place in
`ftpfs_read_chunk` serves a request of that kind on an open handle), `WindowInv`,
`TransferInv` (what is attached, for whom, and from where it continues) and
`ChunkInv` (what each place knows of the transfer: a message waits at the place that reads
one, the range is set only within a read).

`MountProofs` proves, with no further hypotheses, `EndsDetached` (`NoTransferLeft`) and
`MountImplementsReadPath`: `MountSpec => Spec`, so that everything proved of
reads holds of the whole program (`MountedReadsRight` says it under the two
hypotheses). `MountInv` says that libcurl has a transfer exactly when
`attached_to_multi` says so, that no request is in progress outside of `fuse_main`, and
that there is no transfer before the mount and after its end.

It also proves, for command lines of any length that are lines (`IsLine`),
`SettingsAreTaken` (`SettingsTaken`) and `RestGoesToFuse` (`RestToFuse`), both from
`LineInvariant`. The two properties speak of the end of the second pass and of the whole
line; `LineInv` follows both passes argument by argument, and option by option within a list:

- `Parsed(c, line)`: what has been read of the line up to here (`Readings(line)`) is in
  the context. The structures hold what the options so far say (`DataOK`, the last one
  of a field counts); the list of options put aside holds those of lists that no template
  matched, in their order; the new argv, read as FUSE would read it, says the other
  options that are left and the words but the host (`OutOK`), which is in the
  structure (`HostOK`). `OutOK` also has to know what is taken away at the end: when
  `--` is the last argument of the new argv, the argv without it says the same.
- `Once` and `Filled`, between the passes: the argv that the first pass leaves says what the
  command line says without the options of the first table and the host, and is a line again,
  which is why the second pass can be treated like the first; and what the command
  line says of `struct ftpfs` is in it.
- `Twice`, at the end: the two together. Options of the second table are still there
  after the first pass because no name is in both tables, and their order within a
  field is that of the command line because an option that stands alone, which the first
  pass leaves behind the list it puts together, sets no field.

`LineInv` speaks of the tables. `MeansSetting` goes from there to the manual page: the
entries of `SettingsTaken` and the templates that set a field are the same, one by one
(`FtpfsDocumented`, `CacheDocumented`), and give the same values.

The recursive functions of `Options` go through a table, a list of options and a line; what is
known of each is an induction over the length, made like those of `PathsProofs`. TLC
checked `LineInv` on the command lines of `mount_reads`.

`PathsProofs` proves what the functions on strings compute, for every string of bytes:

- `RoundTrip`: libcurl decodes what `url_encode` encodes to what it was given.
- `PlainEncoding`: what needs no encoding is encoded as itself.
- `PathSplit`: converting a path to the server's character set and cutting it into
  directory and name can be exchanged. The conversion looks ahead (a byte that
  belongs to no UTF-8 sequence is copied), so this needs that a slash is never part of a
  longer sequence.
- `NamesComeBack`: a name of the server's, converted for the kernel and back, is the name it was.

These are inductions. The library's induction theorems with an operator for a
parameter cannot be used here, so each is the argument by the smallest
counterexample: the set of bad lengths is a set of natural numbers, and `NatMin`,
from the library's theorem on well-founded relations over sets, gives its smallest member.

`ListingProofs` proves `RequestsReachFile` (`ReachesFile`), from `PathsProofs`, and
`YearsRight` (`YearRight`), for all requests of the form `RequestsAssumption` gives: the
host's name needs no encoding; a path begins with one slash, as FUSE passes it; a date has a month and a day; the
server's clock is at most `ClockAhead` (120) days ahead of this one, and
`SixMonths` at most 184 days. `YearInv` says that each date stored was read from a line of
the listing by the rule in the code; the rest is a case distinction over pairs of months.
Years divisible by four are leap years (`IsLeap`), as from 1901 to 2099.

It also proves `KeysAreTrue` (`KeysTrue`) and `AnswersAreTrue` (`AnswerTrue`), for
listings of any number of files, wherever they are cut, and all names but the exceptions above. The properties
do not say where in the text the parser is, so the invariant, `ParseInv`, does: `Layout`
gives the place where the line of each file ends in the listing (an induction over the
files), and `At` says that `start` is such a place. Then each step reads the line of the
next file of the directory and nothing else, because a line feed is nowhere in a name or a target, and
what it reads is what the server has (`LineTells`): the conversion of a line does not move
its marks, the first marker is the one behind the name, and the end of the line takes no
character of the text with it, unless the name is `Mangled`. With that,
`EntryTrue` holds of everything stored, and `FoundTrue` and `Seen` of the file found: it
has the name asked for, and no file with that name has been passed over. A line that is
cut has no line feed, so it is not read at all. Both properties compare paths as the kernel
has them, and need that the conversion from the server's character set loses nothing
(`NamesComeBack`): two files have different paths.

Only model-checked:

- `CallsReturn`, `WriteGoesOn` and `RequestsReturn`: liveness under fairness is outside
  what the prover can do. All other properties of the passing runs are proved.
- The properties that a run shows to be violated (`FinishWaitsForThread` holds under the
  hypothesis above).

## Findings

Seven runs show the code contradicting its own comments, tests or documentation; the
quotations are in `PROJECT.json`.

1. `pthread_create` failing in `ftpfs_write` leaves `write_conn` set (`ftpfs.c:461`).
2. A write at another offset, with no upload running, is dropped and reported as
   written (`ftpfs.c:1061`).
3. A flush whose listing fails does not stop the next write from appending to a
   file of unknown size (`ftpfs.c:1081`).
4. A flush overlapping a write of another descriptor can hang the write
   (`ftpfs.c:1029`).
5. `parse_dir` fills `linkbuf` from every link of the listing (`ftpfs-ls.c:265`).
6. `prompt_passwd` asserts that there is a user, and `main` calls it whether or not
   one was given (`passwd.c:88`).
7. `ftpfs_do_cmd` frees `ftpfs.host` on a rename (`ftpfs.c:800`).

## Plan

Done, in this order: `StreamWrite`, its runs and proofs; `Cache`, its runs and the
proof about cleaning; `ReadPath` and `FileRead`; `Upload` and its refinement; `Paths`
and `Listing`; `Options` and `Mount`, which compose the command line, the start-up
and the reads; uploads as seen by the cache; then the proofs of `FlushHonest` and
`ImplementsUpload`, of the read path and its refinement, of `NoTransferLeft`, of the
coherence of the cache, of the encodings, and of `ReachesFile` and `YearRight`; last,
of `KeysTrue` and `AnswerTrue` of `Listing`, by induction over the lines, and of
`SettingsTaken` and `RestToFuse` of `Mount`, by induction over the arguments. What is left is
what the last section lists.

## Not modelled

- `set_common_curl_stuff`: copies of options into a handle of libcurl.
- `cache=no`: the `cache_unity_` functions pass requests on and keep nothing;
  `cache_deinit` and `free_node`, memory only.
- In the listing parser the bits of the mode, sizes, owners and `st_blocks`, and the
  length of `linkbuf`. FUSE passes more room than a line of a listing can fill.
- In `fuse_opt.c` the options whose parameter is the next argument (no table here has
  one) and the functions the program does not call.
- The terminal of `getpass`; the texts of `error.c`, the usage message and
  the debugging output; `ftpfs_statfs`, which answers constants.
