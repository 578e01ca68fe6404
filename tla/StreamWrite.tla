---------------------------- MODULE StreamWrite ----------------------------
(***************************************************************************)
(* The streaming upload of one file handle (ftpfs.c).                      *)
(*                                                                         *)
(* A handle opened for writing owns a background thread that runs          *)
(* curl_easy_perform on a connection of its own.  libcurl pulls the data   *)
(* through the callback write_data_bg, the FUSE worker threads push it     *)
(* through ftpfs_write, and four semaphores hand one chunk at a time from  *)
(* the pusher to the puller:                                               *)
(*                                                                         *)
(*    ready    the upload is running (or has failed to start)              *)
(*    need     stream_buf may be filled                                    *)
(*    avail    stream_buf may be drained, or the upload must end           *)
(*    written  the chunk has left stream_buf and libcurl asks for more     *)
(*                                                                         *)
(* Both sides read and write plain fields of the handle (eof,              *)
(* written_flag, isready, write_fail_cause, stream_buf) with no lock.  A   *)
(* step of this module is the code between two points at which the other   *)
(* side can notice a difference: a semaphore operation, an access to such  *)
(* a field, the start or the end of the thread.                            *)
(*                                                                         *)
(* A byte is named by its place in the file, so that a chunk of n bytes    *)
(* for offset o is <<o+1, ..., o+n>>; the byte 0 is one the file held      *)
(* before it was opened.                                                   *)
(***************************************************************************)
EXTENDS Integers, Sequences

CONSTANTS
  MaxPos,          \* bound: no write reaches beyond this offset
  MaxChunk,        \* bound: largest size of one write
  CurlBuf,         \* size of the buffer libcurl passes to write_data_bg
  Round,           \* buf_resize rounds up to multiples of this, 32 in the code
  CreateFailsIn,   \* callers whose pthread_create may fail: "open", "write"
  AllocFails,      \* realloc in buf_add_mem may return NULL
  ServerLoses,     \* a completed upload may leave a shorter file behind
  ConcurrentFlush  \* a flush may run while another call is in progress

ASSUME ConstantsAssumption ==
  /\ MaxPos \in Nat
  /\ MaxChunk \in Nat
  /\ CurlBuf \in Nat \ {0}
  /\ Round \in Nat \ {0}
  /\ CreateFailsIn \subseteq {"open", "write"}
  /\ AllocFails \in BOOLEAN
  /\ ServerLoses \in BOOLEAN
  /\ ConcurrentFlush \in BOOLEAN

VARIABLES
  \* the FUSE calls in progress on the handle
  pc,                \* where each caller is
  call,              \* the request it serves
  ret,               \* what its last call returned
  told,              \* history: a call on this handle has returned an error
  \* struct ftpfs_file, fields only the callers use
  handle,            \* "closed", "open", or "crashed" with the process
  pos,
  write_conn,
  write_may_start,
  buf_size,          \* stream_buf.size
  buf_null,          \* stream_buf.p is NULL after a failed realloc
  \* struct ftpfs_file, fields the thread uses too
  stream_buf,
  isready,
  eof,
  written_flag,
  write_fail_cause,
  sem,
  \* the thread running ftpfs_write_thread and libcurl inside it
  tpc,
  curl_res,          \* result of curl_easy_perform, "OK" while it runs
  wire,              \* bytes libcurl has taken and not yet sent
  \* the file on the FTP server
  exists,
  server

callVars   == <<pc, call, ret, told>>
fileVars   == <<handle, pos, write_conn, write_may_start, buf_size, buf_null>>
threadVars == <<tpc, curl_res, wire>>
flagVars   == <<isready, eof, written_flag>>
serverVars == <<exists, server>>
vars == <<callVars, fileVars, stream_buf, flagVars, write_fail_cause, sem,
          threadVars, serverVars>>

-----------------------------------------------------------------------------
(* Callers and requests.                                                   *)

\* The kernel sends the requests that hold the inode lock (write, ftruncate,
\* fsync) and open and release one at a time: "op" serves them, and flush
\* too.  "flush" serves a flush that arrives while "op" is busy, when one of
\* several descriptors of the handle is closed.
Callers == {"op", "flush"}

Sems == {"ready", "need", "avail", "written"}

OpenFlags == {"O_CREAT", "O_TRUNC", "O_EXCL", "O_APPEND", "O_RDWR"}

NoCall == [op |-> "none"]

Uploads == INSTANCE Upload
             WITH call <- call, ret <- ret, told <- told, pos <- pos,
                  running <- write_conn, server <- server

Requests ==
  {NoCall}
    \union [op : {"open"}, flags : SUBSET OpenFlags]
    \union [op : {"write"}, offset : Nat, size : Nat \ {0}]
    \union [op : {"ftruncate"}, offset : Nat]
    \union [op : {"flush", "fsync", "release"}]

\* size bytes of the file starting at offset from.
Bytes(from, size) == [i \in 1..size |-> from + i]

One(b) == IF b THEN 1 ELSE 0

Goto(c, label) ==
  /\ pc' = [pc EXCEPT ![c] = label]
  /\ UNCHANGED <<call, ret, told>>

Return(c, result) ==
  /\ pc' = [pc EXCEPT ![c] = "idle"]
  /\ ret' = [ret EXCEPT ![c] = result]
  /\ told' = (told \/ result = "err")
  /\ call' = [call EXCEPT ![c] = NoCall]

Post(s) == sem' = [sem EXCEPT ![s] = @ + 1]

Wait(s) ==
  /\ sem[s] > 0
  /\ sem' = [sem EXCEPT ![s] = @ - 1]

Request(c, request, label) ==
  /\ pc[c] = "idle"
  /\ pc' = [pc EXCEPT ![c] = label]
  /\ call' = [call EXCEPT ![c] = request]
  /\ ret' = [ret EXCEPT ![c] = "none"]
  /\ told' = (told /\ request.op # "open")
  /\ UNCHANGED <<fileVars, stream_buf, flagVars, write_fail_cause, sem,
                 threadVars, serverVars>>

RequestOpen ==
  /\ handle = "closed"
  /\ \E flags \in SUBSET OpenFlags :
       Request("op", [op |-> "open", flags |-> flags], "o_enter")

RequestWrite ==
  /\ handle = "open"
  /\ \E offset \in 0..MaxPos, size \in 1..MaxChunk :
       /\ offset + size <= MaxPos
       /\ Request("op", [op |-> "write", offset |-> offset, size |-> size],
                  "w_enter")

RequestTruncate ==
  /\ handle = "open"
  /\ \E offset \in 0..MaxPos :
       Request("op", [op |-> "ftruncate", offset |-> offset], "t_enter")

RequestSync(c) ==
  /\ handle = "open"
  /\ \E op \in {"flush", "fsync", "release"} :
       /\ c = "flush" => /\ ConcurrentFlush /\ op = "flush"
                         /\ pc["op"] # "idle"
                         /\ call["op"].op \notin {"open", "release"}
       /\ op = "release" => pc["flush"] = "idle"
       /\ Request(c, [op |-> op], "s_enter")

-----------------------------------------------------------------------------
(* start_write_thread: the fields are reset and the semaphores initialised *)
(* first; curl_easy_init may fail ("no_conn"), then pthread_create, which  *)
(* leaves write_conn set ("no_thread").                                    *)

StartOutcomes(where) ==
  {"started", "no_conn"}
    \union (IF where \in CreateFailsIn THEN {"no_thread"} ELSE {})

\* Mutant: data_need starts at 1, and is posted by the caller as well.
start_write_thread_need1(outcome) ==
  /\ written_flag' = FALSE
  /\ isready' = FALSE
  /\ eof' = FALSE
  /\ sem' = [s \in Sems |-> One(s = "need")]
  /\ write_conn' = (outcome # "no_conn")
  /\ tpc' = IF outcome = "started" THEN "t_start" ELSE tpc
  /\ curl_res' = "OK"
  /\ UNCHANGED wire

start_write_thread(outcome) ==
  /\ written_flag' = FALSE
  /\ isready' = FALSE
  /\ eof' = FALSE
  /\ sem' = [s \in Sems |-> 0]
  /\ write_conn' = (outcome # "no_conn")
  /\ tpc' = IF outcome = "started" THEN "t_start" ELSE tpc
  /\ curl_res' = "OK"
  /\ UNCHANGED wire

-----------------------------------------------------------------------------
(* ftpfs_open_common, for the access modes that write.                     *)

\* test_exists lists the directory: an existing file is not found when the
\* listing fails, and a missing one is never found.
OpenRefused(c) ==
  LET flags == call[c].flags IN
  /\ pc[c] = "o_enter"
  /\ \/ flags \intersect {"O_RDWR", "O_APPEND"} # {}
     \/ "O_EXCL" \in flags /\ exists
  /\ Return(c, "err")
  /\ UNCHANGED <<fileVars, stream_buf, flagVars, write_fail_cause, sem,
                 threadVars, serverVars>>

OpenAccepted(c) ==
  LET flags == call[c].flags
      uploads == flags \intersect {"O_CREAT", "O_TRUNC"} # {}
  IN
  /\ pc[c] = "o_enter"
  /\ flags \intersect {"O_RDWR", "O_APPEND"} = {}
  /\ stream_buf' = <<>>
  /\ buf_size' = 0
  /\ buf_null' = FALSE
  /\ pos' = 0
  /\ write_fail_cause' = "OK"
  /\ write_may_start' = uploads
  /\ \/ /\ ~uploads
        /\ handle' = "open"
        /\ write_conn' = FALSE
        /\ Return(c, "ok")
        /\ UNCHANGED <<flagVars, sem, threadVars>>
     \/ /\ uploads
        /\ \E outcome \in StartOutcomes("open") :
             /\ start_write_thread(outcome)
             /\ IF outcome = "started"
                  THEN handle' = "open" /\ Goto(c, "o_ready")
                  ELSE handle' = "closed" /\ Return(c, "err")
  /\ UNCHANGED serverVars

\* sem_wait(&fh->ready), in ftpfs_open_common and in ftpfs_write.
AwaitReady(c) ==
  /\ pc[c] \in {"o_ready", "w_ready"}
  /\ Wait("ready")
  /\ Goto(c, IF pc[c] = "o_ready" THEN "o_post" ELSE "w_post")
  /\ UNCHANGED <<fileVars, stream_buf, flagVars, write_fail_cause, threadVars,
                 serverVars>>

\* The chmod of a created file runs on the shared connection and its result
\* is ignored.
OpenPost(c) ==
  /\ pc[c] = "o_post"
  /\ Post("need")
  /\ Return(c, "ok")
  /\ UNCHANGED <<fileVars, stream_buf, flagVars, write_fail_cause, threadVars,
                 serverVars>>

-----------------------------------------------------------------------------
(* ftpfs_write.                                                            *)

\* A failed upload stays failed, and a first write needs an empty file
\* (test_size also answers an error when the listing fails).
WriteRefused(c) ==
  /\ pc[c] = "w_enter"
  /\ \/ write_fail_cause # "OK"
     \/ /\ ~write_conn /\ pos = 0 /\ call[c].offset = 0
        /\ ~write_may_start
  /\ Return(c, "err")
  /\ UNCHANGED <<fileVars, stream_buf, flagVars, write_fail_cause, sem,
                 threadVars, serverVars>>

\* The first write of an upload, or the first one after a flush ended it.
WriteStart(c) ==
  /\ pc[c] = "w_enter"
  /\ write_fail_cause = "OK"
  /\ ~write_conn /\ call[c].offset = pos
  /\ pos = 0 => write_may_start \/ (exists /\ server = <<>>)
  /\ \E outcome \in StartOutcomes("write") :
       /\ start_write_thread(outcome)
       /\ IF outcome = "started" THEN Goto(c, "w_ready") ELSE Return(c, "err")
  /\ UNCHANGED <<handle, pos, write_may_start, buf_size, buf_null, stream_buf,
                 write_fail_cause, serverVars>>

\* Without an upload, at any other offset, neither block that starts one is
\* entered and the function falls through to its last line.
WriteIgnored(c) ==
  /\ pc[c] = "w_enter"
  /\ write_fail_cause = "OK"
  /\ ~write_conn /\ call[c].offset # pos
  /\ Return(c, "ok")
  /\ UNCHANGED <<fileVars, stream_buf, flagVars, write_fail_cause, sem,
                 threadVars, serverVars>>

WriteContinue(c) ==
  /\ pc[c] = "w_enter"
  /\ write_fail_cause = "OK"
  /\ write_conn
  /\ Goto(c, "w_need")
  /\ UNCHANGED <<fileVars, stream_buf, flagVars, write_fail_cause, sem,
                 threadVars, serverVars>>

WritePost(c) ==
  /\ pc[c] = "w_post"
  /\ Post("need")
  /\ Goto(c, "w_need")
  /\ UNCHANGED <<fileVars, stream_buf, flagVars, write_fail_cause, threadVars,
                 serverVars>>

WriteNeed(c) ==
  /\ pc[c] = "w_need"
  /\ Wait("need")
  /\ Goto(c, "w_add")
  /\ UNCHANGED <<fileVars, stream_buf, flagVars, write_fail_cause, threadVars,
                 serverVars>>

\* A write elsewhere than at pos ends the upload.
WriteNonSequential(c) ==
  /\ pc[c] = "w_add"
  /\ call[c].offset # pos
  /\ Post("avail")
  /\ Goto(c, "f_check")
  /\ UNCHANGED <<fileVars, stream_buf, flagVars, write_fail_cause, threadVars,
                 serverVars>>

\* buf_add_mem: a buffer that is too small is grown to Resized(size) by
\* realloc.  The new size is recorded, and NULL stored for p, even when the
\* allocation fails, so a later chunk that fits the recorded size is copied to
\* NULL.  (The buffer is empty here: see OneToken.)
NeedsResize(size) == Len(stream_buf) + size > buf_size

\* Mutant: rounded down instead of up.
ResizedDown(size) == ((Len(stream_buf) + size) \div Round) * Round

Resized(size) == ((Len(stream_buf) + size + 2 * Round - 1) \div Round) * Round

WriteAdd(c) ==
  LET size == call[c].size IN
  /\ pc[c] = "w_add"
  /\ call[c].offset = pos
  /\ \/ NeedsResize(size) /\ buf_size' = Resized(size) /\ buf_null' = FALSE
     \/ ~NeedsResize(size) /\ ~buf_null /\ UNCHANGED <<buf_size, buf_null>>
  /\ stream_buf' = stream_buf \o Bytes(pos, size)
  /\ pos' = pos + size
  /\ Post("avail")
  /\ Goto(c, "w_written")
  /\ UNCHANGED <<handle, write_conn, write_may_start, flagVars,
                 write_fail_cause, threadVars, serverVars>>

WriteNoMemory(c) ==
  LET size == call[c].size IN
  /\ AllocFails
  /\ pc[c] = "w_add"
  /\ call[c].offset = pos
  /\ NeedsResize(size)
  /\ buf_size' = Resized(size)
  /\ buf_null' = TRUE
  /\ Post("need")
  /\ Return(c, "err")
  /\ UNCHANGED <<handle, pos, write_conn, write_may_start, stream_buf,
                 flagVars, write_fail_cause, threadVars, serverVars>>

WriteCrash(c) ==
  /\ pc[c] = "w_add"
  /\ call[c].offset = pos
  /\ ~NeedsResize(call[c].size) /\ buf_null
  /\ handle' = "crashed"
  /\ UNCHANGED <<callVars, pos, write_conn, write_may_start, buf_size,
                 buf_null, stream_buf, flagVars, write_fail_cause, sem,
                 threadVars, serverVars>>

WriteWritten(c) ==
  /\ pc[c] = "w_written"
  /\ Wait("written")
  /\ Goto(c, "w_check")
  /\ UNCHANGED <<fileVars, stream_buf, flagVars, write_fail_cause, threadVars,
                 serverVars>>

WriteCheck(c) ==
  /\ pc[c] = "w_check"
  /\ written_flag' = FALSE
  /\ Return(c, IF write_fail_cause = "OK" THEN "ok" ELSE "err")
  /\ UNCHANGED <<fileVars, stream_buf, isready, eof, write_fail_cause, sem,
                 threadVars, serverVars>>

-----------------------------------------------------------------------------
(* finish_write_thread.  The end-of-file mark is set after the wake-up that *)
(* is meant to make the thread see it.                                      *)

FinishCheck(c) ==
  /\ pc[c] = "f_check"
  /\ Goto(c, IF write_fail_cause = "OK" THEN "f_need" ELSE "f_post")
  /\ UNCHANGED <<fileVars, stream_buf, flagVars, write_fail_cause, sem,
                 threadVars, serverVars>>

FinishNeed(c) ==
  /\ pc[c] = "f_need"
  /\ Wait("need")
  /\ Goto(c, "f_post")
  /\ UNCHANGED <<fileVars, stream_buf, flagVars, write_fail_cause, threadVars,
                 serverVars>>

FinishPost(c) ==
  /\ pc[c] = "f_post"
  /\ Post("avail")
  /\ Goto(c, "f_eof")
  /\ UNCHANGED <<fileVars, stream_buf, flagVars, write_fail_cause, threadVars,
                 serverVars>>

FinishEof(c) ==
  /\ pc[c] = "f_eof"
  /\ eof' = TRUE
  /\ Goto(c, "f_join")
  /\ UNCHANGED <<fileVars, stream_buf, isready, written_flag,
                 write_fail_cause, sem, threadVars, serverVars>>

\* What ftpfs_flush returned goes to the application, except from
\* ftpfs_release, which ignores it.
SyncReturn(c, result) ==
  IF call[c].op = "release" THEN Goto(c, "r_free") ELSE Return(c, result)

\* pthread_join and the clean-up.  The non-sequential write returns an error
\* whatever the upload did; ftpfs_flush goes on to check the size.
FinishJoin(c) ==
  /\ pc[c] = "f_join"
  /\ tpc = "exited"
  /\ tpc' = "none"
  /\ write_conn' = FALSE
  /\ IF call[c].op = "write"
       THEN Return(c, "err")
       ELSE IF write_fail_cause # "OK" THEN SyncReturn(c, "err")
                                       ELSE Goto(c, "f_size")
  /\ UNCHANGED <<handle, pos, write_may_start, buf_size, buf_null, stream_buf,
                 flagVars, write_fail_cause, sem, curl_res, wire, serverVars>>

-----------------------------------------------------------------------------
(* ftpfs_flush, ftpfs_fsync, ftpfs_release and ftpfs_ftruncate.             *)

\* Mutant: ftpfs_release does not flush.
SyncEnterNoFlush(c) ==
  /\ pc[c] = "s_enter"
  /\ IF write_conn /\ call[c].op # "release"
       THEN Goto(c, "f_check") ELSE SyncReturn(c, "ok")
  /\ UNCHANGED <<fileVars, stream_buf, flagVars, write_fail_cause, sem,
                 threadVars, serverVars>>

SyncEnter(c) ==
  /\ pc[c] = "s_enter"
  /\ IF write_conn THEN Goto(c, "f_check") ELSE SyncReturn(c, "ok")
  /\ UNCHANGED <<fileVars, stream_buf, flagVars, write_fail_cause, sem,
                 threadVars, serverVars>>

\* The listing may fail, and then the error is returned and nothing else is
\* recorded.
SizeUnknown(c) ==
  /\ pc[c] = "f_size"
  /\ SyncReturn(c, "err")
  /\ UNCHANGED <<fileVars, stream_buf, flagVars, write_fail_cause, sem,
                 threadVars, serverVars>>

\* Mutant: a file that is too short passes.
SizeCheckShort(c) ==
  /\ pc[c] = "f_size"
  /\ exists
  /\ IF Len(server) <= pos
       THEN SyncReturn(c, "ok") /\ UNCHANGED write_fail_cause
       ELSE SyncReturn(c, "err") /\ write_fail_cause' = "size"
  /\ UNCHANGED <<fileVars, stream_buf, flagVars, sem, threadVars, serverVars>>

SizeCheck(c) ==
  /\ pc[c] = "f_size"
  /\ exists
  /\ IF Len(server) = pos
       THEN SyncReturn(c, "ok") /\ UNCHANGED write_fail_cause
       ELSE SyncReturn(c, "err") /\ write_fail_cause' = "size"
  /\ UNCHANGED <<fileVars, stream_buf, flagVars, sem, threadVars, serverVars>>

\* free_ftpfs_file.  The fields of the freed handle have no value; the ones
\* of the thread are left as they are.
ReleaseFree(c) ==
  /\ pc[c] = "r_free"
  /\ handle' = "closed"
  /\ write_conn' = FALSE
  /\ Return(c, "ok")
  /\ UNCHANGED <<pos, write_may_start, buf_size, buf_null, stream_buf,
                 flagVars, write_fail_cause, sem, threadVars, serverVars>>

\* create_empty_file uploads nothing with STOR; when it fails the server may
\* or may not have emptied the file.
TruncateToZero(c) ==
  /\ pc[c] = "t_enter"
  /\ call[c].offset = 0 /\ pos = 0
  /\ write_may_start' = TRUE
  /\ \/ /\ exists' = TRUE /\ server' = <<>>
        /\ \E result \in {"ok", "err"} : Return(c, result)
     \/ /\ Return(c, "err")
        /\ UNCHANGED serverVars
  /\ UNCHANGED <<handle, pos, write_conn, buf_size, buf_null, stream_buf,
                 flagVars, write_fail_cause, sem, threadVars>>

TruncateToSize(c) ==
  /\ pc[c] = "t_enter"
  /\ ~(call[c].offset = 0 /\ pos = 0)
  /\ \/ Return(c, "err")
     \/ /\ call[c].offset # 0 /\ exists /\ Len(server) = call[c].offset
        /\ Return(c, "ok")
  /\ UNCHANGED <<fileVars, stream_buf, flagVars, write_fail_cause, sem,
                 threadVars, serverVars>>

-----------------------------------------------------------------------------
(* ftpfs_write_thread, and what libcurl does inside curl_easy_perform.      *)

\* The connection is made and the upload begun: STOR truncates the file, APPE
\* (CURLOPT_APPEND, when pos > 0) continues it.
ThreadUpload ==
  /\ tpc = "t_start"
  /\ tpc' = "cb_ready"
  /\ exists' = TRUE
  /\ server' = IF pos > 0 THEN server ELSE <<>>
  /\ UNCHANGED <<callVars, fileVars, stream_buf, flagVars, write_fail_cause,
                 sem, curl_res, wire>>

\* curl_easy_perform returns an error: before the upload, when STOR has already
\* emptied the file and libcurl has not asked for data yet, in the middle of
\* sending a chunk, or on the server's final answer.
CurlFails ==
  /\ tpc \in {"t_start", "cb_ready", "curl_send", "curl_eof"}
  /\ tpc' = "t_ready"
  /\ curl_res' = "failed"
  /\ wire' = <<>>
  /\ \E sent \in 0..Len(wire) : server' = server \o SubSeq(wire, 1, sent)
  /\ UNCHANGED <<callVars, fileVars, stream_buf, flagVars, write_fail_cause,
                 sem, exists>>

\* libcurl asks for more once it has sent what it had.
CurlSend ==
  /\ tpc = "curl_send"
  /\ tpc' = "cb_ready"
  /\ server' = server \o wire
  /\ wire' = <<>>
  /\ UNCHANGED <<callVars, fileVars, stream_buf, flagVars, write_fail_cause,
                 sem, curl_res, exists>>

CurlDone ==
  /\ tpc = "curl_eof"
  /\ tpc' = "t_ready"
  /\ \E kept \in IF ServerLoses THEN 0..Len(server) ELSE {Len(server)} :
       server' = SubSeq(server, 1, kept)
  /\ UNCHANGED <<callVars, fileVars, stream_buf, flagVars, write_fail_cause,
                 sem, curl_res, wire, exists>>

\* write_data_bg, up to its first semaphore.
CallbackReady ==
  /\ tpc = "cb_ready"
  /\ tpc' = "cb_flag"
  /\ isready' = TRUE
  /\ IF isready THEN UNCHANGED sem ELSE Post("ready")
  /\ UNCHANGED <<callVars, fileVars, stream_buf, eof, written_flag,
                 write_fail_cause, curl_res, wire, serverVars>>

\* Mutant: data_written is posted whenever the buffer is empty.
CallbackWrittenAlways ==
  /\ tpc = "cb_flag"
  /\ tpc' = "cb_wait"
  /\ IF stream_buf = <<>> THEN Post("written") ELSE UNCHANGED sem
  /\ UNCHANGED <<callVars, fileVars, stream_buf, flagVars, write_fail_cause,
                 curl_res, wire, serverVars>>

CallbackWritten ==
  /\ tpc = "cb_flag"
  /\ tpc' = "cb_wait"
  /\ IF stream_buf = <<>> /\ written_flag THEN Post("written")
                                          ELSE UNCHANGED sem
  /\ UNCHANGED <<callVars, fileVars, stream_buf, flagVars, write_fail_cause,
                 curl_res, wire, serverVars>>

\* Mutant: the callback goes on when its wait is interrupted by a signal.
CallbackWaitInterrupted ==
  /\ tpc = "cb_wait"
  /\ Wait("avail") \/ UNCHANGED sem
  /\ tpc' = "cb_take"
  /\ UNCHANGED <<callVars, fileVars, stream_buf, flagVars, write_fail_cause,
                 curl_res, wire, serverVars>>

CallbackWait ==
  /\ tpc = "cb_wait"
  /\ Wait("avail")
  /\ tpc' = "cb_take"
  /\ UNCHANGED <<callVars, fileVars, stream_buf, flagVars, write_fail_cause,
                 curl_res, wire, serverVars>>

CallbackEof ==
  /\ tpc = "cb_take"
  /\ eof
  /\ tpc' = "curl_eof"
  /\ UNCHANGED <<callVars, fileVars, stream_buf, flagVars, write_fail_cause,
                 sem, curl_res, wire, serverVars>>

\* A part of the buffer fills libcurl's buffer and the rest stays available;
\* otherwise the buffer is drained, and a callback that had nothing to copy
\* returns 0, which libcurl takes for the end of the file.
CallbackTake ==
  LET to_copy == IF CurlBuf < Len(stream_buf) THEN CurlBuf ELSE Len(stream_buf)
      rest    == SubSeq(stream_buf, to_copy + 1, Len(stream_buf))
  IN
  /\ tpc = "cb_take"
  /\ ~eof
  /\ tpc' = IF to_copy = 0 THEN "curl_eof" ELSE "curl_send"
  /\ wire' = SubSeq(stream_buf, 1, to_copy)
  /\ stream_buf' = rest
  /\ IF rest = <<>>
       THEN written_flag' = TRUE /\ Post("need")
       ELSE UNCHANGED written_flag /\ Post("avail")
  /\ UNCHANGED <<callVars, fileVars, isready, eof, write_fail_cause, curl_res,
                 serverVars>>

\* Mutant: a thread that fails before the first callback does not say so.
ThreadReadySilent ==
  /\ tpc = "t_ready"
  /\ tpc' = IF curl_res = "OK" THEN "t_written" ELSE "t_cause"
  /\ UNCHANGED <<callVars, fileVars, stream_buf, flagVars, write_fail_cause,
                 sem, curl_res, wire, serverVars>>

\* The rest of ftpfs_write_thread, after curl_easy_perform.
ThreadReady ==
  /\ tpc = "t_ready"
  /\ tpc' = IF curl_res = "OK" THEN "t_written" ELSE "t_cause"
  /\ IF isready THEN UNCHANGED sem ELSE Post("ready")
  /\ UNCHANGED <<callVars, fileVars, stream_buf, flagVars, write_fail_cause,
                 curl_res, wire, serverVars>>

\* Mutant: the result of curl_easy_perform is not recorded.
ThreadCauseForgotten ==
  /\ tpc = "t_cause"
  /\ tpc' = "t_need"
  /\ UNCHANGED <<callVars, fileVars, stream_buf, flagVars, write_fail_cause,
                 sem, curl_res, wire, serverVars>>

ThreadCause ==
  /\ tpc = "t_cause"
  /\ tpc' = "t_need"
  /\ write_fail_cause' = "curl"
  /\ UNCHANGED <<callVars, fileVars, stream_buf, flagVars, sem, curl_res, wire,
                 serverVars>>

ThreadNeed ==
  /\ tpc = "t_need"
  /\ tpc' = "t_written"
  /\ Post("need")
  /\ UNCHANGED <<callVars, fileVars, stream_buf, flagVars, write_fail_cause,
                 curl_res, wire, serverVars>>

ThreadWritten ==
  /\ tpc = "t_written"
  /\ tpc' = "exited"
  /\ Post("written")
  /\ UNCHANGED <<callVars, fileVars, stream_buf, flagVars, write_fail_cause,
                 curl_res, wire, serverVars>>

-----------------------------------------------------------------------------
Init ==
  /\ pc = [c \in Callers |-> "idle"]
  /\ call = [c \in Callers |-> NoCall]
  /\ ret = [c \in Callers |-> "none"]
  /\ told = FALSE
  /\ handle = "closed"
  /\ pos = 0
  /\ write_conn = FALSE
  /\ write_may_start = FALSE
  /\ buf_size = 0
  /\ buf_null = FALSE
  /\ stream_buf = <<>>
  /\ isready = FALSE
  /\ eof = FALSE
  /\ written_flag = FALSE
  /\ write_fail_cause = "OK"
  /\ sem = [s \in Sems |-> 0]
  /\ tpc = "none"
  /\ curl_res = "OK"
  /\ wire = <<>>
  /\ \/ exists = FALSE /\ server = <<>>
     \/ exists = TRUE /\ server \in {<<>>, <<0>>}

Arrival ==
  /\ handle # "crashed"
  /\ \/ RequestOpen
     \/ RequestWrite
     \/ RequestTruncate
     \/ \E c \in Callers : RequestSync(c)

CallerStep(c) ==
  /\ handle # "crashed"
  /\ \/ OpenRefused(c) \/ OpenAccepted(c) \/ AwaitReady(c) \/ OpenPost(c)
     \/ WriteRefused(c) \/ WriteStart(c) \/ WriteIgnored(c)
     \/ WriteContinue(c) \/ WritePost(c) \/ WriteNeed(c)
     \/ WriteNonSequential(c) \/ WriteAdd(c) \/ WriteNoMemory(c)
     \/ WriteCrash(c) \/ WriteWritten(c) \/ WriteCheck(c)
     \/ FinishCheck(c) \/ FinishNeed(c) \/ FinishPost(c) \/ FinishEof(c)
     \/ FinishJoin(c) \/ SyncEnter(c) \/ SizeUnknown(c) \/ SizeCheck(c)
     \/ ReleaseFree(c) \/ TruncateToZero(c) \/ TruncateToSize(c)

ThreadStep ==
  /\ handle # "crashed"
  /\ \/ ThreadUpload \/ CurlFails \/ CurlSend \/ CurlDone
     \/ CallbackReady \/ CallbackWritten \/ CallbackWait
     \/ CallbackEof \/ CallbackTake
     \/ ThreadReady \/ ThreadCause \/ ThreadNeed \/ ThreadWritten

\* A process that has died takes no step: the mount is gone.
Crashed == handle = "crashed" /\ UNCHANGED vars

Next == Arrival \/ (\E c \in Callers : CallerStep(c)) \/ ThreadStep \/ Crashed

\* A worker thread that can go on does, and so does the upload: a connection
\* that makes no progress is given up after CURLOPT_LOW_SPEED_TIME (60 s).  The
\* listings and commands that a call runs on the shared connection have no such
\* limit: that they end is an assumption on the server.
Fairness ==
  /\ \A c \in Callers : WF_vars(CallerStep(c))
  /\ WF_vars(ThreadStep)

Spec == Init /\ [][Next]_vars
FairSpec == Spec /\ Fairness

-----------------------------------------------------------------------------
(* Properties.                                                             *)

CallerLabels ==
  {"idle", "o_enter", "o_ready", "o_post", "t_enter", "s_enter", "f_size",
   "r_free", "w_enter", "w_ready", "w_post", "w_need", "w_add", "w_written",
   "w_check", "f_check", "f_need", "f_post", "f_eof", "f_join"}

CurlLabels ==
  {"t_start", "cb_ready", "cb_flag", "cb_wait", "cb_take", "curl_send",
   "curl_eof"}

ThreadLabels ==
  CurlLabels \union {"none", "t_ready", "t_cause", "t_need", "t_written",
                     "exited"}

CallTypeOK ==
  /\ pc \in [Callers -> CallerLabels]
  /\ call \in [Callers -> Requests]
  /\ ret \in [Callers -> {"none", "ok", "err"}]
  /\ told \in BOOLEAN

FileTypeOK ==
  /\ handle \in {"closed", "open", "crashed"}
  /\ pos \in Nat
  /\ write_conn \in BOOLEAN
  /\ write_may_start \in BOOLEAN
  /\ buf_size \in Nat
  /\ buf_null \in BOOLEAN

SharedTypeOK ==
  /\ stream_buf \in Seq(Nat)
  /\ isready \in BOOLEAN
  /\ eof \in BOOLEAN
  /\ written_flag \in BOOLEAN
  /\ write_fail_cause \in {"OK", "curl", "size"}
  /\ sem \in [Sems -> Nat]

ThreadTypeOK ==
  /\ tpc \in ThreadLabels
  /\ curl_res \in {"OK", "failed"}
  /\ wire \in Seq(Nat)
  /\ exists \in BOOLEAN
  /\ server \in Seq(Nat)

BufferFits == Len(stream_buf) <= buf_size

\* Every variable has its type, and what is in stream_buf fits the memory
\* buf_resize has recorded for it, whichever chunks were added and drained.
TypeOK == CallTypeOK /\ FileTypeOK /\ SharedTypeOK /\ ThreadTypeOK /\ BufferFits

\* The right to touch stream_buf is a token: a unit of data_need or of
\* data_avail, or a thread of control that has taken one and not yet posted
\* the next.  The first token is the one start_write_thread's caller posts
\* once the upload is ready.
CallerHolds(c) ==
  pc[c] \in {"o_ready", "o_post", "w_ready", "w_post", "w_add", "f_post"}

Tokens == sem["need"] + sem["avail"] + One(tpc = "cb_take")
            + One(CallerHolds("op")) + One(CallerHolds("flush"))

\* While the upload runs without an error there is at most one token: the
\* four semaphores never let the two sides at the buffer together, however
\* the posts in write_data_bg, ftpfs_write and finish_write_thread interleave.
OneToken == tpc \in CurlLabels => Tokens <= 1

\* stream_buf is not filled (buf_add_mem may move it) while write_data_bg
\* copies from it.
BufferExclusive ==
  ~(tpc = "cb_take" /\ \E c \in Callers : pc[c] = "w_add")

\* A handle is not freed while its thread lives.
NoThreadAfterFree == handle = "closed" => tpc = "none"

\* A write that reports success left nothing behind: when ftpfs_write returns
\* its size, the chunk is neither in stream_buf nor in libcurl's hands.
WriteDelivered ==
  [][\A c \in Callers :
       (pc[c] = "w_check" /\ pc'[c] = "idle" /\ ret'[c] = "ok")
          => stream_buf = <<>> /\ wire = <<>>]_vars

\* A flush or fsync that reports success, on a handle that has not reported
\* an error, means the server holds exactly the bytes that were accepted (pos of
\* them), in order.  A write that is dropped (WriteIgnored) is not accepted, and
\* the flush after it may succeed.
FlushHonest ==
  [][\A c \in Callers :
       (/\ call[c].op \in {"flush", "fsync"}
        /\ pc[c] # "idle" /\ pc'[c] = "idle" /\ ret'[c] = "ok")
          => told \/ pos = 0 \/ server = Bytes(0, pos)]_vars

\* An upload that continues with APPE continues at the place the next write
\* is meant for.
AppendAtPos ==
  [][tpc = "t_start" /\ tpc' = "cb_ready" /\ pos > 0 => Len(server) = pos]_vars

\* The comment in finish_write_thread: "only wait when there has been no
\* error".  A wait on data_need is answered by the thread, so there must be
\* one.
FinishWaitsForThread ==
  \A c \in Callers : pc[c] = "f_need" => tpc # "none"

\* "non-sequential write detected -> fail": a write beyond pos does not report
\* success.
GapWriteFails ==
  [][\A c \in Callers :
       (/\ call[c].op = "write" /\ call[c].offset > pos
        /\ pc[c] # "idle" /\ pc'[c] = "idle") => ret'[c] = "err"]_vars

\* A write overtaken by a flush of another descriptor goes on.
WriteGoesOn == (pc["op"] = "w_need") ~> (pc["op"] # "w_need")

\* The steps above implement Upload: what is sent, resumed, cut short or
\* reported by whichever side, the server's file grows by the accepted bytes
\* each at its place, and no answer promises more than it holds, until an
\* error has been reported.
ImplementsUpload == Uploads!Spec

\* Every call returns: no order of the posts, and no failure, leaves a caller
\* waiting.
CallsReturn ==
  \A c \in Callers : (pc[c] # "idle") ~> (pc[c] = "idle" \/ handle = "crashed")
=============================================================================
