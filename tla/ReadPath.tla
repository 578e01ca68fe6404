------------------------------ MODULE ReadPath ------------------------------
(***************************************************************************)
(* Reading files (ftpfs_read_chunk and what calls it, in ftpfs.c).         *)
(*                                                                         *)
(* Each handle opened for reading keeps a window of its file, buf, that    *)
(* starts at begin_offset.  There is one connection for everything but     *)
(* uploads; a read leaves its transfer attached to ftpfs.multi when it     *)
(* returns, so that the next read of the same handle finds it running, and *)
(* any other request cancels it.  ftpfs.current_fh is the address of the   *)
(* handle the transfer was started for.                                    *)
(*                                                                         *)
(* A request holds ftpfs.lock from beginning to end, so one is served at a *)
(* time.  What libcurl does in one call of curl_multi_perform is a step.   *)
(* A handle is its address: malloc may return that of a freed one.         *)
(***************************************************************************)
EXTENDS Integers, Sequences

CONSTANTS
  Handles, Files, Length, NULL,
  MaxOffset, MaxSize,  \* bounds: the offsets and sizes of read requests
  MaxBlock,            \* bound: what one call of curl_multi_perform brings
  MAX_BUFFER_LEN,
  Radix, RangeDigits,  \* the digits of an offset that fit the range string
  SelectFailsIn,       \* requests in which select may fail: "open", "read"
  AllocFails           \* realloc in buf_add_mem may return NULL

ASSUME ConstantsAssumption ==
  /\ NULL \notin Handles /\ NULL \notin Files
  /\ Length \in [Files -> Nat]
  /\ MaxOffset \in Nat /\ MaxSize \in Nat \ {0} /\ MaxBlock \in Nat \ {0}
  /\ MAX_BUFFER_LEN \in Nat
  /\ Radix \in Nat \ {0, 1} /\ RangeDigits \in Nat
  /\ SelectFailsIn \subseteq {"open", "read"}
  /\ AllocFails \in BOOLEAN

VARIABLES
  file, call, ret,    \* see FileRead
  pc,                 \* the place in the request that holds ftpfs.lock
  err,                \* its variable err
  buf, begin_offset,  \* the window of each handle
  buf_null,           \* its memory is gone after a failed realloc
  can_shrink,
  current_fh,
  attached_to_multi,
  range,              \* CURLOPT_RANGE of the connection, 0 when not set
  transfer            \* what libcurl does on the connection

fileVars  == <<file, can_shrink>>
bufVars   == <<buf, begin_offset, buf_null>>
multiVars == <<current_fh, attached_to_multi, range>>
vars == <<fileVars, call, ret, pc, err, bufVars, multiVars, transfer>>

Reads == INSTANCE FileRead WITH file <- file, call <- call, ret <- ret

-----------------------------------------------------------------------------
(* libcurl.  A transfer fetches url from next on and hands it to read_data  *)
(* with the buffer of data; msg says that a message about its end waits.    *)

NoTransfer ==
  [state |-> "none", url |-> NULL, next |-> 0, data |-> NULL,
   result |-> "OK", msg |-> FALSE]

Added(h) ==
  [NoTransfer EXCEPT !.state = "added", !.url = file[h], !.data = h]

\* running_handles, after curl_multi_perform.
Running(t) == t.state \in {"added", "running"}

Ended(t, result) ==
  [t EXCEPT !.state = "done", !.result = result, !.msg = TRUE]

\* An offset is cut to the digits that fit the string (14 decimal ones).
Excess(offset) == {k \in 0..offset : offset < Radix ^ (RangeDigits + k)}
Smallest(S) == CHOOSE k \in S : \A j \in S : k <= j
\* Mutant: the string is one digit shorter.
RangeOfShort(offset) ==
  LET k == Smallest({j \in 0..offset : offset < Radix ^ (RangeDigits - 1 + j)})
  IN offset \div (Radix ^ k)

RangeOf(offset) == offset \div (Radix ^ Smallest(Excess(offset)))

\* The transfer begins: the range set at this moment is the one that counts,
\* and a place beyond the end of the file is refused.
TransferStarts ==
  /\ transfer.state = "added"
  /\ transfer' = IF range > Length[transfer.url]
                   THEN Ended(transfer, "failed")
                   ELSE [transfer EXCEPT !.state = "running", !.next = range]
  /\ UNCHANGED <<buf, buf_null>>

\* One call may append several blocks to the buffer (read_data) and see the
\* transfer end as well: at the end of the file, with an error, or because
\* read_data finds no memory for the next block and takes nothing of it.
BlocksArrive ==
  /\ transfer.state = "running"
  /\ \E n \in 0..MaxBlock :
       LET t == [transfer EXCEPT !.next = @ + n] IN
       /\ t.next <= Length[t.url]
       /\ buf' = [buf EXCEPT ![t.data] =
                    @ \o Reads!Bytes(t.url, transfer.next, n)]
       /\ \/ n > 0 /\ transfer' = t /\ UNCHANGED buf_null
          \/ /\ t.next = Length[t.url]
             /\ transfer' = Ended(t, "OK") /\ UNCHANGED buf_null
          \/ transfer' = Ended(t, "failed") /\ UNCHANGED buf_null
          \/ /\ AllocFails /\ t.next < Length[t.url]
             /\ transfer' = Ended(t, "failed")
             /\ buf_null' = [buf_null EXCEPT ![t.data] = TRUE]

TransferFails ==
  /\ transfer.state = "added"
  /\ transfer' = Ended(transfer, "failed")
  /\ UNCHANGED <<buf, buf_null>>

\* Nothing arrives, or there is no transfer.
NothingHappens ==
  /\ transfer.state # "added"
  /\ UNCHANGED <<transfer, buf, buf_null>>

Progress == TransferStarts \/ TransferFails \/ BlocksArrive

curl_multi_perform == Progress \/ NothingHappens

\* cancel_previous_multi.  The handle it removes takes its messages along.
cancel_previous_multi ==
  /\ attached_to_multi' = FALSE
  /\ transfer' = IF attached_to_multi THEN NoTransfer ELSE transfer

-----------------------------------------------------------------------------
(* Requests.                                                               *)

\* free_ftpfs_file.  The fields of a freed handle have no value.
FreeHandle(h) ==
  /\ file' = [file EXCEPT ![h] = NULL]
  /\ buf' = [buf EXCEPT ![h] = <<>>]
  /\ begin_offset' = [begin_offset EXCEPT ![h] = 0]
  /\ buf_null' = [buf_null EXCEPT ![h] = FALSE]
  /\ can_shrink' = [can_shrink EXCEPT ![h] = FALSE]

\* ftpfs_open_common: a zeroed handle at some free address.
NewHandle(h, f, shrink) ==
  /\ file[h] = NULL
  /\ file' = [file EXCEPT ![h] = f]
  /\ buf' = [buf EXCEPT ![h] = <<>>]
  /\ begin_offset' = [begin_offset EXCEPT ![h] = 0]
  /\ buf_null' = [buf_null EXCEPT ![h] = FALSE]
  /\ can_shrink' = [can_shrink EXCEPT ![h] = shrink]

\* An O_RDONLY open reads one byte to see whether it can.
RequestOpen ==
  /\ pc = "idle"
  /\ \E h \in Handles, f \in Files :
       NewHandle(h, f, TRUE) /\ call' = Reads!Call("open", h, 0, 1)
  /\ ret' = Reads!NoAnswer
  /\ pc' = "enter"
  /\ UNCHANGED <<err, multiVars, transfer>>

\* With O_CREAT it makes an empty file instead (ftpfs_mknod); the requests
\* that do so cancel the transfer.
RequestCreate ==
  /\ pc = "idle"
  /\ \E h \in Handles, f \in Files :
       /\ Length[f] = 0
       /\ NewHandle(h, f, FALSE)
       /\ call' = Reads!Call("open", h, 0, 1)
  /\ cancel_previous_multi
  /\ ret' = Reads!NoAnswer
  /\ pc' = "created"
  /\ UNCHANGED <<err, current_fh, range>>

RequestRead ==
  /\ pc = "idle"
  /\ \E h \in Handles, offset \in 0..MaxOffset, size \in 1..MaxSize :
       file[h] # NULL /\ call' = Reads!Call("read", h, offset, size)
  /\ ret' = Reads!NoAnswer
  /\ pc' = "enter"
  /\ UNCHANGED <<fileVars, err, bufVars, multiVars, transfer>>

\* Any other request on the shared connection.
OtherRequest ==
  /\ pc = "idle"
  /\ cancel_previous_multi
  /\ UNCHANGED <<fileVars, call, ret, pc, err, bufVars, current_fh, range>>

\* Mutant: a freed handle stays the current one.
ReleaseKeepsCurrent ==
  /\ pc = "idle"
  /\ \E h \in Handles :
       /\ file[h] # NULL
       /\ FreeHandle(h)
       /\ UNCHANGED current_fh
  /\ ret' = Reads!NoAnswer
  /\ UNCHANGED <<call, pc, err, attached_to_multi, range, transfer>>

\* ftpfs_release.  Its flush does nothing on a handle that reads.
Release ==
  /\ pc = "idle"
  /\ \E h \in Handles :
       /\ file[h] # NULL
       /\ FreeHandle(h)
       /\ current_fh' = IF current_fh = h THEN NULL ELSE current_fh
  /\ ret' = Reads!NoAnswer
  /\ UNCHANGED <<call, pc, err, attached_to_multi, range, transfer>>

-----------------------------------------------------------------------------
(* ftpfs_read_chunk.                                                       *)

InWindow ==
  LET h == call.fh IN
  /\ begin_offset[h] <= call.offset
  /\ call.offset <= begin_offset[h] + Len(buf[h])

\* Compared as unsigned numbers; begin_offset is beyond the offset only when
\* InWindow, which goes with it in the first test, is false anyway.
Enough ==
  LET h == call.fh IN
  Len(buf[h]) >= call.size + call.offset - begin_offset[h]

Goto(label) == pc' = label /\ UNCHANGED <<fileVars, call, ret>>

\* Mutant: a transfer of this handle is taken to be running.
EnterTrusting ==
  /\ pc = "enter"
  /\ err' = FALSE
  /\ Goto(IF InWindow /\ Enough THEN "copy"
          ELSE IF current_fh # call.fh \/ ~InWindow THEN "restart"
          ELSE "perform")
  /\ UNCHANGED <<bufVars, multiVars, transfer>>

Enter ==
  /\ pc = "enter"
  /\ err' = FALSE
  /\ Goto(IF InWindow /\ Enough THEN "copy"
          ELSE IF current_fh # call.fh \/ ~InWindow THEN "restart"
          ELSE "check")
  /\ UNCHANGED <<bufVars, multiVars, transfer>>

\* check_running
CheckRunning ==
  /\ pc = "check"
  /\ curl_multi_perform
  /\ Goto(IF Running(transfer') THEN "perform" ELSE "restart")
  /\ UNCHANGED <<err, begin_offset, multiVars>>

\* The window is emptied and moved to the offset, the transfer cancelled and
\* another one attached.
Restart ==
  LET h == call.fh IN
  /\ pc = "restart"
  /\ buf' = [buf EXCEPT ![h] = <<>>]
  /\ buf_null' = [buf_null EXCEPT ![h] = FALSE]
  /\ begin_offset' = [begin_offset EXCEPT ![h] = call.offset]
  /\ current_fh' = h
  /\ range' = IF call.offset # 0 THEN RangeOf(call.offset) ELSE range
  /\ transfer' = Added(h)
  /\ attached_to_multi' = TRUE
  /\ Goto("perform")
  /\ UNCHANGED err

\* Mutant: the range stays set for the requests that follow.
PerformKeepsRange ==
  /\ pc = "perform"
  /\ curl_multi_perform
  /\ Goto("loop")
  /\ UNCHANGED <<err, begin_offset, current_fh, attached_to_multi, range>>

Perform ==
  /\ pc = "perform"
  /\ curl_multi_perform
  /\ range' = 0
  /\ Goto("loop")
  /\ UNCHANGED <<err, begin_offset, current_fh, attached_to_multi>>

\* The loop around select.
\* Mutant: the loop ends only when there is enough.
LoopEndsEnough ==
  /\ pc = "loop"
  /\ Enough
  /\ Goto(IF Running(transfer) THEN "copy" ELSE "msgs")
  /\ UNCHANGED <<err, bufVars, multiVars, transfer>>

LoopEnds ==
  /\ pc = "loop"
  /\ Enough \/ ~Running(transfer)
  /\ Goto(IF Running(transfer) THEN "copy" ELSE "msgs")
  /\ UNCHANGED <<err, bufVars, multiVars, transfer>>

SelectFails ==
  /\ pc = "loop"
  /\ ~Enough /\ Running(transfer)
  /\ call.op \in SelectFailsIn
  /\ err' = TRUE
  /\ Goto("copy")
  /\ UNCHANGED <<bufVars, multiVars, transfer>>

SelectReturns ==
  /\ pc = "loop"
  /\ ~Enough /\ Running(transfer)
  /\ curl_multi_perform
  /\ Goto("loop")
  /\ UNCHANGED <<err, begin_offset, multiVars>>

\* curl_multi_info_read, once the transfer has ended.
ReadMessages ==
  /\ pc = "msgs"
  /\ err' = (err \/ ~transfer.msg \/ transfer.result # "OK")
  /\ transfer' = [transfer EXCEPT !.msg = FALSE]
  /\ Goto("copy")
  /\ UNCHANGED <<bufVars, multiVars>>

\* What there is of what was asked for.
ToCopy == Len(buf[call.fh]) + begin_offset[call.fh] - call.offset
Copied == IF call.size > ToCopy THEN ToCopy ELSE call.size

Shrinks(h) == can_shrink[h] /\ Len(buf[h]) > MAX_BUFFER_LEN

\* An open copies nothing (rbuf is NULL), but may move the rest of the window.
CopiesFromNull ==
  /\ buf_null[call.fh]
  /\ \/ call.op = "read" /\ Copied > 0
     \/ Shrinks(call.fh) /\ ToCopy > Copied

\* The part of the window that has been read is dropped when it is too long.
\* Mutant: the window moves the wrong way.
ShrinkBackwards(h) ==
  IF Shrinks(h)
    THEN /\ buf' = [buf EXCEPT ![h] =
               SubSeq(@, call.offset - begin_offset[h] + Copied + 1, Len(@))]
         /\ begin_offset' = [begin_offset EXCEPT ![h] = call.offset - Copied]
    ELSE UNCHANGED <<buf, begin_offset>>

\* Mutant: the window begins where the read began.
ShrinkShort(h) ==
  IF Shrinks(h)
    THEN /\ buf' = [buf EXCEPT ![h] =
               SubSeq(@, call.offset - begin_offset[h] + Copied + 1, Len(@))]
         /\ begin_offset' = [begin_offset EXCEPT ![h] = call.offset]
    ELSE UNCHANGED <<buf, begin_offset>>

Shrink(h) ==
  IF Shrinks(h)
    THEN /\ buf' = [buf EXCEPT ![h] =
               SubSeq(@, call.offset - begin_offset[h] + Copied + 1, Len(@))]
         /\ begin_offset' = [begin_offset EXCEPT ![h] = call.offset + Copied]
    ELSE UNCHANGED <<buf, begin_offset>>

Return(answer) == pc' = "idle" /\ call' = Reads!NoCall /\ ret' = answer

CopyRead ==
  LET h     == call.fh
      first == call.offset - begin_offset[h]
  IN
  /\ pc = "copy" /\ call.op = "read"
  /\ ~CopiesFromNull
  /\ Shrink(h)
  /\ Return(IF err THEN Reads!Failed
                   ELSE Reads!Ok(SubSeq(buf[h], first + 1, first + Copied)))
  /\ err' = FALSE
  /\ UNCHANGED <<fileVars, buf_null, multiVars, transfer>>

Crash ==
  /\ pc = "copy"
  /\ CopiesFromNull
  /\ pc' = "crashed"
  /\ UNCHANGED <<fileVars, call, ret, err, bufVars, multiVars, transfer>>

\* The end of an open: after a failed one the handle is freed, and current_fh
\* keeps its address.
CopyOpen ==
  /\ pc = "copy" /\ call.op = "open"
  /\ ~CopiesFromNull
  /\ \/ /\ err
        /\ Return(Reads!Failed)
        /\ FreeHandle(call.fh)
     \/ /\ ~err
        /\ Return(Reads!Ok(<<>>))
        /\ Shrink(call.fh)
        /\ UNCHANGED <<fileVars, buf_null>>
  /\ err' = FALSE
  /\ UNCHANGED <<multiVars, transfer>>

CreateEnds ==
  /\ pc = "created"
  /\ \/ Return(Reads!Ok(<<>>)) /\ UNCHANGED <<fileVars, bufVars>>
     \/ Return(Reads!Failed) /\ FreeHandle(call.fh)
  /\ UNCHANGED <<err, multiVars, transfer>>

\* A process that has died serves nothing.
Crashed == pc = "crashed" /\ UNCHANGED vars

-----------------------------------------------------------------------------
Init ==
  /\ file = [h \in Handles |-> NULL]
  /\ call = Reads!NoCall
  /\ ret = Reads!NoAnswer
  /\ pc = "idle"
  /\ err = FALSE
  /\ buf = [h \in Handles |-> <<>>]
  /\ begin_offset = [h \in Handles |-> 0]
  /\ buf_null = [h \in Handles |-> FALSE]
  /\ can_shrink = [h \in Handles |-> FALSE]
  /\ current_fh = NULL
  /\ attached_to_multi = FALSE
  /\ range = 0
  /\ transfer = NoTransfer

Arrival == RequestOpen \/ RequestCreate \/ RequestRead \/ OtherRequest \/ Release

Serve ==
  \/ Enter \/ CheckRunning \/ Restart \/ Perform
  \/ LoopEnds \/ SelectFails \/ SelectReturns \/ ReadMessages
  \/ CopyRead \/ CopyOpen \/ CreateEnds \/ Crash

Next == Arrival \/ Serve \/ Crashed

\* A request that can go on does.
\* The server is taken to answer: a call of curl_multi_perform that is repeated
\* for ever makes progress some time.
Fairness ==
  /\ WF_vars(Serve)
  /\ SF_vars(SelectReturns /\ Progress)

Spec == Init /\ [][Next]_vars
FairSpec == Spec /\ Fairness

-----------------------------------------------------------------------------
(* Properties.                                                             *)

Transfers ==
  [state : {"none", "added", "running", "done"}, url : Files \union {NULL},
   next : Nat, data : Handles \union {NULL}, result : {"OK", "failed"},
   msg : BOOLEAN]

\* Every variable has its type.
TypeOK ==
  /\ file \in [Handles -> Files \union {NULL}]
  /\ call.fh \in Handles \union {NULL} /\ call.offset \in Nat
  /\ call.size \in Nat
  /\ pc \in {"idle", "enter", "check", "restart", "perform", "loop", "msgs",
             "copy", "created", "crashed"}
  /\ err \in BOOLEAN
  /\ buf \in [Handles -> Seq(Files \X Nat)]
  /\ begin_offset \in [Handles -> Nat]
  /\ buf_null \in [Handles -> BOOLEAN]
  /\ can_shrink \in [Handles -> BOOLEAN]
  /\ current_fh \in Handles \union {NULL}
  /\ attached_to_multi \in BOOLEAN
  /\ range \in Nat
  /\ transfer \in Transfers

\* The window of an open handle is a piece of its own file, at begin_offset,
\* whatever restarts, cancellations, failures and shrinking led to it.
WindowTrue ==
  \A h \in Handles :
    file[h] # NULL =>
      buf[h] = Reads!Bytes(file[h], begin_offset[h], Len(buf[h]))

\* What check_running relies on: a transfer that runs when the current handle
\* asks for more was started for that handle and goes on where its window
\* ends.
TransferContinues ==
  Running(transfer) /\ current_fh # NULL =>
    LET h == current_fh IN
    /\ transfer.data = h /\ transfer.url = file[h]
    /\ transfer.state = "running" =>
         transfer.next = begin_offset[h] + Len(buf[h])

\* curl_multi_info_read is called only when there is a message: the code would
\* follow the NULL pointer it gets otherwise (in its debugging output).
MessageWaits == pc = "msgs" => transfer.msg

\* The range of a read is gone when the next request is served: the listings
\* and commands of the shared connection are not cut.
RangeCleared == pc = "idle" => range = 0

\* Reads give the file's bytes at the offset asked for and are short only at
\* its end: the steps above implement FileRead.
ImplementsFileRead == Reads!Spec

\* A request that a server goes on answering returns.
RequestsReturn == (pc # "idle") ~> (pc \in {"idle", "crashed"})
=============================================================================
