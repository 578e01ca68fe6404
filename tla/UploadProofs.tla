---------------------------- MODULE UploadProofs ----------------------------
(***************************************************************************)
(* Proofs about what an upload does to the file on the server: a flush     *)
(* that reports success is right, and StreamWrite implements Upload.  One  *)
(* call is in progress at a time (~ConcurrentFlush).                       *)
(***************************************************************************)
EXTENDS StreamWriteProofs

-----------------------------------------------------------------------------
(* The calls.                                                              *)

\* The places in the handler of a request.
OpLabels(name) ==
  CASE name = "open"      -> {"o_enter", "o_ready", "o_post"}
    [] name = "write"     -> WriteLabels \union FinishLabels
    [] name = "ftruncate" -> {"t_enter"}
    [] name = "release"   -> {"s_enter", "f_size", "r_free"} \union FinishLabels
    [] OTHER              -> {"s_enter", "f_size"} \union FinishLabels

\* A caller is inside the handler of the request it serves.
LabelInv ==
  \A c \in Callers :
    IF pc[c] = "idle" THEN call[c] = NoCall
    ELSE call[c] # NoCall /\ pc[c] \in OpLabels(call[c].op)

\* An open has accepted nothing yet, a write that waits for its chunk to be sent
\* has been accepted, and the thread starts while its caller waits for it.
PlaceInv ==
  /\ op \in {"o_ready", "o_post"} => pos = 0
  /\ op \in {"w_written", "w_check"} => pos = call["op"].offset + call["op"].size
  /\ tpc = "t_start" => op \in {"o_ready", "w_ready"} /\ sem["ready"] = 0

ServeInv == LabelInv /\ PlaceInv

\* A caller that moves on inside its handler still serves its request.
LEMMA GotoServes ==
  ASSUME TypeInv, LabelInv, NEW c \in Callers, NEW label \in CallerLabels,
         pc[c] # "idle", label # "idle",
         label \in OpLabels(call[c].op), Goto(c, label)
  PROVE  LabelInv'
BY DEF LabelInv, Goto, TypeInv, CallInv, CallTypeOK

\* A call that returns leaves its caller with no request.
LEMMA ReturnServes ==
  ASSUME TypeInv, LabelInv, NEW c \in Callers, NEW result, Return(c, result)
  PROVE  LabelInv'
BY DEF LabelInv, Return, TypeInv, CallInv, CallTypeOK

\* ftpfs_flush returns, or goes on in ftpfs_release.
LEMMA SyncReturnServes ==
  ASSUME TypeInv, LabelInv, NEW c \in Callers, NEW result, pc[c] # "idle",
         SyncReturn(c, result)
  PROVE  LabelInv'
BY GotoServes, ReturnServes DEF SyncReturn, OpLabels, CallerLabels

\* A request puts its caller at the first line of its handler.
LEMMA RequestServes ==
  ASSUME TypeInv, LabelInv, NEW c \in Callers, NEW request, NEW label,
         request # NoCall, label # "idle", label \in OpLabels(request.op),
         Request(c, request, label)
  PROVE  LabelInv'
BY DEF LabelInv, Request, TypeInv, CallInv, CallTypeOK

\* No step takes a caller out of the handler of its request.
LEMMA LabelStep ==
  ASSUME TypeInv, LabelInv, [Next]_vars
  PROVE  LabelInv'
<1> USE DEF OpLabels, WriteLabels, FinishLabels, CallerLabels
<1>1. ASSUME Arrival PROVE LabelInv'
  <2>1. CASE RequestOpen
    BY <2>1, RequestServes DEF RequestOpen, NoCall, Callers
  <2>2. CASE RequestWrite
    BY <2>2, RequestServes DEF RequestWrite, NoCall, Callers
  <2>3. CASE RequestTruncate
    BY <2>3, RequestServes DEF RequestTruncate, NoCall, Callers
  <2>4. ASSUME NEW c \in Callers, RequestSync(c) PROVE LabelInv'
    BY <2>4, RequestServes DEF RequestSync, NoCall
  <2> QED
    BY <1>1, <2>1, <2>2, <2>3, <2>4 DEF Arrival
<1>2. ASSUME NEW c \in Callers, CallerStep(c) PROVE LabelInv'
  <2>1. pc[c] # "idle" => call[c] # NoCall /\ pc[c] \in OpLabels(call[c].op)
    BY DEF LabelInv
  <2>2. CASE OpenRefused(c)
    BY <2>2, ReturnServes DEF OpenRefused
  <2>3. CASE OpenAccepted(c)
    BY <2>1, <2>3, GotoServes, ReturnServes DEF OpenAccepted
  <2>4. CASE AwaitReady(c)
    BY <2>1, <2>4, GotoServes DEF AwaitReady
  <2>5. CASE OpenPost(c)
    BY <2>5, ReturnServes DEF OpenPost
  <2>6. CASE WriteRefused(c)
    BY <2>6, ReturnServes DEF WriteRefused
  <2>7. CASE WriteStart(c)
    BY <2>1, <2>7, GotoServes, ReturnServes DEF WriteStart
  <2>8. CASE WriteIgnored(c)
    BY <2>8, ReturnServes DEF WriteIgnored
  <2>9. CASE WriteContinue(c)
    BY <2>1, <2>9, GotoServes DEF WriteContinue
  <2>10. CASE WritePost(c)
    BY <2>1, <2>10, GotoServes DEF WritePost
  <2>11. CASE WriteNeed(c)
    BY <2>1, <2>11, GotoServes DEF WriteNeed
  <2>12. CASE WriteNonSequential(c)
    BY <2>1, <2>12, GotoServes DEF WriteNonSequential
  <2>13. CASE WriteAdd(c)
    BY <2>1, <2>13, GotoServes DEF WriteAdd
  <2>14. CASE WriteNoMemory(c)
    BY <2>14, ReturnServes DEF WriteNoMemory
  <2>15. CASE WriteCrash(c)
    BY <2>15 DEF WriteCrash, callVars, LabelInv
  <2>16. CASE WriteWritten(c)
    BY <2>1, <2>16, GotoServes DEF WriteWritten
  <2>17. CASE WriteCheck(c)
    BY <2>17, ReturnServes DEF WriteCheck
  <2>18. CASE FinishCheck(c)
    BY <2>1, <2>18, GotoServes DEF FinishCheck
  <2>19. CASE FinishNeed(c)
    BY <2>1, <2>19, GotoServes DEF FinishNeed
  <2>20. CASE FinishPost(c)
    BY <2>1, <2>20, GotoServes DEF FinishPost
  <2>21. CASE FinishEof(c)
    BY <2>1, <2>21, GotoServes DEF FinishEof
  <2>22. CASE FinishJoin(c)
    BY <2>1, <2>22, GotoServes, ReturnServes, SyncReturnServes DEF FinishJoin
  <2>23. CASE SyncEnter(c)
    BY <2>1, <2>23, GotoServes, SyncReturnServes DEF SyncEnter
  <2>24. CASE SizeUnknown(c)
    BY <2>24, SyncReturnServes DEF SizeUnknown
  <2>25. CASE SizeCheck(c)
    BY <2>25, SyncReturnServes DEF SizeCheck
  <2>26. CASE ReleaseFree(c)
    BY <2>26, ReturnServes DEF ReleaseFree
  <2>27. CASE TruncateToZero(c)
    BY <2>27, ReturnServes DEF TruncateToZero
  <2>28. CASE TruncateToSize(c)
    BY <2>28, ReturnServes DEF TruncateToSize
  <2> QED
    BY <1>2, <2>2, <2>3, <2>4, <2>5, <2>6, <2>7, <2>8, <2>9, <2>10, <2>11, <2>12,
       <2>13, <2>14, <2>15, <2>16, <2>17, <2>18, <2>19, <2>20, <2>21, <2>22, <2>23,
       <2>24, <2>25, <2>26, <2>27, <2>28
    DEF CallerStep
<1>3. CASE ThreadStep \/ Crashed \/ UNCHANGED vars
  BY <1>3 DEF LabelInv, ThreadStep, Crashed, vars, callVars, ThreadUpload, CurlFails,
     CurlSend, CurlDone, CallbackReady, CallbackWritten, CallbackWait, CallbackEof,
     CallbackTake, ThreadReady, ThreadCause, ThreadNeed, ThreadWritten
<1> QED
  BY <1>1, <1>2, <1>3 DEF Next

\* Every step keeps the places.
LEMMA PlaceStep ==
  ASSUME ~ConcurrentFlush, TypeInv, TokenInv, HandoffInv, ServeInv, [Next]_vars
  PROVE  PlaceInv'
<1> USE ProtocolTypes
<1> USE DEF ServeInv, PlaceInv, TokenInv, ControlInv, op, Callers, Sems, CurlLabels,
            fileVars, threadVars, Goto, Return, Post, Wait
<1>1. ASSUME Arrival PROVE PlaceInv'
  BY <1>1 DEF Arrival, RequestOpen, RequestWrite, RequestTruncate, RequestSync, Request
<1>2. ASSUME NEW c \in Callers, CallerStep(c) PROVE PlaceInv'
  <2>1. c = "op" /\ pc["op"] # "idle"
    BY <1>2 DEF CallerStep,
         OpenRefused, OpenAccepted, AwaitReady, OpenPost, WriteRefused, WriteStart,
         WriteIgnored, WriteContinue, WritePost, WriteNeed, WriteNonSequential,
         WriteAdd, WriteNoMemory, WriteCrash, WriteWritten, WriteCheck, FinishCheck,
         FinishNeed, FinishPost, FinishEof, FinishJoin, SyncEnter, SizeUnknown,
         SizeCheck, ReleaseFree, TruncateToZero, TruncateToSize
  <2>2. CASE OpenRefused(c)
    BY <2>1, <2>2 DEF OpenRefused
  <2>3. CASE OpenAccepted(c)
    BY <2>1, <2>3 DEF OpenAccepted, start_write_thread
  <2>4. CASE AwaitReady(c)
    BY <2>1, <2>4 DEF AwaitReady
  <2>5. CASE OpenPost(c)
    BY <2>1, <2>5 DEF OpenPost
  <2>6. CASE WriteRefused(c)
    BY <2>1, <2>6 DEF WriteRefused
  <2>7. CASE WriteStart(c)
    BY <2>1, <2>7 DEF WriteStart, start_write_thread
  <2>8. CASE WriteIgnored(c)
    BY <2>1, <2>8 DEF WriteIgnored
  <2>9. CASE WriteContinue(c)
    BY <2>1, <2>9 DEF WriteContinue
  <2>10. CASE WritePost(c)
    BY <2>1, <2>10 DEF WritePost
  <2>11. CASE WriteNeed(c)
    BY <2>1, <2>11 DEF WriteNeed
  <2>12. CASE WriteNonSequential(c)
    BY <2>1, <2>12 DEF WriteNonSequential
  <2>13. CASE WriteAdd(c)
    BY <2>1, <2>13 DEF WriteAdd
  <2>14. CASE WriteNoMemory(c)
    BY <2>1, <2>14 DEF WriteNoMemory
  <2>15. CASE WriteCrash(c)
    BY <2>1, <2>15 DEF WriteCrash, callVars
  <2>16. CASE WriteWritten(c)
    BY <2>1, <2>16 DEF WriteWritten
  <2>17. CASE WriteCheck(c)
    BY <2>1, <2>17 DEF WriteCheck
  <2>18. CASE FinishCheck(c)
    BY <2>1, <2>18 DEF FinishCheck
  <2>19. CASE FinishNeed(c)
    BY <2>1, <2>19 DEF FinishNeed
  <2>20. CASE FinishPost(c)
    BY <2>1, <2>20 DEF FinishPost
  <2>21. CASE FinishEof(c)
    BY <2>1, <2>21 DEF FinishEof
  <2>22. CASE FinishJoin(c)
    BY <2>1, <2>22 DEF FinishJoin, SyncReturn
  <2>23. CASE SyncEnter(c)
    BY <2>1, <2>23 DEF SyncEnter, SyncReturn
  <2>24. CASE SizeUnknown(c)
    BY <2>1, <2>24 DEF SizeUnknown, SyncReturn
  <2>25. CASE SizeCheck(c)
    BY <2>1, <2>25 DEF SizeCheck, SyncReturn
  <2>26. CASE ReleaseFree(c)
    BY <2>1, <2>26 DEF ReleaseFree
  <2>27. CASE TruncateToZero(c)
    BY <2>1, <2>27 DEF TruncateToZero
  <2>28. CASE TruncateToSize(c)
    BY <2>1, <2>28 DEF TruncateToSize
  <2> QED
    BY <1>2, <2>2, <2>3, <2>4, <2>5, <2>6, <2>7, <2>8, <2>9, <2>10, <2>11, <2>12,
       <2>13, <2>14, <2>15, <2>16, <2>17, <2>18, <2>19, <2>20, <2>21, <2>22, <2>23,
       <2>24, <2>25, <2>26, <2>27, <2>28
    DEF CallerStep
<1>3. ASSUME ThreadStep PROVE PlaceInv'
  <2>1. UNCHANGED <<pc, call, pos>> /\ tpc' # "t_start"
    BY <1>3 DEF ThreadStep, callVars, ThreadUpload, CurlFails,
       CurlSend, CurlDone, CallbackReady, CallbackWritten, CallbackWait, CallbackEof,
       CallbackTake, ThreadReady, ThreadCause, ThreadNeed, ThreadWritten
  <2> QED
    BY <2>1
<1>4. CASE UNCHANGED vars
  BY <1>4 DEF vars, callVars
<1> QED
  BY <1>1, <1>2, <1>3, <1>4 DEF Next, Crashed

-----------------------------------------------------------------------------
(* The bytes.  The provers unfold SubSeq where they see it, so a part of a *)
(* sequence has a name of its own.                                         *)

Part(s, m, n) == SubSeq(s, m, n)

\* A chunk of no bytes is empty.
LEMMA BytesNone ==
  ASSUME NEW from \in Nat
  PROVE  Bytes(from, 0) = <<>>
BY DEF Bytes

\* A chunk and the one that follows it are one chunk.
LEMMA BytesConcat ==
  ASSUME NEW from \in Nat, NEW m \in Nat, NEW n \in Nat
  PROVE  Bytes(from, m) \o Bytes(from + m, n) = Bytes(from, m + n)
<1>1. /\ Bytes(from, m) \in Seq(Nat) /\ Len(Bytes(from, m)) = m
      /\ Bytes(from + m, n) \in Seq(Nat) /\ Len(Bytes(from + m, n)) = n
      /\ Bytes(from, m + n) \in Seq(Nat) /\ Len(Bytes(from, m + n)) = m + n
  <2>1. from + m \in Nat /\ m + n \in Nat
    OBVIOUS
  <2> QED
    BY <2>1, BytesType
<1>2. ASSUME NEW i \in 1..(m + n)
      PROVE  (Bytes(from, m) \o Bytes(from + m, n))[i] = Bytes(from, m + n)[i]
  BY <1>1, ConcatProperties DEF Bytes
<1>3. /\ Bytes(from, m) \o Bytes(from + m, n) \in Seq(Nat)
      /\ Len(Bytes(from, m) \o Bytes(from + m, n)) = m + n
  BY <1>1, ConcatProperties
<1> QED
  BY <1>1, <1>2, <1>3, SeqEqual

\* The two parts of a chunk are chunks.
LEMMA BytesPart ==
  ASSUME NEW from \in Nat, NEW n \in Nat, NEW k \in 0..n
  PROVE  /\ Part(Bytes(from, n), 1, k) = Bytes(from, k)
         /\ Part(Bytes(from, n), k + 1, n) = Bytes(from + k, n - k)
<1>1. Bytes(from, n) \in Seq(Nat) /\ Len(Bytes(from, n)) = n
  BY BytesType
<1>2. Part(Bytes(from, n), 1, k) = Bytes(from, k)
  <2>1. /\ Part(Bytes(from, n), 1, k) \in Seq(Nat)
        /\ Len(Part(Bytes(from, n), 1, k)) = k
        /\ \A i \in 1..k : Part(Bytes(from, n), 1, k)[i] = Bytes(from, n)[i]
    BY <1>1, SubSeqProperties DEF Part
  <2>2. \A i \in 1..k : Bytes(from, n)[i] = Bytes(from, k)[i]
    BY DEF Bytes
  <2>3. Bytes(from, k) \in Seq(Nat) /\ Len(Bytes(from, k)) = k
    BY BytesType
  <2> QED
    BY <2>1, <2>2, <2>3, SeqEqual
<1>3. Part(Bytes(from, n), k + 1, n) = Bytes(from + k, n - k)
  <2>1. /\ Part(Bytes(from, n), k + 1, n) \in Seq(Nat)
        /\ Len(Part(Bytes(from, n), k + 1, n)) = n - k
        /\ \A i \in 1..(n - k) :
             Part(Bytes(from, n), k + 1, n)[i] = Bytes(from, n)[k + i]
    BY <1>1, SubSeqProperties DEF Part
  <2>2. \A i \in 1..(n - k) : Bytes(from, n)[k + i] = Bytes(from + k, n - k)[i]
    BY DEF Bytes
  <2>3. from + k \in Nat /\ n - k \in Nat
    OBVIOUS
  <2>4. Bytes(from + k, n - k) \in Seq(Nat) /\ Len(Bytes(from + k, n - k)) = n - k
    BY <2>3, BytesType
  <2> QED
    BY <2>1, <2>2, <2>4, SeqEqual
<1> QED
  BY <1>2, <1>3

\* stream_buf and libcurl hold the bytes accepted last, in their order, whether or
\* not an error has been reported.
WireInv ==
  tpc \in CurlLabels =>
    LET n == Len(stream_buf)
        m == Len(wire)
    IN
    /\ n + m <= pos
    /\ stream_buf = Bytes(pos - n, n)
    /\ wire = Bytes(pos - n - m, m)

\* What holds bytes is a sequence of them.
LEMMA ByteTypes ==
  ASSUME TypeInv
  PROVE  /\ pos \in Nat
         /\ stream_buf \in Seq(Nat) /\ wire \in Seq(Nat) /\ server \in Seq(Nat)
         /\ Len(stream_buf) \in Nat /\ Len(wire) \in Nat /\ Len(server) \in Nat
BY LenProperties DEF TypeInv, FileTypeOK, SharedTypeOK, ThreadTypeOK

\* buf_add_mem puts the new chunk behind what libcurl still has.
LEMMA AddKeepsWire ==
  ASSUME TypeInv, TokenInv, HandoffInv, WireInv,
         NEW c \in Callers, WriteAdd(c)
  PROVE  WireInv'
<1>1. /\ c = "op" /\ op = "w_add" /\ UNCHANGED <<tpc, wire>>
      /\ stream_buf' = stream_buf \o Bytes(pos, call[c].size)
      /\ pos' = pos + call[c].size
  BY DEF WriteAdd, TokenInv, ControlInv, op, Callers, threadVars
<1>2. PICK size \in Nat : size = call[c].size
  BY WriteRequest DEF WriteAdd, TypeInv, CallInv, CallTypeOK, WriteLabels
<1> SUFFICES ASSUME tpc \in CurlLabels
             PROVE  WireInv'
  BY <1>1 DEF WireInv
<1>3. stream_buf = <<>>
  BY <1>1 DEF HandoffInv, ChunkInv
<1>4. stream_buf' = Bytes(pos, size) /\ Len(stream_buf') = size
  BY <1>1, <1>2, <1>3, ByteTypes, BytesType, ConcatEmptySeq
<1>5. PICK m \in Nat : m = Len(wire)
  BY ByteTypes
<1>6. m <= pos /\ wire = Bytes(pos - m, m)
  BY <1>3, <1>5, ByteTypes DEF WireInv
<1>7. /\ size + m <= pos' /\ pos' - size = pos /\ pos' - size - m = pos - m
  <2>1. m <= pos /\ pos \in Nat /\ pos' = pos + size
    BY <1>1, <1>2, <1>6, ByteTypes
  <2> QED
    BY <2>1
<1> QED
  BY <1>1, <1>4, <1>5, <1>6, <1>7 DEF WireInv

\* write_data_bg hands over the first bytes of stream_buf and keeps the rest.
LEMMA TakeKeepsWire ==
  ASSUME TypeInv, HandoffInv, WireInv, CallbackTake
  PROVE  WireInv'
<1>1. PICK n \in Nat : n = Len(stream_buf)
  BY ByteTypes
<1>2. PICK k \in 0..n :
        /\ wire' = Part(stream_buf, 1, k)
        /\ stream_buf' = Part(stream_buf, k + 1, n)
  <2>1. PICK k \in 0..n : k = IF CurlBuf < n THEN CurlBuf ELSE n
    BY ConstantsAssumption
  <2> QED
    BY <1>1, <2>1 DEF CallbackTake, Part
<1>3. n <= pos /\ stream_buf = Bytes(pos - n, n) /\ UNCHANGED pos
  BY <1>1, ByteTypes DEF WireInv, CallbackTake, CurlLabels, fileVars
<1>4. PICK from \in Nat : from = pos - n
  BY <1>1, <1>3, ByteTypes
<1>5. wire' = Bytes(from, k) /\ stream_buf' = Bytes(from + k, n - k)
  BY <1>2, <1>3, <1>4, BytesPart
<1>6. from + k \in Nat /\ n - k \in Nat /\ k \in Nat
  OBVIOUS
<1>7. Len(wire') = k /\ Len(stream_buf') = n - k
  BY <1>5, <1>6, BytesType
<1>8. /\ (n - k) + k <= pos'
      /\ pos' - (n - k) = from + k
      /\ pos' - (n - k) - k = from
  BY <1>3, <1>4, ByteTypes
<1> QED
  BY <1>5, <1>7, <1>8 DEF WireInv

\* An upload that starts finds no bytes from before.
LEMMA EmptyWire ==
  ASSUME pos' \in Nat, stream_buf' = <<>>, wire' = <<>>
  PROVE  WireInv'
<1>1. Len(stream_buf') = 0 /\ Len(wire') = 0
  BY EmptySeq
<1>2. PICK p \in Nat : p = pos'
  OBVIOUS
<1>3. p - 0 = p /\ p - 0 - 0 = p /\ 0 + 0 <= p
  OBVIOUS
<1>4. Bytes(p, 0) = <<>>
  BY BytesNone
<1> QED
  BY <1>1, <1>2, <1>3, <1>4 DEF WireInv

\* What has been sent is no longer in libcurl's hands.
LEMMA SendKeepsWire ==
  ASSUME TypeInv, WireInv, CurlSend
  PROVE  WireInv'
<1>1. PICK n \in Nat : n = Len(stream_buf)
  BY ByteTypes
<1>2. n <= pos /\ stream_buf = Bytes(pos - n, n)
  BY <1>1, ByteTypes DEF WireInv, CurlSend, CurlLabels
<1>3. PICK from \in Nat : from = pos - n
  BY <1>1, <1>2, ByteTypes
<1>4. wire' = <<>> /\ Len(wire') = 0 /\ UNCHANGED <<pos, stream_buf>>
  BY EmptySeq DEF CurlSend, fileVars
<1>5. Bytes(from, 0) = <<>>
  BY BytesNone
<1>6. n + 0 <= pos /\ pos - n - 0 = from
  BY <1>2, <1>3, ByteTypes
<1> QED
  BY <1>1, <1>2, <1>3, <1>4, <1>5, <1>6 DEF WireInv

\* Steps that have nothing to do with the bytes.
LEMMA BytesAlone ==
  ASSUME TypeInv, [Next]_vars
  PROVE  \/ \E c \in Callers : WriteAdd(c) \/ OpenAccepted(c) \/ WriteStart(c)
         \/ CallbackTake \/ CurlSend \/ CurlFails
         \/ /\ UNCHANGED <<pos, stream_buf, wire>>
            /\ tpc' \in CurlLabels => tpc \in CurlLabels
BY DEF Next, Arrival, CallerStep, ThreadStep, Crashed, RequestOpen, RequestWrite,
       RequestTruncate, RequestSync, Request, OpenRefused, AwaitReady, OpenPost,
       WriteRefused, WriteIgnored, WriteContinue, WritePost, WriteNeed,
       WriteNonSequential, WriteNoMemory, WriteCrash, WriteWritten, WriteCheck,
       FinishCheck, FinishNeed, FinishPost, FinishEof, FinishJoin, SyncEnter,
       SizeUnknown, SizeCheck, ReleaseFree, TruncateToZero, TruncateToSize,
       ThreadUpload, CurlDone, CallbackReady, CallbackWritten, CallbackWait,
       CallbackEof, ThreadReady, ThreadCause, ThreadNeed, ThreadWritten,
       vars, fileVars, threadVars, CurlLabels

\* Every step keeps the bytes accepted last where WireInv says.
LEMMA WireStep ==
  ASSUME TypeInv, TypeInv', TokenInv, HandoffInv, WireInv, [Next]_vars
  PROVE  WireInv'
<1>1. ASSUME NEW c \in Callers, OpenAccepted(c) \/ WriteStart(c) PROVE WireInv'
  <2>1. tpc = "none"
    BY <1>1 DEF OpenAccepted, WriteStart, TokenInv, ControlInv, Callers, op
  <2>2. wire' = <<>> /\ stream_buf' = <<>>
    BY <1>1, <2>1 DEF OpenAccepted, WriteStart, start_write_thread, threadVars,
       HandoffInv, AttachInv, ChunkInv
  <2>3. pos' \in Nat
    BY DEF TypeInv, FileTypeOK
  <2> QED
    BY <2>2, <2>3, EmptyWire
<1>2. CASE CurlFails
  BY <1>2 DEF CurlFails, WireInv, CurlLabels
<1>3. CASE UNCHANGED <<pos, stream_buf,
wire>> /\ (tpc' \in CurlLabels => tpc \in CurlLabels)
  BY <1>3 DEF WireInv
<1> QED
  BY <1>1, <1>2, <1>3, BytesAlone, AddKeepsWire, TakeKeepsWire, SendKeepsWire

-----------------------------------------------------------------------------
(* The file on the server.                                                 *)

\* The file is the beginning of what was accepted.
InOrder == server = Bytes(0, Len(server))

\* Until an error is reported: while libcurl works, the file, what libcurl has
\* and stream_buf make up what was accepted; an upload that ended well has left
\* a part of it, for the size to be checked; and between two uploads the file is
\* all of it.  (ftpfs_release goes on after an upload that failed.)
ServerInv ==
  handle = "open" /\ ~told /\ op # "r_free" =>
    /\ tpc \in CurlLabels \ {"t_start"} =>
         InOrder /\ Len(server) + Len(wire) + Len(stream_buf) = pos
    /\ tpc \notin CurlLabels /\ (tpc # "none" => curl_res = "OK") /\ pos > 0 =>
         InOrder
    /\ tpc = "t_start" \/ (tpc = "none" /\ op # "f_size") =>
         pos = 0 \/ (InOrder /\ Len(server) = pos)

UploadInv == ServeInv /\ WireInv /\ ServerInv

\* Steps that leave the bytes where they are.
BytesStay == UNCHANGED <<pos, stream_buf, wire, server>>

\* A step that leaves the bytes alone leaves the file in order.
LEMMA StayInOrder ==
  ASSUME BytesStay
  PROVE  /\ InOrder' <=> InOrder
         /\ pos' = pos /\ Len(server') = Len(server)
         /\ Len(wire') = Len(wire) /\ Len(stream_buf') = Len(stream_buf)
BY DEF BytesStay, InOrder

\* The steps of a caller that leave the bytes alone keep ServerInv: an upload ends
\* with an error reported, or with a file in order and its size checked.
LEMMA CallerKeepsServer ==
  ASSUME TypeInv, TokenInv, HandoffInv, ServerInv, NEW c \in Callers, CallerStep(c),
         ~OpenAccepted(c), ~WriteAdd(c), ~TruncateToZero(c)
  PROVE  ServerInv'
<1> USE ProtocolTypes
<1> USE DEF ServerInv, TokenInv, ControlInv, op, Callers, CurlLabels, fileVars,
            threadVars, serverVars, Goto, Return
<1>1. c = "op"
  BY DEF CallerStep,
         OpenRefused, OpenAccepted, AwaitReady, OpenPost, WriteRefused, WriteStart,
         WriteIgnored, WriteContinue, WritePost, WriteNeed, WriteNonSequential,
         WriteAdd, WriteNoMemory, WriteCrash, WriteWritten, WriteCheck, FinishCheck,
         FinishNeed, FinishPost, FinishEof, FinishJoin, SyncEnter, SizeUnknown,
         SizeCheck, ReleaseFree, TruncateToZero, TruncateToSize
<1>2. BytesStay
  BY DEF BytesStay, CallerStep, start_write_thread,
         OpenRefused, OpenAccepted, AwaitReady, OpenPost, WriteRefused, WriteStart,
         WriteIgnored, WriteContinue, WritePost, WriteNeed, WriteNonSequential,
         WriteAdd, WriteNoMemory, WriteCrash, WriteWritten, WriteCheck, FinishCheck,
         FinishNeed, FinishPost, FinishEof, FinishJoin, SyncEnter, SizeUnknown,
         SizeCheck, ReleaseFree, TruncateToZero, TruncateToSize
<1>3. /\ InOrder' <=> InOrder
      /\ pos' = pos /\ Len(server') = Len(server)
      /\ Len(wire') = Len(wire) /\ Len(stream_buf') = Len(stream_buf)
  BY <1>2, StayInOrder
<1>4. CASE OpenRefused(c)
  BY <1>1, <1>3, <1>4 DEF OpenRefused
<1>5. CASE AwaitReady(c)
  BY <1>1, <1>3, <1>5 DEF AwaitReady
<1>6. CASE OpenPost(c)
  BY <1>1, <1>3, <1>6 DEF OpenPost
<1>7. CASE WriteRefused(c)
  BY <1>1, <1>3, <1>7 DEF WriteRefused
<1>8. CASE WriteStart(c)
  BY <1>1, <1>3, <1>8 DEF WriteStart, start_write_thread
<1>9. CASE WriteIgnored(c)
  BY <1>1, <1>3, <1>9 DEF WriteIgnored
<1>10. CASE WriteContinue(c)
  BY <1>1, <1>3, <1>10 DEF WriteContinue
<1>11. CASE WritePost(c)
  BY <1>1, <1>3, <1>11 DEF WritePost
<1>12. CASE WriteNeed(c)
  BY <1>1, <1>3, <1>12 DEF WriteNeed
<1>13. CASE WriteNonSequential(c)
  BY <1>1, <1>3, <1>13 DEF WriteNonSequential
<1>14. CASE WriteNoMemory(c)
  BY <1>1, <1>3, <1>14 DEF WriteNoMemory
<1>15. CASE WriteCrash(c)
  BY <1>1, <1>3, <1>15 DEF WriteCrash, callVars
<1>16. CASE WriteWritten(c)
  BY <1>1, <1>3, <1>16 DEF WriteWritten
<1>17. CASE WriteCheck(c)
  BY <1>1, <1>3, <1>17 DEF WriteCheck
<1>18. CASE FinishCheck(c)
  BY <1>1, <1>3, <1>18 DEF FinishCheck
<1>19. CASE FinishNeed(c)
  BY <1>1, <1>3, <1>19 DEF FinishNeed
<1>20. CASE FinishPost(c)
  BY <1>1, <1>3, <1>20 DEF FinishPost
<1>21. CASE FinishEof(c)
  BY <1>1, <1>3, <1>21 DEF FinishEof
<1>22. CASE FinishJoin(c)
  BY <1>1, <1>3, <1>22 DEF FinishJoin, SyncReturn, HandoffInv, EndInv
<1>23. CASE SyncEnter(c)
  BY <1>1, <1>3, <1>23 DEF SyncEnter, SyncReturn
<1>24. CASE SizeUnknown(c)
  BY <1>1, <1>3, <1>24 DEF SizeUnknown, SyncReturn
<1>25. CASE SizeCheck(c)
  <2>1. op = "f_size" /\ tpc = "none" /\ UNCHANGED <<handle, tpc>>
    BY <1>1, <1>25 DEF SizeCheck
  <2>2. \/ op' = "r_free"
        \/ told'
        \/ (~told' => ~told) /\ Len(server) = pos
    BY <1>1, <1>25 DEF SizeCheck, SyncReturn
  <2> QED
    BY <1>3, <2>1, <2>2, ByteTypes
<1>26. CASE ReleaseFree(c)
  BY <1>1, <1>3, <1>26 DEF ReleaseFree
<1>27. CASE TruncateToSize(c)
  BY <1>1, <1>3, <1>27 DEF TruncateToSize
<1> QED
  BY <1>4, <1>5, <1>6, <1>7, <1>8, <1>9, <1>10, <1>11, <1>12, <1>13, <1>14, <1>15,
     <1>16, <1>17, <1>18, <1>19, <1>20, <1>21, <1>22, <1>23, <1>24, <1>25, <1>26, <1>27
  DEF CallerStep

\* So do those of the thread.
LEMMA ThreadKeepsServer ==
  ASSUME TypeInv, TokenInv, HandoffInv, ServerInv, ThreadStep,
         ~ThreadUpload, ~CurlFails, ~CurlSend, ~CurlDone, ~CallbackTake
  PROVE  ServerInv'
<1>1. BytesStay /\ UNCHANGED <<handle, told, pc, curl_res>>
  BY DEF BytesStay, ThreadStep, CallbackReady, CallbackWritten, CallbackWait,
         CallbackEof, ThreadReady, ThreadCause, ThreadNeed, ThreadWritten,
         callVars, fileVars, serverVars
<1>2. /\ tpc # "none" /\ tpc' \notin {"none", "t_start"}
      /\ tpc \in CurlLabels \ {"t_start"} <=> tpc' \in CurlLabels
  BY DEF ThreadStep, CallbackReady, CallbackWritten, CallbackWait, CallbackEof,
         ThreadReady, ThreadCause, ThreadNeed, ThreadWritten, CurlLabels
<1>3. tpc # "t_start"
  BY DEF ThreadStep, CallbackReady, CallbackWritten, CallbackWait, CallbackEof,
         ThreadReady, ThreadCause, ThreadNeed, ThreadWritten
<1> QED
  BY <1>1, <1>2, <1>3, StayInOrder DEF ServerInv, op

\* A file that is the beginning of what was accepted grows by the bytes that follow.
LEMMA GrowsInOrder ==
  ASSUME TypeInv, WireInv, InOrder, tpc \in CurlLabels,
         Len(server) + Len(wire) + Len(stream_buf) = pos
  PROVE  /\ server \o wire = Bytes(0, Len(server) + Len(wire))
         /\ Len(server \o wire) = Len(server) + Len(wire)
<1>1. PICK n \in Nat, m \in Nat, l \in Nat :
        n = Len(stream_buf) /\ m = Len(wire) /\ l = Len(server)
  BY ByteTypes
<1>2. l + m + n = pos /\ pos - n - m = l
  BY <1>1, ByteTypes
<1>3. wire = Bytes(l, m) /\ server = Bytes(0, l)
  BY <1>1, <1>2 DEF WireInv, InOrder
<1>4. Bytes(0, l) \o Bytes(0 + l, m) = Bytes(0, l + m)
  BY BytesConcat
<1>5. 0 + l = l /\ l + m \in Nat
  OBVIOUS
<1>6. Len(Bytes(0, l + m)) = l + m
  BY <1>5, BytesType
<1> QED
  BY <1>1, <1>3, <1>4, <1>5, <1>6

\* An open begins with nothing accepted.
LEMMA OpenKeepsServer ==
  ASSUME TypeInv, TokenInv, NEW c \in Callers, OpenAccepted(c)
  PROVE  ServerInv'
<1>1. tpc = "none"
  BY DEF OpenAccepted, TokenInv, ControlInv, Callers, op
<1>2. pos' = 0 /\ tpc' \in {"none", "t_start"}
  BY <1>1 DEF OpenAccepted, start_write_thread, threadVars
<1> QED
  BY <1>2 DEF ServerInv, CurlLabels

\* A write is accepted only by an upload that runs, or has failed.
LEMMA AddKeepsServer ==
  ASSUME TypeInv, TokenInv, HandoffInv, ServeInv, ServerInv,
         NEW c \in Callers, WriteAdd(c)
  PROVE  ServerInv'
<1>1. /\ c = "op" /\ op = "w_add" /\ op' = "w_written"
      /\ UNCHANGED <<handle, told, tpc, curl_res, wire, server>>
      /\ stream_buf' = stream_buf \o Bytes(pos, call[c].size)
      /\ pos' = pos + call[c].size
  BY ProtocolTypes DEF WriteAdd, TokenInv, ControlInv, op, Callers, threadVars,
     serverVars, Goto
<1>2. PICK size \in Nat : size = call[c].size
  BY WriteRequest DEF WriteAdd, TypeInv, CallInv, CallTypeOK, WriteLabels
<1>3. tpc # "none" /\ tpc # "t_start"
  BY <1>1 DEF HandoffInv, AttachInv, AttachedLabels, ServeInv, PlaceInv
<1>4. tpc \notin CurlLabels => curl_res # "OK"
  BY <1>1, <1>3 DEF HandoffInv, EndInv, FinishLabels
<1>5. Len(stream_buf') = Len(stream_buf) + size
  <2>1. Bytes(pos, size) \in Seq(Nat) /\ Len(Bytes(pos, size)) = size
    BY ByteTypes, BytesType
  <2>2. Len(stream_buf \o Bytes(pos, size)) = Len(stream_buf) + Len(Bytes(pos, size))
    BY <2>1, ByteTypes, ConcatProperties
  <2> QED
    BY <1>1, <1>2, <2>1, <2>2
<1>6. PICK n \in Nat, m \in Nat, l \in Nat :
        n = Len(stream_buf) /\ m = Len(wire) /\ l = Len(server)
  BY ByteTypes
<1>7. l + m + n = pos => l + m + (n + size) = pos + size
  BY ByteTypes
<1>8. InOrder' <=> InOrder
  BY <1>1 DEF InOrder
<1> QED
  BY <1>1, <1>2, <1>3, <1>4, <1>5, <1>6, <1>7, <1>8 DEF ServerInv

\* ftpfs_ftruncate empties the file only when nothing has been accepted.
LEMMA TruncateKeepsServer ==
  ASSUME TypeInv, TokenInv, HandoffInv, ServeInv, ServerInv,
         NEW c \in Callers, TruncateToZero(c)
  PROVE  ServerInv'
<1>1. /\ c = "op" /\ op = "t_enter" /\ op' = "idle" /\ pos = 0
      /\ UNCHANGED <<handle, pos, tpc, curl_res, wire, stream_buf>>
      /\ ~told' => ~told
      /\ server' = <<>> \/ UNCHANGED server
  BY ProtocolTypes DEF TruncateToZero, TokenInv, ControlInv, op, Callers, threadVars,
     serverVars, Return
<1>2. CASE UNCHANGED server
  <2>1. BytesStay
    BY <1>1, <1>2 DEF BytesStay
  <2> QED
    BY <1>1, <2>1, StayInOrder DEF ServerInv
<1>3. CASE server' = <<>>
  <2>1. Len(server') = 0 /\ InOrder'
    BY <1>3, BytesNone DEF InOrder
  <2>2. PICK n \in Nat, m \in Nat, l \in Nat :
          n = Len(stream_buf) /\ m = Len(wire) /\ l = Len(server)
    BY ByteTypes
  <2>3. l + m + n = 0 => 0 + m + n = 0
    OBVIOUS
  <2> QED
    BY <1>1, <2>1, <2>2, <2>3 DEF ServerInv
<1> QED
  BY <1>1, <1>2, <1>3

\* STOR begins an empty file, APPE goes on with one that has all of the bytes.
LEMMA UploadKeepsServer ==
  ASSUME TypeInv, HandoffInv, ServeInv, ServerInv, ThreadUpload
  PROVE  ServerInv'
<1>1. /\ tpc = "t_start" /\ tpc' = "cb_ready"
      /\ UNCHANGED <<handle, told, pc, pos, wire, stream_buf>>
      /\ server' = IF pos > 0 THEN server ELSE <<>>
  BY DEF ThreadUpload, callVars, fileVars
<1>2. wire = <<>> /\ stream_buf = <<>>
  BY <1>1 DEF HandoffInv, ChunkInv, ServeInv, PlaceInv, CurlLabels
<1>3. Len(wire') = 0 /\ Len(stream_buf') = 0
  BY <1>1, <1>2
<1>4. CASE pos > 0
  <2>1. InOrder' <=> InOrder
    BY <1>1, <1>4 DEF InOrder
  <2>2. Len(server) = pos => Len(server') + 0 + 0 = pos'
    BY <1>1, <1>4, ByteTypes
  <2> QED
    BY <1>1, <1>3, <1>4, <2>1, <2>2 DEF ServerInv, CurlLabels, op
<1>5. CASE pos = 0
  <2>1. Len(server') = 0 /\ InOrder'
    BY <1>1, <1>5, BytesNone DEF InOrder
  <2>2. Len(server') + 0 + 0 = pos'
    BY <1>1, <1>5, <2>1
  <2> QED
    BY <1>1, <1>3, <2>1, <2>2 DEF ServerInv, CurlLabels
<1> QED
  BY <1>4, <1>5, ByteTypes

\* A chunk that is sent is in its place.
LEMMA SendKeepsServer ==
  ASSUME TypeInv, WireInv, ServerInv, CurlSend
  PROVE  ServerInv'
<1>1. /\ tpc = "curl_send" /\ tpc' = "cb_ready" /\ server' = server \o wire
      /\ wire' = <<>> /\ UNCHANGED <<handle, told, pc, pos, stream_buf>>
  BY DEF CurlSend, callVars, fileVars
<1> SUFFICES ASSUME InOrder, Len(server) + Len(wire) + Len(stream_buf) = pos
             PROVE  InOrder' /\ Len(server') + Len(wire') + Len(stream_buf') = pos'
  BY <1>1 DEF ServerInv, CurlLabels, op
<1>2. /\ server \o wire = Bytes(0, Len(server) + Len(wire))
      /\ Len(server \o wire) = Len(server) + Len(wire)
  BY <1>1, GrowsInOrder DEF CurlLabels
<1>3. Len(wire') = 0
  BY <1>1
<1>4. PICK n \in Nat, m \in Nat, l \in Nat :
        n = Len(stream_buf) /\ m = Len(wire) /\ l = Len(server)
  BY ByteTypes
<1>5. l + m + n = pos => (l + m) + 0 + n = pos
  BY ByteTypes
<1>6. Len(server') = l + m /\ server' = Bytes(0, l + m)
  BY <1>1, <1>2, <1>4
<1>7. InOrder'
  BY <1>6 DEF InOrder
<1> QED
  BY <1>1, <1>3, <1>4, <1>5, <1>6, <1>7

\* A chunk that libcurl takes is still to be sent.
LEMMA TakeKeepsServer ==
  ASSUME TypeInv, ServerInv, CallbackTake, HandoffInv
  PROVE  ServerInv'
<1>1. /\ tpc = "cb_take" /\ tpc' \in {"curl_eof", "curl_send"}
      /\ UNCHANGED <<handle, told, pc, pos, server>>
  BY DEF CallbackTake, callVars, fileVars, serverVars
<1>2. Len(wire) = 0
  BY <1>1 DEF HandoffInv, ChunkInv
<1>3. Len(wire') + Len(stream_buf') = Len(stream_buf)
  <2>1. PICK n \in Nat : n = Len(stream_buf)
    BY ByteTypes
  <2>2. PICK k \in 0..n : k = IF CurlBuf < n THEN CurlBuf ELSE n
    BY ConstantsAssumption
  <2>3. wire' = SubSeq(stream_buf, 1, k) /\ stream_buf' = SubSeq(stream_buf, k + 1, n)
    BY <2>1, <2>2 DEF CallbackTake
  <2>4. Len(wire') = k /\ Len(stream_buf') = n - k
    BY <2>1, <2>3, ByteTypes, SubSeqProperties
  <2> QED
    BY <2>1, <2>4
<1>4. InOrder' <=> InOrder
  BY <1>1 DEF InOrder
<1> QED
  BY <1>1, <1>2, <1>3, <1>4, ByteTypes DEF ServerInv, CurlLabels, op

\* An upload that ends well leaves the beginning of what was accepted, even when the
\* server loses the end.
LEMMA EndKeepsServer ==
  ASSUME TypeInv, HandoffInv, ServerInv, CurlDone \/ CurlFails
  PROVE  ServerInv'
<1>1. /\ tpc' = "t_ready" /\ UNCHANGED <<handle, told, pc, pos>>
      /\ CurlDone => tpc = "curl_eof"
      /\ CurlFails => curl_res' = "failed"
  BY DEF CurlDone, CurlFails, callVars, fileVars
<1>2. CASE CurlFails
  BY <1>1, <1>2 DEF ServerInv, CurlLabels
<1>3. CASE CurlDone
  <2>1. PICK kept \in 0..Len(server) : server' = Part(server, 1, kept)
    BY <1>3, ByteTypes DEF CurlDone, Part
  <2>2. InOrder => InOrder'
    <3>1. Part(Bytes(0, Len(server)), 1, kept) = Bytes(0, kept)
      BY ByteTypes, BytesPart
    <3>2. Len(Bytes(0, kept)) = kept
      BY ByteTypes, BytesType
    <3> QED
      BY <2>1, <3>1, <3>2 DEF InOrder
  <2> QED
    BY <1>1, <1>3, <2>2 DEF ServerInv, CurlLabels, op
<1> QED
  BY <1>2, <1>3

-----------------------------------------------------------------------------
(* The invariant.                                                          *)

\* Nothing is accepted when the program starts.
LEMMA UploadInit == Init => UploadInv
<1> SUFFICES ASSUME Init PROVE UploadInv
  OBVIOUS
<1>1. ServeInv
  BY DEF Init, ServeInv, LabelInv, PlaceInv, op, Callers
<1>2. WireInv
  BY DEF Init, WireInv, CurlLabels
<1>3. ServerInv
  BY DEF Init, ServerInv
<1> QED
  BY <1>1, <1>2, <1>3 DEF UploadInv

\* Every step keeps the invariant.
LEMMA UploadStep ==
  ASSUME ~ConcurrentFlush, TypeInv, TypeInv', TokenInv, HandoffInv, UploadInv,
         [Next]_vars
  PROVE  UploadInv'
<1> USE DEF UploadInv
<1>1. ServeInv'
  BY LabelStep, PlaceStep DEF ServeInv
<1>2. WireInv'
  BY WireStep
<1>3. ServerInv'
  <2>1. ASSUME Arrival PROVE ServerInv'
    <3>1. BytesStay /\ UNCHANGED <<handle, tpc, curl_res>>
      BY <2>1 DEF Arrival, RequestOpen, RequestWrite, RequestTruncate, RequestSync,
         Request, BytesStay, fileVars, threadVars, serverVars
    <3>2. \/ handle = "closed"
          \/ (~told' => ~told) /\ op \in {"idle", op'}
      BY <2>1, ProtocolTypes DEF Arrival, RequestOpen, RequestWrite, RequestTruncate,
         RequestSync, Request, op, Callers
    <3> QED
      BY <3>1, <3>2, StayInOrder DEF ServerInv
  <2>2. ASSUME NEW c \in Callers, CallerStep(c) PROVE ServerInv'
    BY <2>2, CallerKeepsServer, OpenKeepsServer, AddKeepsServer, TruncateKeepsServer
  <2>3. ASSUME ThreadStep PROVE ServerInv'
    BY <2>3, ThreadKeepsServer, UploadKeepsServer, SendKeepsServer, TakeKeepsServer,
       EndKeepsServer
  <2>4. CASE UNCHANGED vars
    <3>1. BytesStay /\ UNCHANGED <<handle, told, pc, tpc, curl_res>>
      BY <2>4 DEF vars, callVars, fileVars, threadVars, serverVars, BytesStay
    <3> QED
      BY <3>1, StayInOrder DEF ServerInv, op
  <2> QED
    BY <2>1, <2>2, <2>3, <2>4 DEF Next, Crashed
<1> QED
  BY <1>1, <1>2, <1>3

AllInv == TypeInv /\ TokenInv /\ HandoffInv /\ UploadInv

\* The invariants of an upload hold together, for every size of write and of
\* libcurl's buffer and whatever fails.
THEOREM UploadInvariant ==
  ASSUME ~ConcurrentFlush
  PROVE  Spec => []AllInv
<1>1. Init => AllInv
  BY TypeInit, TokenInit, HandoffInit, UploadInit DEF AllInv
<1>2. AllInv /\ [Next]_vars => AllInv'
  BY TypeStep, TokenStep, HandoffStep, UploadStep DEF AllInv
<1> QED
  BY <1>1, <1>2, PTL DEF Spec

-----------------------------------------------------------------------------
(* What a flush promises.                                                  *)

\* The two places where ftpfs_flush returns success.
LEMMA ReturnOfSync ==
  ASSUME TypeInv, LabelInv, Next, NEW c \in Callers, call[c].op \in {"flush", "fsync"},
         pc[c] # "idle", pc'[c] = "idle", ret'[c] = "ok"
  PROVE  \/ SyncEnter(c) /\ ~write_conn
         \/ SizeCheck(c) /\ Len(server) = pos
<1>1. pc[c] \in {"s_enter", "f_size"} \union FinishLabels
  BY DEF LabelInv, OpLabels
<1>2. CallerStep(c)
  BY OwnStep
<1>3. pc \in [Callers -> CallerLabels] /\ ret \in [Callers -> {"none", "ok", "err"}]
  BY DEF TypeInv, CallInv, CallTypeOK
<1> QED
  BY <1>1, <1>2, <1>3
     DEF FinishLabels, CallerStep, OpenRefused, OpenAccepted, AwaitReady, OpenPost,
         WriteRefused, WriteStart, WriteIgnored, WriteContinue, WritePost,
         WriteNeed, WriteNonSequential, WriteAdd, WriteNoMemory, WriteCrash,
         WriteWritten, WriteCheck, FinishCheck, FinishNeed, FinishPost, FinishEof,
         FinishJoin, SyncEnter, SizeUnknown, SizeCheck, ReleaseFree,
         TruncateToZero, TruncateToSize, SyncReturn, Goto, Return

\* When it does, the file is what was accepted.
LEMMA SyncRight ==
  ASSUME AllInv, NEW c \in Callers, handle # "crashed",
         pc[c] \in {"s_enter", "f_size"},
         pc[c] = "s_enter" => ~write_conn,
         pc[c] = "f_size" => Len(server) = pos
  PROVE  told \/ pos = 0 \/ server = Bytes(0, pos)
<1>1. c = "op" /\ op = pc[c]
  BY DEF AllInv, TokenInv, ControlInv, Callers, op
<1>2. tpc = "none" /\ handle = "open"
  BY <1>1 DEF AllInv, TokenInv, ControlInv, TypeInv, FileTypeOK
<1>3. told \/ pos = 0 \/ (InOrder /\ Len(server) = pos)
  BY <1>1, <1>2, ByteTypes DEF AllInv, UploadInv, ServerInv, CurlLabels
<1> QED
  BY <1>3 DEF InOrder

\* A flush or fsync that reports success, on a handle that has not reported an
\* error, means the server holds exactly the accepted bytes, in order: whatever
\* libcurl cut short, the server lost or an earlier flush ended, and for every
\* number and size of writes.
THEOREM FlushesHonest ==
  ASSUME ~ConcurrentFlush
  PROVE  Spec => FlushHonest
<1>1. ASSUME AllInv, [Next]_vars
      PROVE  [\A c \in Callers :
                (/\ call[c].op \in {"flush", "fsync"}
                 /\ pc[c] # "idle" /\ pc'[c] = "idle" /\ ret'[c] = "ok")
                   => told \/ pos = 0 \/ server = Bytes(0, pos)]_vars
  <2> SUFFICES ASSUME NEW c \in Callers, call[c].op \in {"flush", "fsync"},
                      pc[c] # "idle", pc'[c] = "idle", ret'[c] = "ok"
               PROVE  told \/ pos = 0 \/ server = Bytes(0, pos)
    OBVIOUS
  <2>1. Next
    BY <1>1 DEF vars, callVars
  <2>2. \/ SyncEnter(c) /\ ~write_conn
        \/ SizeCheck(c) /\ Len(server) = pos
    BY <1>1, <2>1, ReturnOfSync DEF AllInv, UploadInv, ServeInv
  <2>3. handle # "crashed"
    BY <2>1 DEF Next, Arrival, CallerStep, ThreadStep, Crashed, vars, callVars
  <2> QED
    BY <1>1, <2>2, <2>3, SyncRight DEF SyncEnter, SizeCheck
<1> QED
  BY <1>1, UploadInvariant, PTL DEF Spec, FlushHonest

-----------------------------------------------------------------------------
(* StreamWrite implements Upload.                                          *)

\* Steps that Upload does not see.
Unseen == UNCHANGED <<call, ret, told, pos, write_conn, server>>

\* A call that returns is answered.
LEMMA ReturnAnswers ==
  ASSUME LabelInv, NEW c \in Callers, NEW result, pc[c] # "idle", Return(c, result)
  PROVE  Uploads!Answer(c, result)
BY DEF LabelInv, Return, Uploads!Answer

\* A request arrives in both specifications.
LEMMA RequestImplements ==
  ASSUME AllInv, Arrival
  PROVE  \E c \in Callers : Uploads!Request(c)
<1>1. ASSUME NEW c \in Callers, NEW request, NEW label, request # NoCall,
             Request(c, request, label)
      PROVE  Uploads!Request(c)
  <2>1. call \in [Callers -> Requests] /\ call[c] = NoCall
    BY <1>1 DEF AllInv, TypeInv, CallInv, CallTypeOK, UploadInv, ServeInv, LabelInv,
       Request
  <2>2. call'[c] = request /\ call' = [call EXCEPT ![c] = call'[c]]
    BY <1>1, <2>1 DEF Request
  <2> QED
    BY <1>1, <2>1, <2>2 DEF Request, Uploads!Request, fileVars, serverVars
<1>2. CASE RequestOpen
  BY <1>1, <1>2 DEF RequestOpen, NoCall, Callers
<1>3. CASE RequestWrite
  BY <1>1, <1>3 DEF RequestWrite, NoCall, Callers
<1>4. CASE RequestTruncate
  BY <1>1, <1>4 DEF RequestTruncate, NoCall, Callers
<1>5. ASSUME NEW c \in Callers, RequestSync(c)
      PROVE  \E d \in Callers : Uploads!Request(d)
  BY <1>1, <1>5 DEF RequestSync, NoCall
<1> QED
  BY <1>2, <1>3, <1>4, <1>5 DEF Arrival

\* ftpfs_open_common begins again with nothing accepted.
LEMMA OpenImplements ==
  ASSUME AllInv, NEW c \in Callers,
         OpenRefused(c) \/ OpenAccepted(c) \/ OpenPost(c)
  PROVE  Uploads!Open(c)
<1>1. pc[c] \in {"o_enter", "o_post"} /\ call[c].op = "open"
  BY DEF OpenRefused, OpenAccepted, OpenPost, AllInv, UploadInv, ServeInv, LabelInv,
         OpLabels, WriteLabels, FinishLabels
<1>2. CASE OpenRefused(c)
  <2>1. Uploads!Answer(c, "err") /\ UNCHANGED <<pos, write_conn, server>>
    BY <1>1, <1>2, ReturnAnswers
       DEF OpenRefused, fileVars, serverVars, AllInv, UploadInv, ServeInv
  <2> QED
    BY <1>1, <2>1 DEF Uploads!Open, AllInv, TypeInv, FileTypeOK
<1>3. CASE OpenAccepted(c)
  <2>1. pos' = 0 /\ UNCHANGED server
    BY <1>3 DEF OpenAccepted, serverVars
  <2>2. \/ Goto(c, "o_ready") /\ write_conn'
        \/ Return(c, "ok") /\ write_conn' = FALSE
        \/ Return(c, "err") /\ write_conn' \in BOOLEAN
    BY <1>3 DEF OpenAccepted, start_write_thread
  <2>3. \/ UNCHANGED <<call, ret, told>> /\ write_conn'
        \/ Uploads!Answer(c, "ok") /\ write_conn' = FALSE
        \/ Uploads!Answer(c, "err") /\ write_conn' \in BOOLEAN
    BY <1>1, <2>2, ReturnAnswers DEF Goto, AllInv, UploadInv, ServeInv
  <2> QED
    BY <1>1, <2>1, <2>3 DEF Uploads!Open
<1>4. CASE OpenPost(c)
  <2>1. Uploads!Answer(c, "ok") /\ UNCHANGED <<pos, write_conn, server>>
    BY <1>1, <1>4, ReturnAnswers
       DEF OpenPost, fileVars, serverVars, AllInv, UploadInv, ServeInv
  <2>2. c = "op" /\ pos = 0
    BY <1>4 DEF OpenPost, AllInv, TokenInv, ControlInv, Callers, UploadInv, ServeInv,
       PlaceInv, op
  <2> QED
    BY <1>1, <2>1, <2>2 DEF Uploads!Open
<1> QED
  BY <1>2, <1>3, <1>4

\* buf_add_mem accepts a write.
LEMMA AddImplements ==
  ASSUME AllInv, NEW c \in Callers, WriteAdd(c)
  PROVE  Uploads!Accept(c)
<1>1. c = "op" /\ op = "w_add"
  BY DEF WriteAdd, AllInv, TokenInv, ControlInv, Callers, op
<1>2. write_conn
  BY <1>1 DEF AllInv, TokenInv, ControlInv, UploadingLabels
<1> QED
  BY <1>2 DEF WriteAdd, Goto, serverVars, Uploads!Accept, AllInv, TypeInv, CallInv,
     WriteLabels

\* The write that reports success at its end has been accepted; the one that
\* falls through is not at the end of what was, and no upload runs.
LEMMA WriteImplements ==
  ASSUME AllInv, NEW c \in Callers,
         \/ WriteRefused(c) \/ WriteIgnored(c) \/ WriteNoMemory(c) \/ WriteCheck(c)
         \/ WriteStart(c) \/ (FinishJoin(c) /\ call[c].op = "write")
  PROVE  Uploads!AnswerWrite(c) \/ Uploads!Start(c)
<1>1. /\ pc[c] # "idle" /\ call[c].op = "write" /\ UNCHANGED <<pos, server>>
      /\ write_conn \in BOOLEAN
  BY DEF WriteRefused, WriteIgnored, WriteNoMemory, WriteCheck, WriteStart, FinishJoin,
         AllInv, TypeInv, CallInv, WriteLabels, FileTypeOK, fileVars, serverVars
<1>2. \/ Return(c, "err") /\ write_conn' \in BOOLEAN
      \/ /\ Return(c, "ok") /\ UNCHANGED write_conn
         /\ WriteIgnored(c) \/ WriteCheck(c)
      \/ Goto(c, "w_ready") /\ ~write_conn /\ write_conn' /\ call[c].offset = pos
  BY <1>1 DEF WriteRefused, WriteIgnored, WriteNoMemory, WriteCheck, WriteStart,
     FinishJoin, start_write_thread, fileVars
<1>3. WriteIgnored(c) => ~write_conn /\ pos # call[c].offset
  BY DEF WriteIgnored
<1>4. WriteCheck(c) => write_conn /\ pos = call[c].offset + call[c].size
  BY DEF WriteCheck, AllInv, TokenInv, ControlInv, Callers, UploadInv, ServeInv,
         PlaceInv, UploadingLabels, op
<1>5. \/ Uploads!Answer(c, "err") /\ write_conn' \in BOOLEAN
      \/ /\ Uploads!Answer(c, "ok") /\ UNCHANGED write_conn
         /\ WriteIgnored(c) \/ WriteCheck(c)
      \/ /\ UNCHANGED <<call, ret, told>>
         /\ ~write_conn /\ write_conn' /\ call[c].offset = pos
  BY <1>1, <1>2, ReturnAnswers DEF Goto, AllInv, UploadInv, ServeInv
<1> QED
  BY <1>1, <1>3, <1>4, <1>5 DEF Uploads!AnswerWrite, Uploads!Start

\* A flush or fsync promises no more than the file holds.
LEMMA SyncImplements ==
  ASSUME AllInv, NEW c \in Callers, handle # "crashed",
         \/ SyncEnter(c) \/ SizeUnknown(c) \/ SizeCheck(c)
         \/ (FinishJoin(c) /\ call[c].op # "write")
  PROVE  Uploads!AnswerSync(c) \/ Uploads!Stop(c) \/ Unseen
<1>1. /\ pc[c] \in {"s_enter", "f_size", "f_join"}
      /\ call[c].op \in {"release"} \/ call[c].op \in {"flush", "fsync"}
      /\ UNCHANGED <<pos, server>>
  <2>1. /\ pc[c] \in {"s_enter", "f_size", "f_join"}
        /\ pc[c] = "f_join" => call[c].op # "write"
        /\ UNCHANGED <<pos, server>>
    BY DEF SyncEnter, SizeUnknown, SizeCheck, FinishJoin, fileVars, serverVars
  <2>2. call[c] # NoCall /\ pc[c] \in OpLabels(call[c].op)
    BY <2>1 DEF AllInv, UploadInv, ServeInv, LabelInv
  <2>3. call[c].op \in {"open", "write", "ftruncate", "flush", "fsync", "release"}
    BY <2>2 DEF AllInv, TypeInv, CallInv, CallTypeOK, Requests, NoCall
  <2> QED
    BY <2>1, <2>2, <2>3 DEF OpLabels, WriteLabels, FinishLabels
<1>2. c = "op" /\ op = pc[c]
  BY <1>1 DEF AllInv, TokenInv, ControlInv, Callers, op
<1>3. /\ pc[c] = "f_join" => write_conn
      /\ pc[c] = "f_size" => ~write_conn
      /\ write_conn \in BOOLEAN
  BY <1>2 DEF AllInv, TokenInv, ControlInv, UploadingLabels, TypeInv, FileTypeOK
<1>4. \/ (\E label : Goto(c, label)) /\ UNCHANGED write_conn
      \/ (\E label : Goto(c, label)) /\ write_conn /\ ~write_conn'
      \/ Return(c, "err") /\ call[c].op # "release" /\ ~write_conn'
      \/ /\ Return(c, "ok") /\ call[c].op # "release" /\ ~write_conn'
         /\ pc[c] \in {"s_enter", "f_size"}
         /\ pc[c] = "s_enter" => ~write_conn
         /\ pc[c] = "f_size" => Len(server) = pos
  <2>1. CASE SyncEnter(c)
    BY <1>3, <2>1 DEF SyncEnter, SyncReturn, fileVars
  <2>2. CASE SizeUnknown(c)
    BY <1>3, <2>2 DEF SizeUnknown, SyncReturn, fileVars
  <2>3. CASE SizeCheck(c)
    BY <1>3, <2>3 DEF SizeCheck, SyncReturn, fileVars
  <2>4. CASE FinishJoin(c) /\ call[c].op # "write"
    BY <1>3, <2>4 DEF FinishJoin, SyncReturn
  <2> QED
    BY <2>1, <2>2, <2>3, <2>4
<1>5. \/ UNCHANGED <<call, ret, told, write_conn>>
      \/ UNCHANGED <<call, ret, told>> /\ write_conn /\ ~write_conn'
      \/ Uploads!Answer(c, "err") /\ call[c].op # "release" /\ ~write_conn'
      \/ /\ Uploads!Answer(c, "ok") /\ call[c].op # "release" /\ ~write_conn'
         /\ told \/ pos = 0 \/ server = Bytes(0, pos)
  BY <1>1, <1>4, ReturnAnswers, SyncRight DEF Goto, AllInv, UploadInv, ServeInv
<1> QED
  BY <1>1, <1>5 DEF Uploads!AnswerSync, Uploads!Stop, Uploads!Bytes, Bytes, Unseen

\* ftpfs_ftruncate reports success for the size the file has.
LEMMA TruncateImplements ==
  ASSUME AllInv, NEW c \in Callers, TruncateToZero(c) \/ TruncateToSize(c)
  PROVE  Uploads!AnswerTruncate(c)
<1>1. /\ pc[c] = "t_enter" /\ call[c].op = "ftruncate"
      /\ UNCHANGED <<pos, write_conn>>
  BY DEF TruncateToZero, TruncateToSize, AllInv, UploadInv, ServeInv, LabelInv,
         OpLabels, WriteLabels, FinishLabels, fileVars
<1>2. ret \in [Callers -> {"none", "ok", "err"}]
  BY DEF AllInv, TypeInv, CallInv, CallTypeOK
<1>3. PICK result \in {"ok", "err"} :
        /\ Return(c, result)
        /\ \/ call[c].offset = 0 /\ pos = 0 /\ server' = <<>>
           \/ UNCHANGED server
        /\ result = "ok" => Len(server') = call[c].offset
  BY DEF TruncateToZero, TruncateToSize, serverVars
<1>4. Uploads!Answer(c, result) /\ ret'[c] = result
  BY <1>1, <1>2, <1>3, ReturnAnswers DEF Return, AllInv, UploadInv, ServeInv
<1> QED
  BY <1>1, <1>3, <1>4 DEF Uploads!AnswerTruncate

\* ftpfs_release is answered with success.
LEMMA ReleaseImplements ==
  ASSUME AllInv, NEW c \in Callers, ReleaseFree(c)
  PROVE  Uploads!Release(c)
<1>1. /\ pc[c] = "r_free" /\ Return(c, "ok") /\ ~write_conn'
      /\ UNCHANGED <<pos, server>>
  BY DEF ReleaseFree, serverVars
<1>2. call[c].op = "release"
  BY <1>1 DEF AllInv, UploadInv, ServeInv, LabelInv, OpLabels, WriteLabels, FinishLabels
<1> QED
  BY <1>1, <1>2, ReturnAnswers DEF Uploads!Release, AllInv, UploadInv, ServeInv

\* What libcurl sends is the bytes that follow, unless an error was reported; the
\* bytes of the chunk are accepted ones in any case.
LEMMA SendImplements ==
  ASSUME AllInv, handle # "crashed", tpc = "curl_send", CurlSend \/ CurlFails
  PROVE  Uploads!Grow
<1>1. /\ tpc \in CurlLabels \ {"t_start"} /\ write_conn
      /\ UNCHANGED <<call, ret, told, pos, write_conn>>
  BY DEF CurlSend, CurlFails, CurlLabels, callVars, fileVars, AllInv, TokenInv,
         ControlInv
<1>2. PICK n \in Nat, m \in Nat, l \in Nat :
        n = Len(stream_buf) /\ m = Len(wire) /\ l = Len(server)
  BY ByteTypes DEF AllInv
<1>3. n + m <= pos /\ wire = Bytes(pos - n - m, m) /\ pos \in Nat
  BY <1>1, <1>2, ByteTypes DEF AllInv, UploadInv, WireInv
<1>4. PICK from \in Nat : from = pos - n - m
  <2>1. n + m <= pos /\ pos \in Nat
    BY <1>3
  <2> QED
    BY <2>1
<1>5. PICK k \in 0..m : server' = server \o Part(wire, 1, k)
  <2>1. CASE CurlFails
    BY <1>2, <2>1 DEF CurlFails, Part
  <2>2. CASE CurlSend
    <3>1. m \in 0..m
      OBVIOUS
    <3>2. Part(wire, 1, m) = wire
      BY <1>3, <1>4, <3>1, BytesPart
    <3>3. server' = server \o Part(wire, 1, m)
      BY <2>2, <3>2 DEF CurlSend
    <3> QED
      BY <3>1, <3>3
  <2> QED
    BY <2>1, <2>2
<1>6. Part(wire, 1, k) = Bytes(from, k)
  BY <1>3, <1>4, BytesPart
<1>7. from \in 0..pos /\ k \in 0..pos /\ from + k <= pos
  <2>1. n + m <= pos /\ pos \in Nat
    BY <1>3
  <2> QED
    BY <1>4, <2>1
<1>8. told \/ from = l
  <2>1. handle = "open" /\ op # "r_free"
    BY <1>1 DEF AllInv, TokenInv, ControlInv, TypeInv, FileTypeOK, CurlLabels
  <2>2. told \/ l + m + n = pos
    BY <1>1, <1>2, <2>1 DEF AllInv, UploadInv, ServerInv
  <2>3. l + m + n = pos => pos - n - m = l
    BY <1>3
  <2> QED
    BY <1>4, <2>2, <2>3
<1>9. server' = server \o Uploads!Bytes(from, k)
  BY <1>5, <1>6 DEF Uploads!Bytes, Bytes
<1> QED
  BY <1>1, <1>2, <1>7, <1>8, <1>9 DEF Uploads!Grow

\* What libcurl does to the file is to empty it, let it grow or lose its end.
LEMMA CurlImplements ==
  ASSUME AllInv, handle # "crashed",
         ThreadUpload \/ CurlSend \/ CurlFails \/ CurlDone
  PROVE  Uploads!Begin \/ Uploads!Grow \/ Uploads!Lose \/ Unseen
<1>1. write_conn /\ UNCHANGED <<call, ret, told, pos, write_conn>>
  BY DEF ThreadUpload, CurlSend, CurlFails, CurlDone, callVars, fileVars, AllInv,
         TokenInv, ControlInv
<1>2. CASE ThreadUpload
  BY <1>1, <1>2, ByteTypes DEF ThreadUpload, Uploads!Begin, Unseen, AllInv
<1>3. CASE CurlSend \/ (CurlFails /\ tpc = "curl_send")
  BY <1>3, SendImplements DEF CurlSend
<1>4. CASE CurlFails /\ tpc # "curl_send"
  <2>1. wire = <<>>
    BY <1>4 DEF AllInv, HandoffInv, ChunkInv
  <2>2. PICK sent \in 0..Len(wire) : server' = server \o Part(wire, 1, sent)
    BY <1>4 DEF CurlFails, Part
  <2>3. Part(<<>>, 1, 0) = <<>>
    BY DEF Part
  <2>4. sent = 0
    BY <2>1, EmptySeq
  <2> QED
    BY <1>1, <2>1, <2>2, <2>3, <2>4, ByteTypes, ConcatEmptySeq DEF Unseen, AllInv
<1>5. CASE CurlDone
  BY <1>1, <1>5, ByteTypes DEF CurlDone, Uploads!Lose, AllInv
<1> QED
  BY <1>2, <1>3, <1>4, <1>5

\* The semaphores, the flags and the buffer are not part of Upload.
LEMMA OtherStepsUnseen ==
  ASSUME NEW c \in Callers,
         \/ AwaitReady(c) \/ WriteContinue(c) \/ WritePost(c) \/ WriteNeed(c)
         \/ WriteNonSequential(c) \/ WriteCrash(c) \/ WriteWritten(c)
         \/ FinishCheck(c) \/ FinishNeed(c) \/ FinishPost(c) \/ FinishEof(c)
         \/ CallbackReady \/ CallbackWritten \/ CallbackWait \/ CallbackEof
         \/ CallbackTake \/ ThreadReady \/ ThreadCause \/ ThreadNeed \/ ThreadWritten
         \/ UNCHANGED vars
  PROVE  Unseen
BY DEF AwaitReady, WriteContinue, WritePost, WriteNeed, WriteNonSequential, WriteCrash,
       WriteWritten, FinishCheck, FinishNeed, FinishPost, FinishEof, CallbackReady,
       CallbackWritten, CallbackWait, CallbackEof, CallbackTake, ThreadReady,
       ThreadCause, ThreadNeed, ThreadWritten, vars, Goto, callVars, fileVars,
       serverVars, Unseen

\* Every step of StreamWrite is a step of Upload or one that it does not see.
LEMMA StepImplements ==
  ASSUME AllInv, [Next]_vars
  PROVE  [Uploads!Next]_(Uploads!vars)
<1>1. CASE Arrival
  BY <1>1, RequestImplements DEF Uploads!Next
<1>2. ASSUME NEW c \in Callers, CallerStep(c)
      PROVE  [Uploads!Next]_(Uploads!vars)
  <2>1. \/ Uploads!Open(c) \/ Uploads!Accept(c) \/ Uploads!AnswerWrite(c)
        \/ Uploads!Start(c) \/ Uploads!Stop(c)
        \/ Uploads!AnswerSync(c) \/ Uploads!AnswerTruncate(c) \/ Uploads!Release(c)
        \/ Unseen
    BY <1>2, OpenImplements, AddImplements, WriteImplements, SyncImplements,
       TruncateImplements, ReleaseImplements, OtherStepsUnseen DEF CallerStep
  <2> QED
    BY <2>1 DEF Uploads!Next, Uploads!vars, Unseen
<1>3. ASSUME ThreadStep \/ Crashed \/ UNCHANGED vars
      PROVE  [Uploads!Next]_(Uploads!vars)
  <2>1. "op" \in Callers
    BY DEF Callers
  <2>2. Uploads!Begin \/ Uploads!Grow \/ Uploads!Lose \/ Unseen
    BY <1>3, <2>1, CurlImplements, OtherStepsUnseen DEF ThreadStep, Crashed
  <2> QED
    BY <2>2 DEF Uploads!Next, Uploads!vars, Unseen
<1> QED
  BY <1>1, <1>2, <1>3 DEF Next

\* The upload, with its thread, its semaphores and its buffer, implements the
\* handle of Upload: the file grows by accepted bytes, each at its place, and no
\* answer promises more than the file holds, until an error has been reported.
THEOREM StreamImplementsUpload ==
  ASSUME ~ConcurrentFlush
  PROVE  Spec => ImplementsUpload
<1>1. Init => Uploads!Init
  BY DEF Init, Uploads!Init
<1>2. AllInv /\ [Next]_vars => [Uploads!Next]_(Uploads!vars)
  BY StepImplements
<1> QED
  BY <1>1, <1>2, UploadInvariant, PTL DEF Spec, ImplementsUpload, Uploads!Spec
=============================================================================
