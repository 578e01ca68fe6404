------------------------- MODULE StreamWriteProofs -------------------------
(***************************************************************************)
(* Proofs about the streaming upload of StreamWrite.                       *)
(***************************************************************************)
EXTENDS StreamWrite, SequenceTheorems, TLAPS

\* A caller inside ftpfs_write serves a write request.
WriteLabels ==
  {"w_enter", "w_ready", "w_post", "w_need", "w_add", "w_written", "w_check"}

CallInv ==
  /\ CallTypeOK
  /\ \A c \in Callers : pc[c] \in WriteLabels => call[c].op = "write"

TypeInv == CallInv /\ FileTypeOK /\ SharedTypeOK /\ ThreadTypeOK

-----------------------------------------------------------------------------
(* The operators the model is built from.                                  *)

\* The requests a caller may be given.
LEMMA RequestTypes ==
  /\ NoCall \in Requests
  /\ \A flags \in SUBSET OpenFlags :
       [op |-> "open", flags |-> flags] \in Requests
  /\ \A offset \in Nat, size \in Nat \ {0} :
       [op |-> "write", offset |-> offset, size |-> size] \in Requests
  /\ \A offset \in Nat : [op |-> "ftruncate", offset |-> offset] \in Requests
  /\ \A op \in {"flush", "fsync", "release"} : [op |-> op] \in Requests
BY DEF Requests

\* A write request carries an offset and a size that is not 0.
LEMMA WriteRequest ==
  ASSUME NEW r \in Requests, r.op = "write"
  PROVE  r.offset \in Nat /\ r.size \in Nat \ {0}
BY DEF Requests, NoCall

\* The chunk of a write is a sequence of bytes of the size asked for.
LEMMA BytesType ==
  ASSUME NEW from \in Nat, NEW size \in Nat
  PROVE  Bytes(from, size) \in Seq(Nat) /\ Len(Bytes(from, size)) = size
BY DEF Bytes

\* The size buf_resize records is a natural number.
LEMMA ResizedType ==
  ASSUME SharedTypeOK, NEW size \in Nat
  PROVE  Resized(size) \in Nat
<1>1. Len(stream_buf) + size + 2 * Round - 1 \in Nat
  BY ConstantsAssumption DEF SharedTypeOK
<1>2. (Len(stream_buf) + size + 2 * Round - 1) \div Round \in Nat
  BY <1>1, ConstantsAssumption, SMT
<1> QED
  BY <1>2, ConstantsAssumption, SMT DEF Resized

\* Rounded up to a multiple of Round, a number is not made smaller.
LEMMA RoundUp ==
  ASSUME NEW n \in Nat, NEW r \in Nat \ {0}
  PROVE  n <= ((n + 2 * r - 1) \div r) * r
<1> DEFINE m == n + 2 * r - 1
           q == m \div r
<1>1. m \in Nat /\ r \in Nat /\ r > 0
  OBVIOUS
<1> HIDE DEF m
<1>2. m = r * q + (m % r) /\ m % r < r /\ 0 <= m % r /\ q \in Nat
  BY <1>1, SMT
<1> HIDE DEF q
<1>3. m < r * q + r
  <2> DEFINE p == r * q
             k == m % r
  <2>1. p \in Nat /\ k \in Int
    BY <1>1, <1>2, SMT
  <2>2. m = p + k /\ k < r
    BY <1>2
  <2> HIDE DEF p, k
  <2>3. m < p + r
    BY <1>1, <2>1, <2>2
  <2> QED
    BY <2>3 DEF p
<1>4. n + 2 * r - 1 < r * q + r
  BY <1>3 DEF m
<1>5. r * q = q * r /\ q * r \in Nat
  BY <1>1, <1>2, SMT
<1>6. n <= q * r
  <2> DEFINE p == q * r
  <2>1. n + 2 * r - 1 < p + r /\ p \in Nat
    BY <1>4, <1>5
  <2> HIDE DEF p
  <2>2. n <= p
    BY <2>1
  <2> QED
    BY <2>2 DEF p
<1> QED
  BY <1>6 DEF q, m

\* The size buf_resize records holds what is there and the chunk to be added.
LEMMA ResizedFits ==
  ASSUME SharedTypeOK, NEW size \in Nat
  PROVE  Len(stream_buf) + size <= Resized(size)
<1>1. Len(stream_buf) + size \in Nat /\ Round \in Nat \ {0}
  BY ConstantsAssumption DEF SharedTypeOK
<1> QED
  BY <1>1, RoundUp DEF Resized

\* The sequences and semaphores the initial states and the resets name.
LEMMA Constants ==
  /\ <<>> \in Seq(Nat)
  /\ <<0>> \in Seq(Nat)
  /\ [s \in Sems |-> 0] \in [Sems -> Nat]
<1>1. <<>> \in Seq(Nat)
  BY EmptySeq
<1>2. <<0>> \in Seq(Nat)
  OBVIOUS
<1>3. [s \in Sems |-> 0] \in [Sems -> Nat]
  OBVIOUS
<1> QED
  BY <1>1, <1>2, <1>3

\* A part of a sequence of bytes is one.
LEMMA PartType ==
  ASSUME NEW s \in Seq(Nat), NEW m \in Nat, NEW n \in Nat,
         1 <= m, n <= Len(s)
  PROVE  SubSeq(s, m, n) \in Seq(Nat)
BY SubSeqProperties, LenProperties

\* A caller that moves on keeps its request.
LEMMA GotoInv ==
  ASSUME CallInv, NEW c \in Callers, NEW label \in CallerLabels,
         label \in WriteLabels => call[c].op = "write",
         Goto(c, label)
  PROVE  CallInv'
BY DEF CallInv, CallTypeOK, Goto

\* A call that returns leaves its caller idle.
LEMMA ReturnInv ==
  ASSUME CallInv, NEW c \in Callers, NEW result \in {"ok", "err"},
         Return(c, result)
  PROVE  CallInv'
BY RequestTypes DEF CallInv, CallTypeOK, Return, CallerLabels, WriteLabels

\* SyncReturn leaves its caller at r_free or idle, with the request it had.
LEMMA SyncReturnInv ==
  ASSUME CallInv, NEW c \in Callers, NEW result \in {"ok", "err"},
         SyncReturn(c, result)
  PROVE  CallInv'
BY GotoInv, ReturnInv DEF SyncReturn, CallerLabels, WriteLabels

\* A new request puts its caller at the first line of the handler.
LEMMA RequestInv ==
  ASSUME TypeInv, NEW c \in Callers, NEW request \in Requests,
         NEW label \in CallerLabels,
         label \in WriteLabels => request.op = "write",
         Request(c, request, label)
  PROVE  TypeInv'
<1>1. CallInv'
  BY DEF TypeInv, CallInv, CallTypeOK, Request
<1> QED
  BY <1>1 DEF TypeInv, FileTypeOK, SharedTypeOK, ThreadTypeOK, Request,
              fileVars, flagVars, threadVars, serverVars

\* Posts and waits keep a semaphore a natural number.
LEMMA SemType ==
  ASSUME sem \in [Sems -> Nat], NEW s \in Sems, Post(s) \/ Wait(s)
  PROVE  sem' \in [Sems -> Nat]
BY DEF Post, Wait

-----------------------------------------------------------------------------
(* Type correctness.                                                       *)

\* The invariant holds when the program starts.
LEMMA TypeInit == Init => TypeInv
<1> SUFFICES ASSUME Init PROVE TypeInv
  OBVIOUS
<1>1. CallInv
  BY RequestTypes
     DEF Init, CallInv, CallTypeOK, Callers, CallerLabels, WriteLabels
<1>2. FileTypeOK
  BY DEF Init, FileTypeOK
<1>3. SharedTypeOK
  BY Constants DEF Init, SharedTypeOK
<1>4. ThreadTypeOK
  BY Constants DEF Init, ThreadTypeOK, ThreadLabels
<1> QED
  BY <1>1, <1>2, <1>3, <1>4 DEF TypeInv

\* Every step of Next keeps the types.
LEMMA TypeStep ==
  ASSUME TypeInv, [Next]_vars
  PROVE  TypeInv'
<1> USE DEF TypeInv, FileTypeOK, SharedTypeOK, ThreadTypeOK, Callers, Sems,
            fileVars, flagVars, threadVars, serverVars
<1>1. CASE RequestOpen
  BY <1>1, RequestTypes, RequestInv, ConstantsAssumption
     DEF RequestOpen, CallerLabels, WriteLabels
<1>2. CASE RequestWrite
  BY <1>2, RequestTypes, RequestInv, ConstantsAssumption
     DEF RequestWrite, CallerLabels, WriteLabels
<1>3. CASE RequestTruncate
  BY <1>3, RequestTypes, RequestInv, ConstantsAssumption
     DEF RequestTruncate, CallerLabels, WriteLabels
<1>4. ASSUME NEW c \in Callers, RequestSync(c) PROVE TypeInv'
  BY <1>4, RequestTypes, RequestInv DEF RequestSync, CallerLabels, WriteLabels
<1>5. ASSUME NEW c \in Callers, OpenRefused(c) PROVE TypeInv'
  <2>1. CallInv'
    BY <1>5, ReturnInv DEF OpenRefused, CallerLabels, WriteLabels
  <2> QED
    BY <1>5, <2>1 DEF OpenRefused
<1>6. ASSUME NEW c \in Callers, OpenAccepted(c) PROVE TypeInv'
  <2>1. CallInv'
    BY <1>6, ReturnInv, GotoInv DEF OpenAccepted, CallerLabels, WriteLabels
  <2>2. FileTypeOK'
    <3>1. write_conn' \in BOOLEAN
      BY <1>6 DEF OpenAccepted, start_write_thread
    <3> QED
      BY <1>6, <3>1 DEF OpenAccepted
  <2>3. SharedTypeOK'
    BY <1>6, Constants DEF OpenAccepted, start_write_thread
  <2>4. ThreadTypeOK'
    BY <1>6 DEF OpenAccepted, start_write_thread, ThreadLabels, CurlLabels
  <2> QED
    BY <2>1, <2>2, <2>3, <2>4
<1>7. ASSUME NEW c \in Callers, AwaitReady(c) PROVE TypeInv'
  <2>1. CallInv'
    BY <1>7, GotoInv DEF AwaitReady, CallerLabels, WriteLabels, CallInv
  <2> QED
    BY <1>7, <2>1, SemType DEF AwaitReady
<1>8. ASSUME NEW c \in Callers, OpenPost(c) PROVE TypeInv'
  <2>1. CallInv'
    BY <1>8, ReturnInv DEF OpenPost, CallerLabels, WriteLabels
  <2> QED
    BY <1>8, <2>1, SemType DEF OpenPost
<1>9. ASSUME NEW c \in Callers, WriteRefused(c) PROVE TypeInv'
  <2>1. CallInv'
    BY <1>9, ReturnInv DEF WriteRefused, CallerLabels, WriteLabels
  <2> QED
    BY <1>9, <2>1 DEF WriteRefused
<1>10. ASSUME NEW c \in Callers, WriteStart(c) PROVE TypeInv'
  <2>1. CallInv'
    BY <1>10, ReturnInv, GotoInv DEF WriteStart, CallerLabels, WriteLabels, CallInv
  <2>2. FileTypeOK'
    BY <1>10 DEF WriteStart, start_write_thread
  <2>3. SharedTypeOK'
    BY <1>10, Constants DEF WriteStart, start_write_thread
  <2>4. ThreadTypeOK'
    BY <1>10 DEF WriteStart, start_write_thread, ThreadLabels, CurlLabels
  <2> QED
    BY <2>1, <2>2, <2>3, <2>4
<1>11. ASSUME NEW c \in Callers, WriteIgnored(c) PROVE TypeInv'
  <2>1. CallInv'
    BY <1>11, ReturnInv DEF WriteIgnored, CallerLabels, WriteLabels
  <2> QED
    BY <1>11, <2>1 DEF WriteIgnored
<1>12. ASSUME NEW c \in Callers, WriteContinue(c) PROVE TypeInv'
  <2>1. CallInv'
    BY <1>12, GotoInv DEF WriteContinue, CallerLabels, WriteLabels, CallInv
  <2> QED
    BY <1>12, <2>1 DEF WriteContinue
<1>13. ASSUME NEW c \in Callers, WritePost(c) PROVE TypeInv'
  <2>1. CallInv'
    BY <1>13, GotoInv DEF WritePost, CallerLabels, WriteLabels, CallInv
  <2> QED
    BY <1>13, <2>1, SemType DEF WritePost
<1>14. ASSUME NEW c \in Callers, WriteNeed(c) PROVE TypeInv'
  <2>1. CallInv'
    BY <1>14, GotoInv DEF WriteNeed, CallerLabels, WriteLabels, CallInv
  <2> QED
    BY <1>14, <2>1, SemType DEF WriteNeed
<1>15. ASSUME NEW c \in Callers, WriteNonSequential(c) PROVE TypeInv'
  <2>1. CallInv'
    BY <1>15, GotoInv DEF WriteNonSequential, CallerLabels, WriteLabels
  <2> QED
    BY <1>15, <2>1, SemType DEF WriteNonSequential
<1>16. ASSUME NEW c \in Callers, WriteAdd(c) PROVE TypeInv'
  <2>1. CallInv'
    BY <1>16, GotoInv DEF WriteAdd, CallerLabels, WriteLabels, CallInv
  <2>2. call[c].size \in Nat
    BY <1>16, WriteRequest DEF WriteAdd, CallInv, CallTypeOK, WriteLabels
  <2>3. Resized(call[c].size) \in Nat
    BY <2>2, ResizedType
  <2>4. stream_buf' \in Seq(Nat)
    BY <1>16, <2>2, BytesType, ConcatProperties DEF WriteAdd
  <2>5. sem' \in [Sems -> Nat]
    BY <1>16, SemType DEF WriteAdd
  <2>6. FileTypeOK'
    <3>1. buf_size' \in Nat
      BY <1>16, <2>3 DEF WriteAdd
    <3>2. buf_null' \in BOOLEAN
      BY <1>16 DEF WriteAdd
    <3>3. pos' \in Nat
      BY <1>16, <2>2 DEF WriteAdd
    <3> QED
      BY <1>16, <3>1, <3>2, <3>3 DEF WriteAdd
  <2>7. SharedTypeOK'
    BY <1>16, <2>4, <2>5 DEF WriteAdd
  <2> QED
    BY <1>16, <2>1, <2>6, <2>7 DEF WriteAdd
<1>17. ASSUME NEW c \in Callers, WriteNoMemory(c) PROVE TypeInv'
  <2>1. CallInv'
    BY <1>17, ReturnInv DEF WriteNoMemory, CallerLabels, WriteLabels
  <2>2. call[c].size \in Nat
    BY <1>17, WriteRequest DEF WriteNoMemory, CallInv, CallTypeOK, WriteLabels
  <2>3. Resized(call[c].size) \in Nat
    BY <2>2, ResizedType
  <2>4. sem' \in [Sems -> Nat]
    BY <1>17, SemType DEF WriteNoMemory
  <2> QED
    BY <1>17, <2>1, <2>3, <2>4 DEF WriteNoMemory
<1>18. ASSUME NEW c \in Callers, WriteCrash(c) PROVE TypeInv'
  BY <1>18 DEF WriteCrash, callVars, CallInv, CallTypeOK
<1>19. ASSUME NEW c \in Callers, WriteWritten(c) PROVE TypeInv'
  <2>1. CallInv'
    BY <1>19, GotoInv DEF WriteWritten, CallerLabels, WriteLabels, CallInv
  <2> QED
    BY <1>19, <2>1, SemType DEF WriteWritten
<1>20. ASSUME NEW c \in Callers, WriteCheck(c) PROVE TypeInv'
  <2>1. CallInv'
    BY <1>20, ReturnInv DEF WriteCheck, CallerLabels, WriteLabels
  <2> QED
    BY <1>20, <2>1 DEF WriteCheck
<1>21. ASSUME NEW c \in Callers, FinishCheck(c) PROVE TypeInv'
  <2>1. CallInv'
    BY <1>21, GotoInv DEF FinishCheck, CallerLabels, WriteLabels
  <2> QED
    BY <1>21, <2>1 DEF FinishCheck
<1>22. ASSUME NEW c \in Callers, FinishNeed(c) PROVE TypeInv'
  <2>1. CallInv'
    BY <1>22, GotoInv DEF FinishNeed, CallerLabels, WriteLabels
  <2> QED
    BY <1>22, <2>1, SemType DEF FinishNeed
<1>23. ASSUME NEW c \in Callers, FinishPost(c) PROVE TypeInv'
  <2>1. CallInv'
    BY <1>23, GotoInv DEF FinishPost, CallerLabels, WriteLabels
  <2> QED
    BY <1>23, <2>1, SemType DEF FinishPost
<1>24. ASSUME NEW c \in Callers, FinishEof(c) PROVE TypeInv'
  <2>1. CallInv'
    BY <1>24, GotoInv DEF FinishEof, CallerLabels, WriteLabels
  <2> QED
    BY <1>24, <2>1 DEF FinishEof
<1>25. ASSUME NEW c \in Callers, FinishJoin(c) PROVE TypeInv'
  <2>1. CallInv'
    BY <1>25, ReturnInv, GotoInv, SyncReturnInv DEF FinishJoin, CallerLabels, WriteLabels
  <2> QED
    BY <1>25, <2>1 DEF FinishJoin, ThreadLabels
<1>26. ASSUME NEW c \in Callers, SyncEnter(c) PROVE TypeInv'
  <2>1. CallInv'
    BY <1>26, GotoInv, SyncReturnInv DEF SyncEnter, CallerLabels, WriteLabels
  <2> QED
    BY <1>26, <2>1 DEF SyncEnter
<1>27. ASSUME NEW c \in Callers, SizeUnknown(c) PROVE TypeInv'
  <2>1. CallInv'
    BY <1>27, SyncReturnInv DEF SizeUnknown, CallerLabels, WriteLabels
  <2> QED
    BY <1>27, <2>1 DEF SizeUnknown
<1>28. ASSUME NEW c \in Callers, SizeCheck(c) PROVE TypeInv'
  <2>1. CallInv'
    BY <1>28, SyncReturnInv DEF SizeCheck, CallerLabels, WriteLabels
  <2> QED
    BY <1>28, <2>1 DEF SizeCheck
<1>29. ASSUME NEW c \in Callers, ReleaseFree(c) PROVE TypeInv'
  <2>1. CallInv'
    BY <1>29, ReturnInv DEF ReleaseFree, CallerLabels, WriteLabels
  <2> QED
    BY <1>29, <2>1 DEF ReleaseFree
<1>30. ASSUME NEW c \in Callers, TruncateToZero(c) PROVE TypeInv'
  <2>1. CallInv'
    BY <1>30, ReturnInv DEF TruncateToZero, CallerLabels, WriteLabels
  <2>2. FileTypeOK' /\ SharedTypeOK'
    BY <1>30 DEF TruncateToZero
  <2>3. ThreadTypeOK'
    BY <1>30, Constants DEF TruncateToZero
  <2> QED
    BY <2>1, <2>2, <2>3
<1>31. ASSUME NEW c \in Callers, TruncateToSize(c) PROVE TypeInv'
  <2>1. CallInv'
    BY <1>31, ReturnInv DEF TruncateToSize, CallerLabels, WriteLabels
  <2> QED
    BY <1>31, <2>1 DEF TruncateToSize
<1>32. CASE ThreadUpload
  <2>1. CallInv'
    BY <1>32 DEF ThreadUpload, callVars, CallInv, CallTypeOK
  <2> QED
    BY <1>32, <2>1 DEF ThreadUpload, ThreadLabels, CurlLabels
<1>33. CASE CurlFails
  <2>1. CallInv'
    BY <1>33 DEF CurlFails, callVars, CallInv, CallTypeOK
  <2>2. server' \in Seq(Nat)
    BY <1>33, SubSeqProperties, ConcatProperties DEF CurlFails
  <2> QED
    BY <1>33, <2>1, <2>2 DEF CurlFails, ThreadLabels, CurlLabels
<1>34. CASE CurlSend
  <2>1. CallInv'
    BY <1>34 DEF CurlSend, callVars, CallInv, CallTypeOK
  <2>2. server' \in Seq(Nat)
    BY <1>34, ConcatProperties DEF CurlSend
  <2> QED
    BY <1>34, <2>1, <2>2 DEF CurlSend, ThreadLabels, CurlLabels
<1>35. CASE CurlDone
  <2>1. CallInv'
    BY <1>35 DEF CurlDone, callVars, CallInv, CallTypeOK
  <2>2. server' \in Seq(Nat)
    BY <1>35, SubSeqProperties DEF CurlDone
  <2> QED
    BY <1>35, <2>1, <2>2 DEF CurlDone, ThreadLabels, CurlLabels
<1>36. CASE CallbackReady
  <2>1. CallInv'
    BY <1>36 DEF CallbackReady, callVars, CallInv, CallTypeOK
  <2> QED
    BY <1>36, <2>1, SemType DEF CallbackReady, ThreadLabels, CurlLabels
<1>37. CASE CallbackWritten
  <2>1. CallInv'
    BY <1>37 DEF CallbackWritten, callVars, CallInv, CallTypeOK
  <2> QED
    BY <1>37, <2>1, SemType DEF CallbackWritten, ThreadLabels, CurlLabels
<1>38. CASE CallbackWait
  <2>1. CallInv'
    BY <1>38 DEF CallbackWait, callVars, CallInv, CallTypeOK
  <2> QED
    BY <1>38, <2>1, SemType DEF CallbackWait, ThreadLabels, CurlLabels
<1>39. CASE CallbackEof
  <2>1. CallInv'
    BY <1>39 DEF CallbackEof, callVars, CallInv, CallTypeOK
  <2> QED
    BY <1>39, <2>1 DEF CallbackEof, ThreadLabels, CurlLabels
<1>40. CASE CallbackTake
  <2>1. CallInv'
    BY <1>40 DEF CallbackTake, callVars, CallInv, CallTypeOK
  <2>2. wire' \in Seq(Nat) /\ stream_buf' \in Seq(Nat)
    <3> DEFINE to_copy == IF CurlBuf < Len(stream_buf) THEN CurlBuf
                                                       ELSE Len(stream_buf)
    <3>1. /\ wire' = SubSeq(stream_buf, 1, to_copy)
          /\ stream_buf' = SubSeq(stream_buf, to_copy + 1, Len(stream_buf))
      BY <1>40 DEF CallbackTake
    <3>2. Len(stream_buf) \in Nat /\ CurlBuf \in Nat
      BY ConstantsAssumption
    <3>3. to_copy \in Nat /\ to_copy <= Len(stream_buf)
      BY <3>2
    <3> HIDE DEF to_copy
    <3>4. to_copy + 1 \in Nat /\ 1 <= to_copy + 1 /\ 1 \in Nat /\ 1 <= 1
            /\ Len(stream_buf) <= Len(stream_buf)
      BY <3>2, <3>3
    <3>5. SubSeq(stream_buf, 1, to_copy) \in Seq(Nat)
      BY <3>3, <3>4, PartType
    <3>6. SubSeq(stream_buf, to_copy + 1, Len(stream_buf)) \in Seq(Nat)
      BY <3>2, <3>4, PartType
    <3> QED
      BY <3>1, <3>5, <3>6
  <2>3. sem' \in [Sems -> Nat]
    BY <1>40, SemType DEF CallbackTake
  <2> QED
    BY <1>40, <2>1, <2>2, <2>3 DEF CallbackTake, ThreadLabels, CurlLabels
<1>41. CASE ThreadReady
  <2>1. CallInv'
    BY <1>41 DEF ThreadReady, callVars, CallInv, CallTypeOK
  <2> QED
    BY <1>41, <2>1, SemType DEF ThreadReady, ThreadLabels, CurlLabels
<1>42. CASE ThreadCause
  <2>1. CallInv'
    BY <1>42 DEF ThreadCause, callVars, CallInv, CallTypeOK
  <2> QED
    BY <1>42, <2>1 DEF ThreadCause, ThreadLabels, CurlLabels
<1>43. CASE ThreadNeed
  <2>1. CallInv'
    BY <1>43 DEF ThreadNeed, callVars, CallInv, CallTypeOK
  <2> QED
    BY <1>43, <2>1, SemType DEF ThreadNeed, ThreadLabels, CurlLabels
<1>44. CASE ThreadWritten
  <2>1. CallInv'
    BY <1>44 DEF ThreadWritten, callVars, CallInv, CallTypeOK
  <2> QED
    BY <1>44, <2>1, SemType DEF ThreadWritten, ThreadLabels, CurlLabels
<1>45. CASE UNCHANGED vars
  BY <1>45 DEF vars, callVars, CallInv, CallTypeOK
<1> QED
  BY <1>1, <1>2, <1>3, <1>4, <1>5, <1>6, <1>7, <1>8, <1>9, <1>10, <1>11,
     <1>12, <1>13, <1>14, <1>15, <1>16, <1>17, <1>18, <1>19, <1>20, <1>21,
     <1>22, <1>23, <1>24, <1>25, <1>26, <1>27, <1>28, <1>29, <1>30, <1>31,
     <1>32, <1>33, <1>34, <1>35, <1>36, <1>37, <1>38, <1>39, <1>40, <1>41,
     <1>42, <1>43, <1>44, <1>45 DEF Next, Arrival, CallerStep, ThreadStep,
     Crashed

\* No step leaves more in stream_buf than its recorded size: buf_add_mem grows
\* it first, and the callback only drains it.
LEMMA FitsStep ==
  ASSUME TypeInv, BufferFits, [Next]_vars
  PROVE  BufferFits'
<1>1. stream_buf \in Seq(Nat) /\ Len(stream_buf) \in Nat /\ buf_size \in Nat
  BY DEF TypeInv, SharedTypeOK, FileTypeOK
<1>2. ASSUME NEW c \in Callers, OpenAccepted(c) PROVE BufferFits'
  BY <1>2 DEF OpenAccepted, BufferFits
<1>3. ASSUME NEW c \in Callers, WriteAdd(c) PROVE BufferFits'
  <2>1. call[c].size \in Nat /\ pos \in Nat
    BY <1>3, WriteRequest
       DEF WriteAdd, TypeInv, CallInv, CallTypeOK, WriteLabels, FileTypeOK
  <2> DEFINE size == call[c].size
             chunk == Bytes(pos, size)
  <2>2. stream_buf' = stream_buf \o chunk
    BY <1>3 DEF WriteAdd
  <2>3. chunk \in Seq(Nat) /\ Len(chunk) = size
    BY <2>1, BytesType
  <2>4. \/ NeedsResize(size) /\ buf_size' = Resized(size)
        \/ ~NeedsResize(size) /\ buf_size' = buf_size
    BY <1>3 DEF WriteAdd
  <2> HIDE DEF size, chunk
  <2>5. Len(stream_buf') = Len(stream_buf) + size
    BY <1>1, <2>2, <2>3, ConcatProperties
  <2>6. size \in Nat
    BY <2>1 DEF size
  <2>7. CASE NeedsResize(size)
    BY <2>4, <2>5, <2>6, <2>7, ResizedFits DEF BufferFits, TypeInv
  <2>8. CASE ~NeedsResize(size)
    BY <1>1, <2>4, <2>5, <2>6, <2>8 DEF BufferFits, NeedsResize
  <2> QED
    BY <2>7, <2>8
<1>4. ASSUME NEW c \in Callers, WriteNoMemory(c) PROVE BufferFits'
  <2>1. call[c].size \in Nat
    BY <1>4, WriteRequest DEF WriteNoMemory, TypeInv, CallInv, CallTypeOK, WriteLabels
  <2>2. /\ Len(stream_buf) + call[c].size <= Resized(call[c].size)
        /\ Resized(call[c].size) \in Nat
    BY <2>1, ResizedFits, ResizedType DEF TypeInv
  <2> QED
    BY <1>1, <1>4, <2>1, <2>2 DEF WriteNoMemory, BufferFits
<1>5. CASE CallbackTake
  <2> DEFINE to_copy == IF CurlBuf < Len(stream_buf) THEN CurlBuf
                                                     ELSE Len(stream_buf)
  <2>1. /\ stream_buf' = SubSeq(stream_buf, to_copy + 1, Len(stream_buf))
        /\ buf_size' = buf_size
    BY <1>5 DEF CallbackTake, fileVars
  <2>2. to_copy \in 0..Len(stream_buf)
    BY <1>1, ConstantsAssumption
  <2> HIDE DEF to_copy
  <2>3. Len(stream_buf') = Len(stream_buf) - to_copy
    BY <1>1, <2>1, <2>2, SubSeqProperties
  <2> QED
    BY <1>1, <2>1, <2>2, <2>3 DEF BufferFits
<1>6. ASSUME UNCHANGED <<stream_buf, buf_size>> PROVE BufferFits'
  BY <1>6 DEF BufferFits
<1>7. CASE Arrival
  <2>1. UNCHANGED <<stream_buf, buf_size>>
    BY <1>7 DEF Arrival, RequestOpen, RequestWrite, RequestTruncate, RequestSync,
                Request, fileVars
  <2> QED
    BY <2>1, <1>6
<1>8. ASSUME NEW c \in Callers, CallerStep(c) PROVE BufferFits'
  <2>1. \/ OpenAccepted(c) \/ WriteAdd(c) \/ WriteNoMemory(c)
        \/ UNCHANGED <<stream_buf, buf_size>>
    BY <1>8 DEF CallerStep, fileVars,
       OpenRefused, AwaitReady, OpenPost, WriteRefused, WriteStart,
       WriteIgnored, WriteContinue, WritePost, WriteNeed, WriteNonSequential,
       WriteCrash, WriteWritten, WriteCheck, FinishCheck,
       FinishNeed, FinishPost, FinishEof, FinishJoin, SyncEnter, SizeUnknown,
       SizeCheck, ReleaseFree, TruncateToZero, TruncateToSize
  <2> QED
    BY <2>1, <1>2, <1>3, <1>4, <1>6
<1>9. CASE ThreadStep
  <2>1. CallbackTake \/ UNCHANGED <<stream_buf, buf_size>>
    BY <1>9 DEF ThreadStep, fileVars, ThreadUpload, CurlFails, CurlSend, CurlDone,
       CallbackReady, CallbackWritten, CallbackWait, CallbackEof, ThreadReady,
       ThreadCause, ThreadNeed, ThreadWritten
  <2> QED
    BY <2>1, <1>5, <1>6
<1>10. CASE Crashed \/ UNCHANGED vars
  BY <1>10, <1>6 DEF Crashed, vars, fileVars
<1> QED
  BY <1>7, <1>8, <1>9, <1>10 DEF Next

\* Every variable has its type in every reachable state, and what is in
\* stream_buf fits the memory recorded for it.
THEOREM TypeCorrect == Spec => []TypeOK
<1>1. Init => BufferFits
  BY DEF Init, BufferFits
<1>2. TypeInv /\ BufferFits => TypeOK
  BY DEF TypeInv, TypeOK, CallInv
<1> QED
  BY <1>1, <1>2, TypeInit, TypeStep, FitsStep, PTL DEF Spec

-----------------------------------------------------------------------------
(* The token.  One call is in progress at a time (~ConcurrentFlush).       *)

op == pc["op"]

\* Where a caller has an upload to add to or to end.
UploadingLabels ==
  {"w_ready", "w_post", "w_need", "w_add", "w_written", "w_check",
   "f_check", "f_need", "f_post", "f_eof", "f_join"}

\* Where the caller may be while a thread lives, and that the thread runs
\* libcurl only while no failure is recorded.
ControlInv ==
  /\ pc["flush"] = "idle"
  /\ handle = "closed" => tpc = "none" /\ op \in {"idle", "o_enter"}
  /\ op = "o_enter" => handle = "closed"
  /\ tpc # "none" => write_conn
  /\ op \in {"f_size", "r_free"} => tpc = "none" /\ ~write_conn
  /\ op \in UploadingLabels => write_conn
  /\ tpc \in CurlLabels => write_fail_cause = "OK"

TokenInv == ControlInv /\ OneToken

\* No thread runs when the program starts, so there is no token to count.
LEMMA TokenInit == Init => TokenInv
BY DEF Init, TokenInv, ControlInv, OneToken, op, Callers, CurlLabels, UploadingLabels

\* The facts about types a step of the protocol rests on.
LEMMA ProtocolTypes ==
  ASSUME TypeInv
  PROVE  /\ pc \in [Callers -> CallerLabels]
         /\ sem \in [Sems -> Nat]
         /\ sem["need"] \in Nat /\ sem["avail"] \in Nat
         /\ sem["written"] \in Nat /\ sem["ready"] \in Nat
         /\ tpc \in ThreadLabels
         /\ curl_res \in {"OK", "failed"}
BY DEF TypeInv, CallInv, CallTypeOK, SharedTypeOK, ThreadTypeOK, Sems

\* Every step moves the token, or loses it, and never makes a second one.
LEMMA TokenStep ==
  ASSUME ~ConcurrentFlush, TypeInv, TokenInv, [Next]_vars
  PROVE  TokenInv'
<1> USE ProtocolTypes
<1> USE DEF TokenInv, ControlInv, OneToken, Tokens, CallerHolds, One, op,
            Callers, Sems, CurlLabels, UploadingLabels, callVars, fileVars, flagVars,
            threadVars, serverVars, Goto, Return, Post, Wait
<1>1. CASE RequestOpen
  BY <1>1 DEF RequestOpen, Request
<1>2. CASE RequestWrite
  BY <1>2 DEF RequestWrite, Request
<1>3. CASE RequestTruncate
  BY <1>3 DEF RequestTruncate, Request
<1>4. ASSUME NEW c \in Callers, RequestSync(c) PROVE TokenInv'
  BY <1>4 DEF RequestSync, Request
<1>5. ASSUME NEW c \in Callers, OpenRefused(c) PROVE TokenInv'
  BY <1>5 DEF OpenRefused
<1>6. ASSUME NEW c \in Callers, OpenAccepted(c) PROVE TokenInv'
  <2>1. c = "op" /\ tpc = "none" /\ write_fail_cause' = "OK"
    BY <1>6 DEF OpenAccepted
  <2>2. \/ tpc' = "none" /\ op' = "idle"
        \/ /\ handle' = "open" /\ write_conn' = TRUE /\ op' = "o_ready"
           /\ sem' = [s \in Sems |-> 0] /\ tpc' = "t_start"
    BY <1>6, <2>1 DEF OpenAccepted, start_write_thread
  <2>3. pc'["flush"] = "idle"
    BY <1>6, <2>1 DEF OpenAccepted
  <2> QED
    BY <2>1, <2>2, <2>3
<1>7. ASSUME NEW c \in Callers, AwaitReady(c) PROVE TokenInv'
  BY <1>7 DEF AwaitReady
<1>8. ASSUME NEW c \in Callers, OpenPost(c) PROVE TokenInv'
  BY <1>8 DEF OpenPost
<1>9. ASSUME NEW c \in Callers, WriteRefused(c) PROVE TokenInv'
  BY <1>9 DEF WriteRefused
<1>10. ASSUME NEW c \in Callers, WriteStart(c) PROVE TokenInv'
  <2>1. c = "op" /\ tpc = "none" /\ UNCHANGED <<handle, write_fail_cause>>
    BY <1>10 DEF WriteStart
  <2>2. \/ tpc' = "none" /\ op' = "idle"
        \/ /\ write_conn' = TRUE /\ op' = "w_ready"
           /\ sem' = [s \in Sems |-> 0] /\ tpc' = "t_start"
    BY <1>10, <2>1 DEF WriteStart, start_write_thread
  <2>3. pc'["flush"] = "idle" /\ write_fail_cause = "OK" /\ handle # "closed"
    BY <1>10, <2>1 DEF WriteStart
  <2> QED
    BY <2>1, <2>2, <2>3
<1>11. ASSUME NEW c \in Callers, WriteIgnored(c) PROVE TokenInv'
  BY <1>11 DEF WriteIgnored
<1>12. ASSUME NEW c \in Callers, WriteContinue(c) PROVE TokenInv'
  BY <1>12 DEF WriteContinue
<1>13. ASSUME NEW c \in Callers, WritePost(c) PROVE TokenInv'
  BY <1>13 DEF WritePost
<1>14. ASSUME NEW c \in Callers, WriteNeed(c) PROVE TokenInv'
  BY <1>14 DEF WriteNeed
<1>15. ASSUME NEW c \in Callers, WriteNonSequential(c) PROVE TokenInv'
  BY <1>15 DEF WriteNonSequential
<1>16. ASSUME NEW c \in Callers, WriteAdd(c) PROVE TokenInv'
  BY <1>16 DEF WriteAdd
<1>17. ASSUME NEW c \in Callers, WriteNoMemory(c) PROVE TokenInv'
  BY <1>17 DEF WriteNoMemory
<1>18. ASSUME NEW c \in Callers, WriteCrash(c) PROVE TokenInv'
  BY <1>18 DEF WriteCrash
<1>19. ASSUME NEW c \in Callers, WriteWritten(c) PROVE TokenInv'
  BY <1>19 DEF WriteWritten
<1>20. ASSUME NEW c \in Callers, WriteCheck(c) PROVE TokenInv'
  BY <1>20 DEF WriteCheck
<1>21. ASSUME NEW c \in Callers, FinishCheck(c) PROVE TokenInv'
  BY <1>21 DEF FinishCheck
<1>22. ASSUME NEW c \in Callers, FinishNeed(c) PROVE TokenInv'
  BY <1>22 DEF FinishNeed
<1>23. ASSUME NEW c \in Callers, FinishPost(c) PROVE TokenInv'
  BY <1>23 DEF FinishPost
<1>24. ASSUME NEW c \in Callers, FinishEof(c) PROVE TokenInv'
  BY <1>24 DEF FinishEof
<1>25. ASSUME NEW c \in Callers, FinishJoin(c) PROVE TokenInv'
  BY <1>25 DEF FinishJoin, SyncReturn
<1>26. ASSUME NEW c \in Callers, SyncEnter(c) PROVE TokenInv'
  BY <1>26 DEF SyncEnter, SyncReturn
<1>27. ASSUME NEW c \in Callers, SizeUnknown(c) PROVE TokenInv'
  BY <1>27 DEF SizeUnknown, SyncReturn
<1>28. ASSUME NEW c \in Callers, SizeCheck(c) PROVE TokenInv'
  BY <1>28 DEF SizeCheck, SyncReturn
<1>29. ASSUME NEW c \in Callers, ReleaseFree(c) PROVE TokenInv'
  BY <1>29 DEF ReleaseFree
<1>30. ASSUME NEW c \in Callers, TruncateToZero(c) PROVE TokenInv'
  BY <1>30 DEF TruncateToZero
<1>31. ASSUME NEW c \in Callers, TruncateToSize(c) PROVE TokenInv'
  BY <1>31 DEF TruncateToSize
<1>32. CASE ThreadUpload
  BY <1>32 DEF ThreadUpload
<1>33. CASE CurlFails
  BY <1>33 DEF CurlFails
<1>34. CASE CurlSend
  BY <1>34 DEF CurlSend
<1>35. CASE CurlDone
  BY <1>35 DEF CurlDone
<1>36. CASE CallbackReady
  BY <1>36 DEF CallbackReady
<1>37. CASE CallbackWritten
  BY <1>37 DEF CallbackWritten
<1>38. CASE CallbackWait
  BY <1>38 DEF CallbackWait
<1>39. CASE CallbackEof
  BY <1>39 DEF CallbackEof
<1>40. CASE CallbackTake
  <2>1. /\ tpc = "cb_take" /\ tpc' \in {"curl_eof", "curl_send"}
        /\ UNCHANGED <<pc, handle, write_conn, write_fail_cause>>
    BY <1>40 DEF CallbackTake
  <2>2. Post("need") \/ Post("avail")
    BY <1>40 DEF CallbackTake
  <2> QED
    BY <2>1, <2>2
<1>41. CASE ThreadReady
  BY <1>41 DEF ThreadReady
<1>42. CASE ThreadCause
  BY <1>42 DEF ThreadCause
<1>43. CASE ThreadNeed
  BY <1>43 DEF ThreadNeed
<1>44. CASE ThreadWritten
  BY <1>44 DEF ThreadWritten
<1>45. CASE UNCHANGED vars
  BY <1>45 DEF vars
<1> QED
  BY <1>1, <1>2, <1>3, <1>4, <1>5, <1>6, <1>7, <1>8, <1>9, <1>10, <1>11,
     <1>12, <1>13, <1>14, <1>15, <1>16, <1>17, <1>18, <1>19, <1>20, <1>21,
     <1>22, <1>23, <1>24, <1>25, <1>26, <1>27, <1>28, <1>29, <1>30, <1>31,
     <1>32, <1>33, <1>34, <1>35, <1>36, <1>37, <1>38, <1>39, <1>40, <1>41,
     <1>42, <1>43, <1>44, <1>45 DEF Next, Arrival, CallerStep, ThreadStep,
     Crashed

\* One call at a time, the buffer has one owner for every interleaving with
\* the thread, and for every size of write and of libcurl's buffer.
THEOREM OneTokenHolds ==
  ASSUME ~ConcurrentFlush
  PROVE  Spec => []OneToken
<1>1. TokenInv => OneToken
  BY DEF TokenInv
<1> QED
  BY <1>1, TypeInit, TypeStep, TokenInit, TokenStep, PTL DEF Spec

\* So buf_add_mem never moves stream_buf under write_data_bg's memcpy: that
\* needs two tokens.
THEOREM BufferExclusion ==
  ASSUME ~ConcurrentFlush
  PROVE  Spec => []BufferExclusive
<1>1. TypeInv /\ TokenInv => BufferExclusive
  BY ProtocolTypes DEF TokenInv, ControlInv, OneToken, Tokens, CallerHolds,
     One, BufferExclusive, Callers, CurlLabels
<1> QED
  BY <1>1, TypeInit, TypeStep, TokenInit, TokenStep, PTL DEF Spec

\* And ftpfs_release never frees a handle its thread still uses.
THEOREM ReleaseJoins ==
  ASSUME ~ConcurrentFlush
  PROVE  Spec => []NoThreadAfterFree
<1>1. TokenInv => NoThreadAfterFree
  BY DEF TokenInv, ControlInv, NoThreadAfterFree
<1> QED
  BY <1>1, TypeInit, TypeStep, TokenInit, TokenStep, PTL DEF Spec

-----------------------------------------------------------------------------
(* The hand-over of a chunk.                                               *)

FinishLabels == {"f_check", "f_need", "f_post", "f_eof", "f_join"}

\* Labels of a caller that only a live thread can have let it reach, or can
\* let it leave.
AttachedLabels ==
  {"o_ready", "o_post", "w_ready", "w_post", "w_add", "w_written", "w_check",
   "f_post", "f_eof", "f_join"}

\* The caller's side: what the thread is to a caller, and what is left of an
\* upload without a thread.
AttachInv ==
  /\ op \in AttachedLabels => tpc # "none"
  /\ op \in {"w_need", "f_check", "f_need"} => write_conn
  /\ op = "f_size" => ~write_conn
  /\ (write_conn /\ tpc = "none")
        => sem["need"] = 0 /\ write_fail_cause = "OK"
  /\ (tpc = "none" /\ write_fail_cause = "OK") => stream_buf = <<>>

\* The thread's side: how an upload ends.
EndInv ==
  /\ tpc \in CurlLabels => curl_res = "OK"
  /\ tpc \in {"t_cause", "t_need"} => curl_res = "failed"
  /\ (tpc \in {"t_need", "t_written", "exited"} /\ curl_res = "failed")
        => write_fail_cause = "curl"
  /\ (eof /\ tpc \in CurlLabels) => op = "f_join"
  /\ (\/ tpc = "curl_eof"
      \/ tpc \notin CurlLabels \union {"none"} /\ curl_res = "OK")
        => op \in FinishLabels /\ stream_buf = <<>>

\* The chunk: in stream_buf with the token on its way to the thread, or in
\* libcurl's hands with data_written still to be posted, or sent.
ChunkInv ==
  /\ wire # <<>> => tpc = "curl_send"
  /\ (tpc \in CurlLabels \ {"curl_eof"} /\ written_flag)
        => op \in {"w_written", "w_check"}
  /\ (tpc \notin {"none", "exited"} /\ sem["written"] > 0)
        => op = "w_written" /\ tpc = "cb_wait" /\ stream_buf = <<>>
  /\ (tpc \in CurlLabels /\ (sem["avail"] > 0 \/ tpc = "cb_take"))
        => op = "w_written" \/ op \in FinishLabels
  /\ (tpc \in CurlLabels /\ stream_buf # <<>>)
        => op = "w_written" /\ (sem["avail"] > 0 \/ tpc = "cb_take")
  /\ (tpc \in CurlLabels /\ op = "w_written" /\ stream_buf = <<>>)
        => /\ sem["need"] = 1
           /\ \/ tpc \in {"curl_send", "cb_ready", "cb_flag"} /\ written_flag
              \/ tpc = "cb_wait" /\ sem["written"] = 1
  /\ op = "w_check"
        => \/ tpc = "cb_wait" /\ stream_buf = <<>> /\ sem["need"] = 1
           \/ tpc = "exited" /\ write_fail_cause # "OK"

HandoffInv == AttachInv /\ EndInv /\ ChunkInv

\* No thread and no write is under way when the program starts.
LEMMA HandoffInit == Init => HandoffInv
BY DEF Init, HandoffInv, AttachInv, EndInv, ChunkInv, op, Callers, CurlLabels,
       AttachedLabels, FinishLabels

\* Every step keeps the hand-over in order.
LEMMA HandoffStep ==
  ASSUME ~ConcurrentFlush, TypeInv, TokenInv, TokenInv', HandoffInv, [Next]_vars
  PROVE  HandoffInv'
<1> USE ProtocolTypes
<1> USE DEF HandoffInv, AttachInv, EndInv, ChunkInv, AttachedLabels, FinishLabels,
            TokenInv, ControlInv, OneToken, Tokens, CallerHolds, One, op,
            Callers, Sems, CurlLabels, ThreadLabels, callVars, fileVars, flagVars,
            threadVars, serverVars, Goto, Return, Post, Wait
<1>1. CASE RequestOpen
  BY <1>1 DEF RequestOpen, Request
<1>2. CASE RequestWrite
  BY <1>2 DEF RequestWrite, Request
<1>3. CASE RequestTruncate
  BY <1>3 DEF RequestTruncate, Request
<1>4. ASSUME NEW c \in Callers, RequestSync(c) PROVE HandoffInv'
  BY <1>4 DEF RequestSync, Request
<1>5. ASSUME NEW c \in Callers, OpenRefused(c) PROVE HandoffInv'
  BY <1>5 DEF OpenRefused
<1>6. ASSUME NEW c \in Callers, OpenAccepted(c) PROVE HandoffInv'
  BY <1>6 DEF OpenAccepted, start_write_thread
<1>7. ASSUME NEW c \in Callers, AwaitReady(c) PROVE HandoffInv'
  BY <1>7 DEF AwaitReady
<1>8. ASSUME NEW c \in Callers, OpenPost(c) PROVE HandoffInv'
  BY <1>8 DEF OpenPost
<1>9. ASSUME NEW c \in Callers, WriteRefused(c) PROVE HandoffInv'
  BY <1>9 DEF WriteRefused
<1>10. ASSUME NEW c \in Callers, WriteStart(c) PROVE HandoffInv'
  BY <1>10 DEF WriteStart, start_write_thread
<1>11. ASSUME NEW c \in Callers, WriteIgnored(c) PROVE HandoffInv'
  BY <1>11 DEF WriteIgnored
<1>12. ASSUME NEW c \in Callers, WriteContinue(c) PROVE HandoffInv'
  BY <1>12 DEF WriteContinue
<1>13. ASSUME NEW c \in Callers, WritePost(c) PROVE HandoffInv'
  BY <1>13 DEF WritePost
<1>14. ASSUME NEW c \in Callers, WriteNeed(c) PROVE HandoffInv'
  <2>1. c = "op" /\ op = "w_need" /\ tpc # "none"
    BY <1>14 DEF WriteNeed
  <2>2. op' = "w_add" /\ Wait("need")
    BY <1>14, <2>1 DEF WriteNeed
  <2>3. AttachInv'
    BY <1>14, <2>1, <2>2 DEF WriteNeed
  <2>4. EndInv'
    BY <1>14, <2>1, <2>2 DEF WriteNeed
  <2>5. ChunkInv'
    BY <1>14, <2>1, <2>2 DEF WriteNeed
  <2> QED
    BY <2>3, <2>4, <2>5
<1>15. ASSUME NEW c \in Callers, WriteNonSequential(c) PROVE HandoffInv'
  BY <1>15 DEF WriteNonSequential
<1>16. ASSUME NEW c \in Callers, WriteAdd(c) PROVE HandoffInv'
  <2>1. c = "op" /\ op = "w_add" /\ op' = "w_written"
    BY <1>16 DEF WriteAdd
  <2>2. stream_buf' # <<>>
    <3>1. call[c].size \in Nat \ {0}
      BY <1>16, WriteRequest DEF WriteAdd, TypeInv, CallInv, CallTypeOK, WriteLabels
    <3>2. /\ Bytes(pos, call[c].size) \in Seq(Nat)
          /\ Len(Bytes(pos, call[c].size)) = call[c].size
      BY <3>1, BytesType DEF TypeInv, FileTypeOK
    <3>3. stream_buf \in Seq(Nat)
      BY DEF TypeInv, SharedTypeOK
    <3>4. Len(stream_buf \o Bytes(pos, call[c].size)) > 0
      BY <3>1, <3>2, <3>3, ConcatProperties, LenProperties
    <3> QED
      BY <1>16, <3>4, EmptySeq DEF WriteAdd
  <2>3. Post("avail") /\ UNCHANGED <<flagVars, write_fail_cause, threadVars,
                                     write_conn>>
    BY <1>16 DEF WriteAdd
  <2> QED
    BY <2>1, <2>2, <2>3
<1>17. ASSUME NEW c \in Callers, WriteNoMemory(c) PROVE HandoffInv'
  BY <1>17 DEF WriteNoMemory
<1>18. ASSUME NEW c \in Callers, WriteCrash(c) PROVE HandoffInv'
  BY <1>18 DEF WriteCrash
<1>19. ASSUME NEW c \in Callers, WriteWritten(c) PROVE HandoffInv'
  BY <1>19 DEF WriteWritten
<1>20. ASSUME NEW c \in Callers, WriteCheck(c) PROVE HandoffInv'
  BY <1>20 DEF WriteCheck
<1>21. ASSUME NEW c \in Callers, FinishCheck(c) PROVE HandoffInv'
  BY <1>21 DEF FinishCheck
<1>22. ASSUME NEW c \in Callers, FinishNeed(c) PROVE HandoffInv'
  <2>1. c = "op" /\ op = "f_need" /\ tpc # "none"
    BY <1>22 DEF FinishNeed
  <2>2. op' = "f_post" /\ Wait("need")
    BY <1>22, <2>1 DEF FinishNeed
  <2>3. AttachInv'
    BY <1>22, <2>1, <2>2 DEF FinishNeed
  <2>4. EndInv'
    BY <1>22, <2>1, <2>2 DEF FinishNeed
  <2>5. ChunkInv'
    BY <1>22, <2>1, <2>2 DEF FinishNeed
  <2> QED
    BY <2>3, <2>4, <2>5
<1>23. ASSUME NEW c \in Callers, FinishPost(c) PROVE HandoffInv'
  BY <1>23 DEF FinishPost
<1>24. ASSUME NEW c \in Callers, FinishEof(c) PROVE HandoffInv'
  BY <1>24 DEF FinishEof
<1>25. ASSUME NEW c \in Callers, FinishJoin(c) PROVE HandoffInv'
  BY <1>25 DEF FinishJoin, SyncReturn
<1>26. ASSUME NEW c \in Callers, SyncEnter(c) PROVE HandoffInv'
  BY <1>26 DEF SyncEnter, SyncReturn
<1>27. ASSUME NEW c \in Callers, SizeUnknown(c) PROVE HandoffInv'
  BY <1>27 DEF SizeUnknown, SyncReturn
<1>28. ASSUME NEW c \in Callers, SizeCheck(c) PROVE HandoffInv'
  BY <1>28 DEF SizeCheck, SyncReturn
<1>29. ASSUME NEW c \in Callers, ReleaseFree(c) PROVE HandoffInv'
  BY <1>29 DEF ReleaseFree
<1>30. ASSUME NEW c \in Callers, TruncateToZero(c) PROVE HandoffInv'
  BY <1>30 DEF TruncateToZero
<1>31. ASSUME NEW c \in Callers, TruncateToSize(c) PROVE HandoffInv'
  BY <1>31 DEF TruncateToSize
<1>32. CASE ThreadUpload
  BY <1>32 DEF ThreadUpload
<1>33. CASE CurlFails
  BY <1>33 DEF CurlFails
<1>34. CASE CurlSend
  BY <1>34 DEF CurlSend
<1>35. CASE CurlDone
  BY <1>35 DEF CurlDone
<1>36. CASE CallbackReady
  BY <1>36 DEF CallbackReady
<1>37. CASE CallbackWritten
  BY <1>37 DEF CallbackWritten
<1>38. CASE CallbackWait
  BY <1>38 DEF CallbackWait
<1>39. CASE CallbackEof
  BY <1>39 DEF CallbackEof
<1>40. CASE CallbackTake
  <2>1. /\ tpc = "cb_take" /\ ~eof
        /\ UNCHANGED <<pc, write_conn, write_fail_cause, curl_res, eof>>
    BY <1>40 DEF CallbackTake
  <2>2. CASE stream_buf = <<>>
    <3>1. /\ tpc' = "curl_eof" /\ wire' = <<>> /\ stream_buf' = <<>>
          /\ Post("need") /\ written_flag' = TRUE
      BY <1>40, <2>2, ConstantsAssumption DEF CallbackTake
    <3> QED
      BY <2>1, <2>2, <3>1
  <2>3. CASE stream_buf # <<>>
    <3>1. tpc' = "curl_send"
      BY <1>40, <2>3, ConstantsAssumption DEF CallbackTake, TypeInv, SharedTypeOK
    <3>2. \/ stream_buf' = <<>> /\ Post("need") /\ written_flag' = TRUE
          \/ stream_buf' # <<>> /\ Post("avail") /\ UNCHANGED written_flag
      BY <1>40 DEF CallbackTake
    <3> QED
      BY <2>1, <2>3, <3>1, <3>2
  <2> QED
    BY <2>2, <2>3
<1>41. CASE ThreadReady
  BY <1>41 DEF ThreadReady
<1>42. CASE ThreadCause
  BY <1>42 DEF ThreadCause
<1>43. CASE ThreadNeed
  BY <1>43 DEF ThreadNeed
<1>44. CASE ThreadWritten
  BY <1>44 DEF ThreadWritten
<1>45. CASE UNCHANGED vars
  BY <1>45 DEF vars
<1> QED
  BY <1>1, <1>2, <1>3, <1>4, <1>5, <1>6, <1>7, <1>8, <1>9, <1>10, <1>11,
     <1>12, <1>13, <1>14, <1>15, <1>16, <1>17, <1>18, <1>19, <1>20, <1>21,
     <1>22, <1>23, <1>24, <1>25, <1>26, <1>27, <1>28, <1>29, <1>30, <1>31,
     <1>32, <1>33, <1>34, <1>35, <1>36, <1>37, <1>38, <1>39, <1>40, <1>41,
     <1>42, <1>43, <1>44, <1>45 DEF Next, Arrival, CallerStep, ThreadStep,
     Crashed

\* A request moves on by a step of its own.
LEMMA OwnStep ==
  ASSUME TypeInv, Next, NEW c \in Callers, pc[c] # "idle", pc'[c] # pc[c]
  PROVE  CallerStep(c)
<1>1. pc \in [Callers -> CallerLabels]
  BY DEF TypeInv, CallInv, CallTypeOK
<1>2. ASSUME Arrival PROVE FALSE
  BY <1>1, <1>2 DEF Arrival, RequestOpen, RequestWrite, RequestTruncate, RequestSync,
                    Request
<1>3. ASSUME ThreadStep \/ Crashed PROVE FALSE
  BY <1>3 DEF ThreadStep, Crashed, ThreadUpload, CurlFails, CurlSend, CurlDone,
              CallbackReady, CallbackWritten, CallbackWait, CallbackEof,
              CallbackTake, ThreadReady, ThreadCause, ThreadNeed, ThreadWritten,
              callVars, vars
<1>4. ASSUME NEW d \in Callers, CallerStep(d) PROVE d = c
  <2>1. pc' = pc \/ \E label : pc' = [pc EXCEPT ![d] = label]
    BY <1>4 DEF CallerStep, OpenRefused, OpenAccepted, AwaitReady, OpenPost,
                WriteRefused, WriteStart, WriteIgnored, WriteContinue, WritePost,
                WriteNeed, WriteNonSequential, WriteAdd, WriteNoMemory, WriteCrash,
                WriteWritten, WriteCheck, FinishCheck, FinishNeed, FinishPost,
                FinishEof, FinishJoin, SyncEnter, SizeUnknown, SizeCheck,
                ReleaseFree, TruncateToZero, TruncateToSize, SyncReturn, Goto,
                Return, callVars
  <2> QED
    BY <1>1, <2>1
<1> QED
  BY <1>2, <1>3, <1>4 DEF Next

\* The only step from w_check back to idle is the end of ftpfs_write.
LEMMA ReturnOfWrite ==
  ASSUME TypeInv, Next, NEW c \in Callers, pc[c] = "w_check", pc'[c] = "idle"
  PROVE  WriteCheck(c)
<1>1. CallerStep(c)
  BY OwnStep
<1> QED
  BY <1>1 DEF CallerStep, OpenRefused, OpenAccepted, AwaitReady, OpenPost,
              WriteRefused, WriteStart, WriteIgnored, WriteContinue, WritePost,
              WriteNeed, WriteNonSequential, WriteAdd, WriteNoMemory, WriteCrash,
              WriteWritten, FinishCheck, FinishNeed, FinishPost, FinishEof,
              FinishJoin, SyncEnter, SizeUnknown, SizeCheck, ReleaseFree,
              TruncateToZero, TruncateToSize

\* A write that reports success left nothing behind, for every size of write
\* and of libcurl's buffer, however the two sides interleave.
THEOREM WriteDelivery ==
  ASSUME ~ConcurrentFlush
  PROVE  Spec => WriteDelivered
<1>1. ASSUME TypeInv, TokenInv, HandoffInv, [Next]_vars
      PROVE  [\A c \in Callers :
                (pc[c] = "w_check" /\ pc'[c] = "idle" /\ ret'[c] = "ok")
                   => stream_buf = <<>> /\ wire = <<>>]_vars
  <2> SUFFICES ASSUME NEW c \in Callers,
                      pc[c] = "w_check", pc'[c] = "idle", ret'[c] = "ok"
               PROVE  stream_buf = <<>> /\ wire = <<>>
    OBVIOUS
  <2>1. c = "op"
    BY <1>1 DEF TokenInv, ControlInv, Callers
  <2>2. tpc \in {"cb_wait", "exited"} /\ wire = <<>>
    BY <1>1, <2>1 DEF HandoffInv, ChunkInv, op
  <2>3. write_fail_cause = "OK"
    <3>1. Next
      BY <1>1 DEF vars, callVars
    <3>2. WriteCheck(c)
      BY <1>1, <3>1, ReturnOfWrite
    <3>3. ret \in [Callers -> {"none", "ok", "err"}]
      BY <1>1 DEF TypeInv, CallInv, CallTypeOK
    <3> QED
      BY <3>2, <3>3 DEF WriteCheck, Return
  <2> QED
    BY <1>1, <2>1, <2>2, <2>3 DEF HandoffInv, ChunkInv, op
<1> QED
  BY <1>1, TypeInit, TypeStep, TokenInit, TokenStep, HandoffInit, HandoffStep,
     PTL DEF Spec, WriteDelivered

-----------------------------------------------------------------------------
(* The wait of finish_write_thread.                                        *)

\* An open handle with a connection has a thread.
JoinInv == handle # "closed" /\ write_conn => tpc # "none"

\* Only a pthread_create that fails in ftpfs_write leaves a connection without
\* a thread.
LEMMA JoinStep ==
  ASSUME ~ConcurrentFlush, "write" \notin CreateFailsIn,
         TypeInv, TokenInv, JoinInv, [Next]_vars
  PROVE  JoinInv'
<1> USE DEF JoinInv
<1>1. ASSUME UNCHANGED <<handle, write_conn, tpc>> PROVE JoinInv'
  BY <1>1
<1>2. ASSUME Arrival PROVE UNCHANGED <<handle, write_conn, tpc>>
  BY <1>2 DEF Arrival, RequestOpen, RequestWrite, RequestTruncate, RequestSync,
              Request, fileVars, threadVars
<1>3. ASSUME Crashed \/ UNCHANGED vars PROVE UNCHANGED <<handle, write_conn, tpc>>
  BY <1>3 DEF Crashed, vars, fileVars, threadVars
<1>4. ASSUME ThreadStep PROVE UNCHANGED <<handle, write_conn>> /\ tpc' # "none"
  BY <1>4 DEF ThreadStep, ThreadUpload, CurlFails, CurlSend, CurlDone,
              CallbackReady, CallbackWritten, CallbackWait, CallbackEof,
              CallbackTake, ThreadReady, ThreadCause, ThreadNeed, ThreadWritten,
              fileVars
<1>5. ASSUME NEW c \in Callers, CallerStep(c) PROVE JoinInv'
  <2>1. CASE OpenAccepted(c)
    BY <2>1 DEF OpenAccepted, start_write_thread
  <2>2. CASE WriteStart(c)
    <3>1. PICK outcome \in {"started", "no_conn"} : start_write_thread(outcome)
      BY <2>2 DEF WriteStart, StartOutcomes
    <3> QED
      BY <3>1 DEF start_write_thread
  <2>3. CASE WriteCrash(c)
    <3>1. c = "op" /\ handle # "closed"
      BY <2>3 DEF WriteCrash, TokenInv, ControlInv, op, Callers
    <3> QED
      BY <2>3, <3>1 DEF WriteCrash, threadVars
  <2>4. CASE FinishJoin(c) \/ ReleaseFree(c)
    BY <2>4 DEF FinishJoin, ReleaseFree
  <2>5. CASE UNCHANGED <<handle, write_conn, tpc>>
    BY <2>5, <1>1
  <2>6. \/ OpenAccepted(c) \/ WriteStart(c) \/ WriteCrash(c)
        \/ FinishJoin(c) \/ ReleaseFree(c)
        \/ UNCHANGED <<handle, write_conn, tpc>>
    BY <1>5 DEF CallerStep, OpenRefused, AwaitReady, OpenPost,
                WriteRefused, WriteIgnored, WriteContinue, WritePost,
                WriteNeed, WriteNonSequential, WriteAdd, WriteNoMemory,
                WriteWritten, WriteCheck, FinishCheck, FinishNeed, FinishPost,
                FinishEof, SyncEnter, SizeUnknown, SizeCheck,
                TruncateToZero, TruncateToSize, fileVars, threadVars
  <2> QED
    BY <2>1, <2>2, <2>3, <2>4, <2>5, <2>6
<1> QED
  BY <1>1, <1>2, <1>3, <1>4, <1>5 DEF Next

\* So finish_write_thread waits on data_need only when there is a thread to post
\* it, unless pthread_create fails in ftpfs_write: nothing else can leave a flush
\* waiting there for ever.
THEOREM FinishHasThread ==
  ASSUME ~ConcurrentFlush, "write" \notin CreateFailsIn
  PROVE  Spec => []FinishWaitsForThread
<1>1. Init => JoinInv
  BY DEF Init, JoinInv
<1>2. TokenInv /\ HandoffInv /\ JoinInv => FinishWaitsForThread
  BY DEF TokenInv, ControlInv, HandoffInv, AttachInv, JoinInv,
         FinishWaitsForThread, op, Callers
<1> QED
  BY <1>1, <1>2, TypeInit, TypeStep, TokenInit, TokenStep, HandoffInit,
     HandoffStep, JoinStep, PTL DEF Spec
=============================================================================
