--------------------------- MODULE ReadPathProofs ---------------------------
(***************************************************************************)
(* Proofs about the reads of ReadPath.                                     *)
(***************************************************************************)
EXTENDS ReadPath, SequenceTheorems, TLAPS

\* No offset of a request has more digits than the range string holds.
RangeFits == \A offset \in 0..MaxOffset : RangeOf(offset) = offset

-----------------------------------------------------------------------------
(* Pieces of files.                                                        *)

\* A piece of a file is a sequence of its bytes.
LEMMA BytesType ==
  ASSUME NEW f \in Files, NEW from \in Nat, NEW n \in Nat
  PROVE  /\ Reads!Bytes(f, from, n) \in Seq(Files \X Nat)
         /\ Len(Reads!Bytes(f, from, n)) = n
         /\ \A i \in 1..n : Reads!Bytes(f, from, n)[i] = <<f, from + i>>
BY DEF Reads!Bytes

\* A sequence of bytes with the right ones at each place is the piece.
LEMMA BytesEqual ==
  ASSUME NEW s \in Seq(Files \X Nat), NEW f \in Files, NEW from \in Nat,
         NEW n \in Nat, Len(s) = n,
         \A i \in 1..n : s[i] = <<f, from + i>>
  PROVE  s = Reads!Bytes(f, from, n)
<1> DEFINE b == Reads!Bytes(f, from, n)
<1>1. b \in Seq(Files \X Nat) /\ Len(b) = n /\ \A i \in 1..n : b[i] = <<f, from + i>>
  BY BytesType
<1> HIDE DEF b
<1>2. s = b
  BY <1>1, SeqEqual
<1> QED
  BY <1>2 DEF b

\* A piece followed by the next one is a piece.
LEMMA BytesConcat ==
  ASSUME NEW f \in Files, NEW from \in Nat, NEW m \in Nat, NEW n \in Nat
  PROVE  Reads!Bytes(f, from, m) \o Reads!Bytes(f, from + m, n)
           = Reads!Bytes(f, from, m + n)
<1> DEFINE a == Reads!Bytes(f, from, m)
           b == Reads!Bytes(f, from + m, n)
<1>1. a \in Seq(Files \X Nat) /\ Len(a) = m /\ \A i \in 1..m : a[i] = <<f, from + i>>
  BY BytesType
<1>2. from + m \in Nat
  OBVIOUS
<1>3. b \in Seq(Files \X Nat) /\ Len(b) = n
        /\ \A i \in 1..n : b[i] = <<f, (from + m) + i>>
  BY <1>2, BytesType
<1> HIDE DEF a, b
<1>4. a \o b \in Seq(Files \X Nat) /\ Len(a \o b) = m + n
  BY <1>1, <1>3, ConcatProperties
<1>5. ASSUME NEW i \in 1..(m + n)
      PROVE  (a \o b)[i] = <<f, from + i>>
  <2>1. (a \o b)[i] = IF i <= m THEN a[i] ELSE b[i - m]
    BY <1>1, <1>3, ConcatProperties
  <2>2. CASE i <= m
    BY <2>1, <2>2, <1>1
  <2>3. CASE ~(i <= m)
    <3>1. i - m \in 1..n /\ (from + m) + (i - m) = from + i
      BY <2>3
    <3> QED
      BY <3>1, <2>1, <2>3, <1>3
  <2> QED
    BY <2>2, <2>3
<1>6. m + n \in Nat
  OBVIOUS
<1>7. a \o b = Reads!Bytes(f, from, m + n)
  BY <1>4, <1>5, <1>6, BytesEqual
<1> QED
  BY <1>7 DEF a, b

\* SubSeq under a name the provers do not expand.
Part(s, first, last) == SubSeq(s, first, last)

\* A part of a piece is the piece at its place.
LEMMA BytesPart ==
  ASSUME NEW f \in Files, NEW from \in Nat, NEW m \in Nat,
         NEW first \in Nat \ {0}, NEW last \in Nat, first <= last + 1, last <= m,
         NEW at \in Nat, at = from + (first - 1),
         NEW n \in Nat, n = last - first + 1
  PROVE  Part(Reads!Bytes(f, from, m), first, last) = Reads!Bytes(f, at, n)
<1> DEFINE a == Reads!Bytes(f, from, m)
           s == SubSeq(a, first, last)
<1>1. a \in Seq(Files \X Nat) /\ Len(a) = m /\ \A j \in 1..m : a[j] = <<f, from + j>>
  BY BytesType
<1> HIDE DEF a
<1>2. \A j \in first..last : a[j] \in Files \X Nat
  BY <1>1
<1>3. s \in Seq(Files \X Nat) /\ Len(s) = (IF first <= last THEN last - first + 1 ELSE 0)
        /\ \A j \in 1..(last - first + 1) : s[j] = a[first + j - 1]
  BY <1>2, SubSeqProperties
<1> HIDE DEF s
<1>4. Len(s) = n
  BY <1>3
<1>5. ASSUME NEW j \in 1..n
      PROVE  s[j] = <<f, at + j>>
  <2>1. s[j] = a[first + j - 1]
    BY <1>3
  <2>2. first + j - 1 \in 1..m /\ from + (first + j - 1) = at + j
    OBVIOUS
  <2> QED
    BY <2>1, <2>2, <1>1
<1>6. PICK x \in Nat : x = at
  OBVIOUS
<1>7. PICK k \in Nat : k = n
  OBVIOUS
<1>8. s \in Seq(Files \X Nat) /\ Len(s) = k /\ \A i \in 1..k : s[i] = <<f, x + i>>
  BY <1>3, <1>4, <1>5, <1>6, <1>7
<1>9. s = Reads!Bytes(f, x, k)
  BY <1>8, BytesEqual, ZenonT(60)
<1> QED
  BY <1>6, <1>7, <1>9 DEF s, a, Part

-----------------------------------------------------------------------------
(* The inductive invariant.                                                *)

CallInv ==
  /\ call \in [op : {"none", "open", "read"}, fh : Handles \union {NULL},
               offset : Nat, size : Nat]
  /\ pc = "idle" => call = Reads!NoCall
  /\ pc # "idle" =>
       /\ call.op \in {"open", "read"}
       /\ call.fh \in Handles /\ file[call.fh] \in Files
       /\ call.offset <= MaxOffset /\ call.size >= 1
  /\ pc = "created" => call.op = "open"

WindowInv ==
  \A h \in Handles :
    file[h] # NULL =>
      /\ buf[h] = Reads!Bytes(file[h], begin_offset[h], Len(buf[h]))
      /\ Len(buf[h]) > 0 => begin_offset[h] + Len(buf[h]) <= Length[file[h]]

TransferInv ==
  /\ attached_to_multi <=> transfer.state # "none"
  /\ Running(transfer) => transfer.url \in Files /\ transfer.data \in Handles
  /\ transfer.state = "running" => transfer.next <= Length[transfer.url]
  /\ TransferContinues

\* The window of the call reaches the end of its file.
AtEnd ==
  LET h == call.fh IN begin_offset[h] + Len(buf[h]) = Length[file[h]]

ChunkInv ==
  /\ pc \in {"check", "perform", "loop", "msgs"} => current_fh = call.fh
  /\ pc \in {"check", "perform", "loop", "msgs", "copy"} => InWindow
  /\ transfer.state = "added" => pc = "perform"
  /\ pc = "perform" => Running(transfer)
  /\ pc = "perform" /\ transfer.state = "added" =>
       /\ range = call.offset
       /\ begin_offset[call.fh] = call.offset
       /\ buf[call.fh] = <<>>
  /\ pc # "perform" => range = 0
  /\ pc = "loop" /\ ~Running(transfer) => transfer.state = "done" /\ transfer.msg
  /\ pc = "msgs" => transfer.state = "done" /\ transfer.msg
  /\ pc \in {"loop", "msgs"} /\ transfer.state = "done" /\ transfer.result = "OK" =>
       AtEnd
  /\ pc = "created" => ~Running(transfer)
  /\ err => pc \in {"copy", "crashed"}
  /\ pc = "copy" /\ err /\ call.op = "open" => ~Running(transfer)
  /\ pc = "copy" /\ ~err => Enough \/ AtEnd

ReadInv == TypeOK /\ CallInv /\ WindowInv /\ TransferInv /\ ChunkInv

-----------------------------------------------------------------------------
(* One call of curl_multi_perform, made for the current handle.            *)

\* The window of the call grows by what follows it in the file, a transfer that
\* still runs goes on behind it, and one that has just ended has left a
\* message, and the whole file when the message is good.
LEMMA PerformGrows ==
  ASSUME ReadInv, pc \in {"check", "perform", "loop"}, curl_multi_perform,
         UNCHANGED <<file, call, begin_offset, current_fh>>
  PROVE  /\ transfer' \in Transfers
         /\ buf' \in [Handles -> Seq(Files \X Nat)]
         /\ buf_null' \in [Handles -> BOOLEAN]
         /\ WindowInv'
         /\ InWindow'
         /\ transfer'.state # "added"
         /\ transfer'.state = "none" <=> transfer.state = "none"
         /\ Running(transfer)' =>
              /\ transfer'.data = call.fh /\ transfer'.url = file[call.fh]
              /\ transfer'.next = begin_offset[call.fh] + Len(buf'[call.fh])
              /\ transfer'.next <= Length[file[call.fh]]
         /\ Running(transfer) /\ ~Running(transfer)' =>
              /\ transfer'.state = "done" /\ transfer'.msg
              /\ transfer'.result = "OK" => AtEnd'
<1> DEFINE h == call.fh
           f == file[h]
           end == begin_offset[h] + Len(buf[h])
<1>1. /\ h \in Handles /\ f \in Files /\ h # NULL /\ f # NULL
      /\ begin_offset[h] \in Nat /\ Len(buf[h]) \in Nat /\ end \in Nat
      /\ Length[f] \in Nat
      /\ buf[h] \in Seq(Files \X Nat)
      /\ buf[h] = Reads!Bytes(f, begin_offset[h], Len(buf[h]))
      /\ call.offset \in Nat
  BY ConstantsAssumption, LenProperties DEF ReadInv, CallInv, TypeOK, WindowInv
<1>2. current_fh = h /\ InWindow
  BY DEF ReadInv, ChunkInv
<1>3. transfer \in Transfers /\ buf \in [Handles -> Seq(Files \X Nat)]
        /\ buf_null \in [Handles -> BOOLEAN]
  BY DEF ReadInv, TypeOK
<1>4. Running(transfer) => transfer.data = h /\ transfer.url = f
  BY <1>1, <1>2 DEF ReadInv, TransferInv, TransferContinues
<1>5. transfer.state = "running" => transfer.next = end /\ end <= Length[f]
  BY <1>1, <1>2, <1>4 DEF ReadInv, TransferInv, TransferContinues, Running
<1>6. transfer.state = "added" => range = end /\ Len(buf[h]) = 0
  BY <1>1 DEF ReadInv, ChunkInv
<1>7. CASE NothingHappens
  BY <1>1, <1>2, <1>3, <1>4, <1>5, <1>7
     DEF ReadInv, WindowInv, InWindow, NothingHappens, Running
<1>8. CASE TransferFails
  <2>1. transfer' = [transfer EXCEPT !.state = "done", !.result = "failed",
  !.msg = TRUE]
    BY <1>8 DEF TransferFails, Ended
  <2>2. transfer' \in Transfers /\ transfer'.state = "done"
          /\ transfer'.result = "failed" /\ transfer'.msg
    BY <2>1, <1>3 DEF Transfers
  <2> QED
    BY <1>1, <1>2, <1>3, <1>8, <2>2
       DEF ReadInv, WindowInv, InWindow, TransferFails, Running
<1>9. CASE TransferStarts
  <2>1. transfer.url = f /\ transfer.state = "added" /\ UNCHANGED <<buf, buf_null>>
    BY <1>4, <1>9 DEF TransferStarts, Running
  <2>2. CASE range > Length[f]
    <3>1. transfer' = [transfer EXCEPT !.state = "done", !.result = "failed",
                         !.msg = TRUE]
      BY <1>9, <2>1, <2>2 DEF TransferStarts, Ended
    <3>2. transfer' \in Transfers /\ transfer'.state = "done"
            /\ transfer'.result = "failed" /\ transfer'.msg
      BY <3>1, <1>3 DEF Transfers
    <3> QED
      BY <1>1, <1>2, <1>3, <2>1, <3>2 DEF ReadInv, WindowInv, InWindow, Running
  <2>3. CASE ~(range > Length[f])
    <3>1. transfer' = [transfer EXCEPT !.state = "running", !.next = range]
      BY <1>9, <2>1, <2>3 DEF TransferStarts
    <3>2. /\ transfer' \in Transfers /\ transfer'.state = "running"
          /\ transfer'.next = end /\ transfer'.data = h /\ transfer'.url = f
      BY <3>1, <1>1, <1>3, <1>4, <1>6, <2>1 DEF Transfers, Running
    <3>3. end <= Length[f]
      BY <2>3, <2>1, <1>6, <1>1
    <3> QED
      BY <1>1, <1>2, <1>3, <2>1, <3>2, <3>3 DEF ReadInv, WindowInv, InWindow, Running
  <2> QED
    BY <2>2, <2>3
<1>10. CASE BlocksArrive
  <2>1. transfer.state = "running" /\ transfer.data = h /\ transfer.url = f
          /\ transfer.next = end /\ end <= Length[f]
    BY <1>4, <1>5, <1>10 DEF BlocksArrive, Running
  <2>2. PICK n \in 0..MaxBlock :
          LET t == [transfer EXCEPT !.next = @ + n] IN
          /\ t.next <= Length[t.url]
          /\ buf' = [buf EXCEPT ![t.data] =
                       @ \o Reads!Bytes(t.url, transfer.next, n)]
          /\ \/ n > 0 /\ transfer' = t /\ UNCHANGED buf_null
             \/ /\ t.next = Length[t.url]
                /\ transfer' = Ended(t, "OK") /\ UNCHANGED buf_null
             \/ transfer' = Ended(t, "failed") /\ UNCHANGED buf_null
             \/ /\ AllocFails /\ t.next < Length[t.url]
                /\ transfer' = Ended(t, "failed")
                /\ buf_null' = [buf_null EXCEPT ![t.data] = TRUE]
    BY <1>10 DEF BlocksArrive
  <2> DEFINE t == [transfer EXCEPT !.next = @ + n]
             b == Reads!Bytes(f, end, n)
  <2>3. n \in Nat
    BY ConstantsAssumption
  <2>4. t \in Transfers /\ t.next = end + n /\ t.url = f /\ t.data = h
          /\ t.state = "running"
    <3>1. end + n \in Nat
      BY <2>3, <1>1
    <3> HIDE DEF end, h, f
    <3>2. t = [transfer EXCEPT !.next = end + n]
      BY <2>1
    <3> QED
      BY <3>1, <3>2, <2>1, <1>3 DEF Transfers
  <2>5. end + n <= Length[f]
    BY <2>2, <2>4
  <2>6. buf' = [buf EXCEPT ![h] = @ \o b]
    BY <2>1, <2>2, <2>4
  <2>7. b \in Seq(Files \X Nat) /\ Len(b) = n
    BY <1>1, <2>3, BytesType
  <2>8. buf[h] \o b = Reads!Bytes(f, begin_offset[h], Len(buf[h]) + n)
    <3>1. PICK m \in Nat : m = Len(buf[h])
      BY <1>1
    <3>2. PICK from \in Nat : from = begin_offset[h]
      BY <1>1
    <3>3. Reads!Bytes(f, from, m) \o Reads!Bytes(f, from + m, n)
            = Reads!Bytes(f, from, m + n)
      <4>1. f \in Files
        BY <1>1
      <4> QED
        BY <4>1, <2>3, BytesConcat, Zenon
    <3>4. end = from + m /\ buf[h] = Reads!Bytes(f, from, m)
      BY <1>1, <3>1, <3>2
    <3> QED
      BY <3>1, <3>2, <3>3, <3>4
  <2> HIDE DEF b
  <2>9. buf[h] \o b \in Seq(Files \X Nat) /\ Len(buf[h] \o b) = Len(buf[h]) + n
    BY <1>1, <2>7, ConcatProperties
  <2>10. /\ buf' \in [Handles -> Seq(Files \X Nat)]
         /\ buf'[h] = buf[h] \o b /\ \A g \in Handles \ {h} : buf'[g] = buf[g]
    BY <2>6, <2>9, <1>1, <1>3
  <2>11. Len(buf'[h]) = Len(buf[h]) + n
    BY <2>9, <2>10
  <2>12. WindowInv'
    <3> SUFFICES ASSUME NEW g \in Handles, file[g] # NULL
                 PROVE  /\ buf'[g] = Reads!Bytes(file[g], begin_offset[g], Len(buf'[g]))
                        /\ Len(buf'[g]) > 0 =>
                             begin_offset[g] + Len(buf'[g]) <= Length[file[g]]
      BY DEF WindowInv, Reads!Bytes
    <3>1. CASE g = h
      <4>1. buf'[h] = Reads!Bytes(f, begin_offset[h], Len(buf'[h]))
        BY <2>8, <2>10, <2>11
      <4>2. begin_offset[h] + Len(buf'[h]) <= Length[f]
        BY <2>5, <2>11, <1>1, <2>3
      <4> QED
        BY <3>1, <4>1, <4>2
    <3>2. CASE g # h
      BY <3>2, <2>10 DEF ReadInv, WindowInv
    <3> QED
      BY <3>1, <3>2
  <2>13. InWindow'
    BY <1>1, <1>2, <2>3, <2>11 DEF InWindow
  <2>14. buf_null' \in [Handles -> BOOLEAN]
    BY <1>3, <2>2, <2>4
  <2> HIDE DEF t
  <2>15. CASE transfer' = t
    <3>1. transfer'.next = begin_offset[h] + Len(buf'[h]) /\ transfer'.next <= Length[f]
      BY <1>1, <2>3, <2>4, <2>5, <2>11, <2>15
    <3> QED
      BY <3>1, <2>1, <2>4, <2>10, <2>12, <2>13, <2>14, <2>15 DEF Running
  <2>16. CASE transfer' = Ended(t, "failed")
    <3>1. transfer' \in Transfers /\ transfer'.state = "done" /\ transfer'.msg
            /\ transfer'.result = "failed"
      BY <2>4, <2>16 DEF Ended, Transfers
    <3> QED
      BY <3>1, <2>1, <2>10, <2>12, <2>13, <2>14 DEF Running
  <2>17. CASE transfer' = Ended(t, "OK") /\ t.next = Length[t.url]
    <3>1. transfer' \in Transfers /\ transfer'.state = "done" /\ transfer'.msg
      BY <2>4, <2>17 DEF Ended, Transfers
    <3>2. AtEnd'
      BY <2>4, <2>11, <2>17, <1>1, <2>3 DEF AtEnd
    <3> QED
      BY <3>1, <3>2, <2>1, <2>10, <2>12, <2>13, <2>14 DEF Running
  <2> QED
    BY <2>2, <2>15, <2>16, <2>17 DEF t
<1> QED
  BY <1>7, <1>8, <1>9, <1>10 DEF curl_multi_perform, Progress

-----------------------------------------------------------------------------
(* Handles that appear, disappear, and move their windows.                 *)

\* An empty window is a piece of any file.
LEMMA EmptyWindow ==
  ASSUME NEW f \in Files, NEW from \in Nat
  PROVE  <<>> = Reads!Bytes(f, from, Len(<<>>)) /\ Len(<<>>) = 0
           /\ <<>> \in Seq(Files \X Nat)
<1>1. <<>> \in Seq(Files \X Nat) /\ Len(<<>>) = 0
  OBVIOUS
<1>2. Reads!Bytes(f, from, 0) \in Seq(Files \X Nat) /\ Len(Reads!Bytes(f, from, 0)) = 0
  BY BytesType
<1>3. <<>> = Reads!Bytes(f, from, 0)
  BY <1>2, EmptySeq
<1> QED
  BY <1>1, <1>3

\* What holds of the other handles does not change with one that is new.
LEMMA NewHandleGood ==
  ASSUME ReadInv, NEW h \in Handles, NEW f \in Files, NEW shrink \in BOOLEAN,
         NewHandle(h, f, shrink)
  PROVE  /\ file' \in [Handles -> Files \union {NULL}] /\ file'[h] = f
         /\ buf' \in [Handles -> Seq(Files \X Nat)]
         /\ begin_offset' \in [Handles -> Nat]
         /\ buf_null' \in [Handles -> BOOLEAN]
         /\ can_shrink' \in [Handles -> BOOLEAN]
         /\ WindowInv'
         /\ \A g \in Handles \ {h} :
              file'[g] = file[g] /\ buf'[g] = buf[g] /\ begin_offset'[g] = begin_offset[g]
<1>1. <<>> \in Seq(Files \X Nat) /\ Len(<<>>) = 0 /\ <<>> = Reads!Bytes(f, 0, Len(<<>>))
  BY EmptyWindow
<1>2. /\ file' \in [Handles -> Files \union {NULL}] /\ file'[h] = f
      /\ buf' \in [Handles -> Seq(Files \X Nat)] /\ buf'[h] = <<>>
      /\ begin_offset' \in [Handles -> Nat] /\ begin_offset'[h] = 0
      /\ buf_null' \in [Handles -> BOOLEAN]
      /\ can_shrink' \in [Handles -> BOOLEAN]
      /\ \A g \in Handles \ {h} :
           file'[g] = file[g] /\ buf'[g] = buf[g] /\ begin_offset'[g] = begin_offset[g]
  BY <1>1 DEF ReadInv, TypeOK, NewHandle
<1>3. WindowInv'
  <2> SUFFICES ASSUME NEW g \in Handles, file'[g] # NULL
               PROVE  /\ buf'[g] = Reads!Bytes(file'[g], begin_offset'[g], Len(buf'[g]))
                      /\ Len(buf'[g]) > 0 =>
                           begin_offset'[g] + Len(buf'[g]) <= Length[file'[g]]
    BY DEF WindowInv, Reads!Bytes
  <2>1. CASE g = h
    BY <2>1, <1>1, <1>2
  <2>2. CASE g # h
    BY <2>2, <1>2 DEF ReadInv, WindowInv
  <2> QED
    BY <2>1, <2>2
<1> QED
  BY <1>2, <1>3

\* Nor with one that is freed.
LEMMA FreeHandleGood ==
  ASSUME ReadInv, NEW h \in Handles, FreeHandle(h)
  PROVE  /\ file' \in [Handles -> Files \union {NULL}] /\ file'[h] = NULL
         /\ buf' \in [Handles -> Seq(Files \X Nat)]
         /\ begin_offset' \in [Handles -> Nat]
         /\ buf_null' \in [Handles -> BOOLEAN]
         /\ can_shrink' \in [Handles -> BOOLEAN]
         /\ WindowInv'
         /\ \A g \in Handles \ {h} :
              file'[g] = file[g] /\ buf'[g] = buf[g] /\ begin_offset'[g] = begin_offset[g]
<1>1. <<>> \in Seq(Files \X Nat)
  OBVIOUS
<1>2. /\ file' \in [Handles -> Files \union {NULL}] /\ file'[h] = NULL
      /\ buf' \in [Handles -> Seq(Files \X Nat)]
      /\ begin_offset' \in [Handles -> Nat]
      /\ buf_null' \in [Handles -> BOOLEAN]
      /\ can_shrink' \in [Handles -> BOOLEAN]
      /\ \A g \in Handles \ {h} :
           file'[g] = file[g] /\ buf'[g] = buf[g] /\ begin_offset'[g] = begin_offset[g]
  BY <1>1 DEF ReadInv, TypeOK, FreeHandle
<1>3. WindowInv'
  <2> SUFFICES ASSUME NEW g \in Handles, file'[g] # NULL
               PROVE  /\ buf'[g] = Reads!Bytes(file'[g], begin_offset'[g], Len(buf'[g]))
                      /\ Len(buf'[g]) > 0 =>
                           begin_offset'[g] + Len(buf'[g]) <= Length[file'[g]]
    BY DEF WindowInv, Reads!Bytes
  <2> QED
    BY <1>2 DEF ReadInv, WindowInv
<1> QED
  BY <1>2, <1>3

\* What the window of the call holds from the offset on, and what of it is copied.
LEMMA CopiedGood ==
  ASSUME ReadInv, pc = "copy"
  PROVE  LET h == call.fh IN
         /\ h \in Handles /\ file[h] \in Files
         /\ buf[h] = Reads!Bytes(file[h], begin_offset[h], Len(buf[h]))
         /\ begin_offset[h] \in Nat /\ Len(buf[h]) \in Nat
         /\ call.offset \in Nat /\ call.size \in Nat /\ call.size >= 1
         /\ ToCopy \in Nat /\ Copied \in Nat
         /\ ToCopy = begin_offset[h] + Len(buf[h]) - call.offset
         /\ Copied = (IF call.size > ToCopy THEN ToCopy ELSE call.size)
         /\ call.offset - begin_offset[h] \in Nat
         /\ (call.offset - begin_offset[h]) + Copied <= Len(buf[h])
<1> DEFINE h == call.fh
<1>1. /\ h \in Handles /\ file[h] \in Files /\ file[h] # NULL
      /\ begin_offset[h] \in Nat /\ Len(buf[h]) \in Nat
      /\ call.offset \in Nat /\ call.size \in Nat /\ call.size >= 1
  BY ConstantsAssumption, LenProperties DEF ReadInv, CallInv, TypeOK
<1>2. buf[h] = Reads!Bytes(file[h], begin_offset[h], Len(buf[h]))
  BY <1>1 DEF ReadInv, WindowInv
<1>3. begin_offset[h] <= call.offset /\ call.offset <= begin_offset[h] + Len(buf[h])
  BY DEF ReadInv, ChunkInv, InWindow
<1>4. ToCopy \in Nat /\ ToCopy = begin_offset[h] + Len(buf[h]) - call.offset
  BY <1>1, <1>3 DEF ToCopy
<1>5. Copied = (IF call.size > ToCopy THEN ToCopy ELSE call.size)
  BY DEF Copied
<1>6. Copied \in Nat /\ Copied <= ToCopy
  BY <1>1, <1>4, <1>5
<1>7. call.offset - begin_offset[h] \in Nat
  BY <1>1, <1>3
<1>8. (call.offset - begin_offset[h]) + Copied <= Len(buf[h])
  BY <1>1, <1>3, <1>4, <1>6
<1> QED
  BY <1>1, <1>2, <1>4, <1>5, <1>6, <1>7, <1>8

\* A window that is cut stays a piece of its file, with the same end.
LEMMA ShrinkGood ==
  ASSUME ReadInv, pc = "copy", Shrink(call.fh), UNCHANGED file
  PROVE  /\ buf' \in [Handles -> Seq(Files \X Nat)]
         /\ begin_offset' \in [Handles -> Nat]
         /\ WindowInv'
         /\ \A g \in Handles :
              begin_offset'[g] + Len(buf'[g]) = begin_offset[g] + Len(buf[g])
<1> DEFINE h == call.fh
<1>1. TypeOK /\ WindowInv
  BY DEF ReadInv
<1>2. CASE ~Shrinks(h)
  BY <1>1, <1>2 DEF Shrink, TypeOK, WindowInv
<1>3. CASE Shrinks(h)
  <2>1. /\ h \in Handles /\ file[h] \in Files
        /\ buf[h] = Reads!Bytes(file[h], begin_offset[h], Len(buf[h]))
    BY CopiedGood
  <2>2. PICK b \in Nat, l \in Nat, o \in Nat, c \in Nat :
          /\ b = begin_offset[h] /\ l = Len(buf[h]) /\ o = call.offset /\ c = Copied
          /\ o - b \in Nat /\ (o - b) + c <= l
    BY CopiedGood
  <2>12. b <= o /\ (o - b) + c <= l
    BY <2>2
  <2>3. PICK i \in Nat \ {0}, n \in Nat, at \in Nat :
          i = o - b + c + 1 /\ n = l - i + 1 /\ at = b + (i - 1)
    <3>1. o - b + c + 1 \in Nat \ {0} /\ l - (o - b + c + 1) + 1 \in Nat
            /\ b + ((o - b + c + 1) - 1) \in Nat
      BY <2>12
    <3> QED
      BY <3>1
  <2>4. at = o + c /\ at + n = b + l /\ i <= l + 1 /\ l <= l /\ n <= l
    BY <2>12, <2>3
  <2> DEFINE s == Part(buf[h], i, l)
  <2>5. s = Reads!Bytes(file[h], at, n)
    <3>1. \A f \in Files : Part(Reads!Bytes(f, b, l), i, l) = Reads!Bytes(f, at, n)
      BY <2>3, <2>4, BytesPart
    <3> QED
      BY <2>1, <2>2, <3>1
  <2>6. s \in Seq(Files \X Nat) /\ Len(s) = n
    <3>1. \A f \in Files : /\ Reads!Bytes(f, at, n) \in Seq(Files \X Nat)
                           /\ Len(Reads!Bytes(f, at, n)) = n
      BY <2>4, BytesType
    <3> QED
      BY <2>1, <2>5, <3>1
  <2>7. /\ buf' = [buf EXCEPT ![h] = s]
        /\ begin_offset' = [begin_offset EXCEPT ![h] = at]
    BY <1>3, <2>2, <2>3, <2>4 DEF Shrink, Part
  <2> HIDE DEF s
  <2>8. /\ buf' \in [Handles -> Seq(Files \X Nat)] /\ buf'[h] = s
        /\ begin_offset' \in [Handles -> Nat] /\ begin_offset'[h] = at
        /\ \A g \in Handles \ {h} :
             buf'[g] = buf[g] /\ begin_offset'[g] = begin_offset[g]
    BY <1>1, <2>1, <2>4, <2>6, <2>7 DEF TypeOK
  <2>9. begin_offset'[h] + Len(buf'[h]) = begin_offset[h] + Len(buf[h])
    BY <2>2, <2>4, <2>6, <2>8
  <2>10. WindowInv'
    <3> SUFFICES ASSUME NEW g \in Handles, file[g] # NULL
                 PROVE  /\ buf'[g] = Reads!Bytes(file[g], begin_offset'[g],
                                                   Len(buf'[g]))
                        /\ Len(buf'[g]) > 0 =>
                             begin_offset'[g] + Len(buf'[g]) <= Length[file[g]]
      BY DEF WindowInv, Reads!Bytes
    <3>1. CASE g = h
      <4>1. buf'[h] = Reads!Bytes(file[h], begin_offset'[h], Len(buf'[h]))
        BY <2>5, <2>6, <2>8
      <4>2. l > 0 => b + l <= Length[file[h]]
        BY <1>1, <2>1, <2>2, <3>1 DEF WindowInv
      <4>3. Len(buf'[h]) > 0 => l > 0
        BY <2>3, <2>6, <2>8
      <4>4. begin_offset'[h] + Len(buf'[h]) = b + l
        BY <2>2, <2>9
      <4> QED
        BY <3>1, <4>1, <4>2, <4>3, <4>4
    <3>2. CASE g # h
      BY <1>1, <3>2, <2>8 DEF WindowInv
    <3> QED
      BY <3>1, <3>2
  <2>11. ASSUME NEW g \in Handles
         PROVE  begin_offset'[g] + Len(buf'[g]) = begin_offset[g] + Len(buf[g])
    BY <2>8, <2>9
  <2> QED
    BY <2>8, <2>10, <2>11
<1> QED
  BY <1>2, <1>3

-----------------------------------------------------------------------------
(* The steps keep the invariant.                                           *)

\* It holds before the first request.
LEMMA InitGood == Init => ReadInv
<1> SUFFICES ASSUME Init PROVE ReadInv
  OBVIOUS
<1>1. <<>> \in Seq(Files \X Nat)
  OBVIOUS
<1>2. Reads!NoCall \in [op : {"none", "open", "read"}, fh : Handles \union {NULL},
                        offset : Nat, size : Nat]
  BY DEF Reads!NoCall
<1>3. NoTransfer \in Transfers /\ NoTransfer.state = "none"
  BY DEF NoTransfer, Transfers
<1>4. TypeOK
  BY <1>1, <1>2, <1>3 DEF Init, TypeOK
<1>5. CallInv /\ WindowInv
  BY <1>2 DEF Init, CallInv, WindowInv
<1>6. TransferInv /\ ChunkInv
  BY <1>3 DEF Init, TransferInv, TransferContinues, ChunkInv, Running
<1> QED
  BY <1>4, <1>5, <1>6 DEF ReadInv

\* What the pieces of the invariant say between two requests.
LEMMA IdleFacts ==
  ASSUME ReadInv, pc = "idle"
  PROVE  /\ call = Reads!NoCall /\ ~err /\ range = 0
         /\ transfer.state # "added"
BY DEF ReadInv, CallInv, ChunkInv

\* What a transfer that is cancelled leaves.
LEMMA CancelGood ==
  ASSUME ReadInv, pc = "idle", cancel_previous_multi
  PROVE  transfer' \in Transfers /\ transfer'.state = "none" /\ ~attached_to_multi'
<1>1. NoTransfer \in Transfers /\ NoTransfer.state = "none"
  BY DEF NoTransfer, Transfers
<1>2. transfer \in Transfers /\ (~attached_to_multi => transfer.state = "none")
  BY DEF ReadInv, TypeOK, TransferInv
<1> QED
  BY <1>1, <1>2 DEF cancel_previous_multi

\* An O_RDONLY open begins with an empty window.
LEMMA RequestOpenGood ==
  ASSUME ReadInv, RequestOpen
  PROVE  ReadInv'
<1>1. PICK h \in Handles, f \in Files :
        NewHandle(h, f, TRUE) /\ call' = Reads!Call("open", h, 0, 1)
  BY DEF RequestOpen
<1>2. /\ pc = "idle" /\ pc' = "enter"
      /\ UNCHANGED <<err, current_fh, attached_to_multi, range, transfer>>
  BY DEF RequestOpen, multiVars
<1>3. /\ file' \in [Handles -> Files \union {NULL}] /\ file'[h] = f
      /\ buf' \in [Handles -> Seq(Files \X Nat)]
      /\ begin_offset' \in [Handles -> Nat]
      /\ buf_null' \in [Handles -> BOOLEAN]
      /\ can_shrink' \in [Handles -> BOOLEAN]
      /\ WindowInv'
      /\ \A g \in Handles \ {h} :
           file'[g] = file[g] /\ buf'[g] = buf[g] /\ begin_offset'[g] = begin_offset[g]
  BY <1>1, NewHandleGood
<1>4. call' = [op |-> "open", fh |-> h, offset |-> 0, size |-> 1]
  BY <1>1 DEF Reads!Call
<1>5. TypeOK'
  BY <1>2, <1>3, <1>4 DEF ReadInv, TypeOK, Transfers
<1>6. CallInv'
  BY <1>2, <1>3, <1>4, ConstantsAssumption DEF CallInv, Reads!NoCall
<1>7. TransferInv'
  <2>1. Running(transfer) => current_fh # h
    BY <1>1, ConstantsAssumption DEF NewHandle, ReadInv, TransferInv, TransferContinues
  <2>2. current_fh \in Handles \union {NULL}
    BY DEF ReadInv, TypeOK
  <2> QED
    BY <1>2, <1>3, <2>1, <2>2 DEF ReadInv, TransferInv, TransferContinues, Running
<1>8. ChunkInv'
  BY <1>2, IdleFacts DEF ChunkInv
<1> QED
  BY <1>3, <1>5, <1>6, <1>7, <1>8 DEF ReadInv

\* An open with O_CREAT cancels the transfer and begins with an empty window.
LEMMA RequestCreateGood ==
  ASSUME ReadInv, RequestCreate
  PROVE  ReadInv'
<1>1. PICK h \in Handles, f \in Files :
        NewHandle(h, f, FALSE) /\ call' = Reads!Call("open", h, 0, 1)
  BY DEF RequestCreate
<1>2. pc = "idle" /\ pc' = "created" /\ UNCHANGED <<err, current_fh, range>>
  BY DEF RequestCreate
<1>3. /\ file' \in [Handles -> Files \union {NULL}] /\ file'[h] = f
      /\ buf' \in [Handles -> Seq(Files \X Nat)]
      /\ begin_offset' \in [Handles -> Nat]
      /\ buf_null' \in [Handles -> BOOLEAN]
      /\ can_shrink' \in [Handles -> BOOLEAN]
      /\ WindowInv'
  BY <1>1, NewHandleGood
<1>4. call' = [op |-> "open", fh |-> h, offset |-> 0, size |-> 1]
  BY <1>1 DEF Reads!Call
<1>5. transfer' \in Transfers /\ transfer'.state = "none" /\ attached_to_multi' = FALSE
  BY <1>2, CancelGood DEF RequestCreate, cancel_previous_multi
<1>6. TypeOK'
  BY <1>2, <1>3, <1>4, <1>5 DEF ReadInv, TypeOK, Transfers
<1>7. CallInv'
  BY <1>2, <1>3, <1>4, ConstantsAssumption DEF CallInv, Reads!NoCall
<1>8. TransferInv' /\ ChunkInv'
  BY <1>2, <1>5, IdleFacts DEF TransferInv, TransferContinues, ChunkInv, Running
<1> QED
  BY <1>3, <1>6, <1>7, <1>8 DEF ReadInv

\* A read request changes no window.
LEMMA RequestReadGood ==
  ASSUME ReadInv, RequestRead
  PROVE  ReadInv'
<1>1. PICK h \in Handles, offset \in 0..MaxOffset, size \in 1..MaxSize :
        file[h] # NULL /\ call' = Reads!Call("read", h, offset, size)
  BY DEF RequestRead
<1>2. /\ pc = "idle" /\ pc' = "enter"
      /\ UNCHANGED <<file, can_shrink, err, buf, begin_offset, buf_null,
                     current_fh, attached_to_multi, range, transfer>>
  BY DEF RequestRead, fileVars, bufVars, multiVars
<1>3. call' = [op |-> "read", fh |-> h, offset |-> offset, size |-> size]
  BY <1>1 DEF Reads!Call
<1>4. offset \in Nat /\ size \in Nat /\ size >= 1 /\ offset <= MaxOffset
  BY ConstantsAssumption
<1>5. TypeOK'
  BY <1>2, <1>3, <1>4 DEF ReadInv, TypeOK, Transfers
<1>6. CallInv'
  BY <1>1, <1>2, <1>3, <1>4 DEF ReadInv, TypeOK, CallInv
<1>7. WindowInv'
  BY <1>2 DEF ReadInv, WindowInv
<1>8. TransferInv'
  BY <1>2 DEF ReadInv, TransferInv, TransferContinues, Running
<1>9. ChunkInv'
  BY <1>2, IdleFacts DEF ChunkInv
<1> QED
  BY <1>5, <1>6, <1>7, <1>8, <1>9 DEF ReadInv

\* Any other request on the connection cancels the transfer.
LEMMA OtherRequestGood ==
  ASSUME ReadInv, OtherRequest
  PROVE  ReadInv'
<1>1. /\ pc = "idle"
      /\ UNCHANGED <<file, can_shrink, call, pc, err, buf, begin_offset, buf_null,
                     current_fh, range>>
  BY DEF OtherRequest, fileVars, bufVars
<1>2. transfer' \in Transfers /\ transfer'.state = "none" /\ attached_to_multi' = FALSE
  BY <1>1, CancelGood DEF OtherRequest, cancel_previous_multi
<1>3. TypeOK' /\ CallInv' /\ WindowInv'
  BY <1>1, <1>2 DEF ReadInv, TypeOK, CallInv, WindowInv, Transfers
<1>4. TransferInv' /\ ChunkInv'
  BY <1>1, <1>2, IdleFacts DEF TransferInv, TransferContinues, ChunkInv, Running
<1> QED
  BY <1>3, <1>4 DEF ReadInv

\* ftpfs_release forgets the current handle when it is the one it frees.
LEMMA ReleaseGood ==
  ASSUME ReadInv, Release
  PROVE  ReadInv'
<1>1. PICK h \in Handles :
        FreeHandle(h) /\ current_fh' = IF current_fh = h THEN NULL ELSE current_fh
  BY DEF Release
<1>2. pc = "idle" /\ UNCHANGED <<call, pc, err, attached_to_multi, range, transfer>>
  BY DEF Release
<1>3. /\ file' \in [Handles -> Files \union {NULL}] /\ file'[h] = NULL
      /\ buf' \in [Handles -> Seq(Files \X Nat)]
      /\ begin_offset' \in [Handles -> Nat]
      /\ buf_null' \in [Handles -> BOOLEAN]
      /\ can_shrink' \in [Handles -> BOOLEAN]
      /\ WindowInv'
      /\ \A g \in Handles \ {h} :
           file'[g] = file[g] /\ buf'[g] = buf[g] /\ begin_offset'[g] = begin_offset[g]
  BY <1>1, FreeHandleGood
<1>4. TypeOK'
  <2>1. current_fh' \in Handles \union {NULL}
    BY <1>1 DEF ReadInv, TypeOK
  <2> QED
    BY <1>2, <1>3, <2>1 DEF ReadInv, TypeOK, Transfers
<1>5. CallInv'
  BY <1>2 DEF ReadInv, CallInv
<1>6. TransferInv'
  <2>1. current_fh \in Handles \union {NULL}
    BY DEF ReadInv, TypeOK
  <2> QED
    BY <1>1, <1>2, <1>3, <2>1 DEF ReadInv, TransferInv, TransferContinues, Running
<1>7. ChunkInv'
  BY <1>2, IdleFacts DEF ChunkInv
<1> QED
  BY <1>3, <1>4, <1>5, <1>6, <1>7 DEF ReadInv

\* The first test of ftpfs_read_chunk.
LEMMA EnterGood ==
  ASSUME ReadInv, Enter
  PROVE  ReadInv'
<1>1. /\ pc = "enter" /\ err' = FALSE
      /\ UNCHANGED <<file, can_shrink, call, buf, begin_offset, buf_null,
                     current_fh, attached_to_multi, range, transfer>>
  BY DEF Enter, Goto, fileVars, bufVars, multiVars
<1>2. \/ pc' = "copy" /\ InWindow /\ Enough
      \/ pc' = "restart"
      \/ pc' = "check" /\ InWindow /\ current_fh = call.fh
  BY DEF Enter, Goto
<1>3. pc' \in {"copy", "restart", "check"}
  BY <1>2
<1>4. TypeOK'
  <2>1. Transfers' = Transfers
    BY DEF Transfers
  <2> QED
    BY <1>1, <1>3, <2>1 DEF ReadInv, TypeOK
<1>5. CallInv'
  BY <1>1, <1>3 DEF ReadInv, CallInv
<1>6. WindowInv'
  BY <1>1 DEF ReadInv, WindowInv
<1>7. TransferInv'
  BY <1>1 DEF ReadInv, TransferInv, TransferContinues, Running
<1>8. ChunkInv'
  BY <1>1, <1>2 DEF ReadInv, ChunkInv, InWindow, Enough
<1> QED
  BY <1>4, <1>5, <1>6, <1>7, <1>8 DEF ReadInv

\* check_running lets a transfer go on only where the window ends.
LEMMA CheckRunningGood ==
  ASSUME ReadInv, CheckRunning
  PROVE  ReadInv'
<1>1. /\ pc = "check" /\ curl_multi_perform
      /\ pc' = (IF Running(transfer)' THEN "perform" ELSE "restart")
      /\ UNCHANGED <<file, can_shrink, call, err, begin_offset,
                     current_fh, attached_to_multi, range>>
  BY DEF CheckRunning, Goto, fileVars, multiVars
<1>2. /\ current_fh = call.fh /\ range = 0 /\ ~err /\ call.fh \in Handles
      /\ file[call.fh] \in Files
  BY <1>1 DEF ReadInv, ChunkInv, CallInv
<1>3. /\ transfer' \in Transfers
      /\ buf' \in [Handles -> Seq(Files \X Nat)]
      /\ buf_null' \in [Handles -> BOOLEAN]
      /\ WindowInv' /\ InWindow'
      /\ transfer'.state # "added"
      /\ transfer'.state = "none" <=> transfer.state = "none"
      /\ Running(transfer)' =>
           /\ transfer'.data = call.fh /\ transfer'.url = file[call.fh]
           /\ transfer'.next = begin_offset[call.fh] + Len(buf'[call.fh])
           /\ transfer'.next <= Length[file[call.fh]]
  BY <1>1, PerformGrows
<1>4. TypeOK' /\ CallInv'
  BY <1>1, <1>3 DEF ReadInv, TypeOK, CallInv
<1>5. TransferInv'
  BY <1>1, <1>2, <1>3 DEF ReadInv, TransferInv, TransferContinues, Running
<1>6. ChunkInv'
  BY <1>1, <1>2, <1>3 DEF ChunkInv
<1> QED
  BY <1>3, <1>4, <1>5, <1>6 DEF ReadInv

\* Here the offset goes through the range string.
LEMMA RestartGood ==
  ASSUME ReadInv, RangeFits, Restart
  PROVE  ReadInv'
<1> DEFINE h == call.fh
<1>1. /\ h \in Handles /\ file[h] \in Files /\ h # NULL
      /\ call.offset \in 0..MaxOffset /\ call.offset \in Nat
      /\ range = 0 /\ ~err /\ pc = "restart"
  BY ConstantsAssumption DEF Restart, ReadInv, CallInv, ChunkInv
<1>2. /\ buf' = [buf EXCEPT ![h] = <<>>]
      /\ buf_null' = [buf_null EXCEPT ![h] = FALSE]
      /\ begin_offset' = [begin_offset EXCEPT ![h] = call.offset]
      /\ current_fh' = h /\ attached_to_multi' = TRUE /\ pc' = "perform"
      /\ transfer' = Added(h)
      /\ UNCHANGED <<file, can_shrink, call, err>>
  BY DEF Restart, Goto, fileVars
<1>3. range' = call.offset
  BY <1>1 DEF Restart, RangeFits
<1>4. /\ transfer' \in Transfers /\ transfer'.state = "added"
      /\ transfer'.url = file[h] /\ transfer'.data = h
  BY <1>1, <1>2 DEF Added, NoTransfer, Transfers
<1>5. <<>> \in Seq(Files \X Nat) /\ Len(<<>>) = 0
        /\ \A f \in Files, from \in Nat : <<>> = Reads!Bytes(f, from, Len(<<>>))
  BY EmptyWindow
<1>6. /\ buf' \in [Handles -> Seq(Files \X Nat)] /\ buf'[h] = <<>>
      /\ begin_offset' \in [Handles -> Nat] /\ begin_offset'[h] = call.offset
      /\ buf_null' \in [Handles -> BOOLEAN]
      /\ \A g \in Handles \ {h} :
           buf'[g] = buf[g] /\ begin_offset'[g] = begin_offset[g]
  BY <1>1, <1>2, <1>5 DEF ReadInv, TypeOK
<1>7. TypeOK' /\ CallInv'
  BY <1>1, <1>2, <1>3, <1>4, <1>6 DEF ReadInv, TypeOK, CallInv
<1>8. WindowInv'
  <2> SUFFICES ASSUME NEW g \in Handles, file'[g] # NULL
               PROVE  /\ buf'[g] = Reads!Bytes(file'[g], begin_offset'[g], Len(buf'[g]))
                      /\ Len(buf'[g]) > 0 =>
                           begin_offset'[g] + Len(buf'[g]) <= Length[file'[g]]
    BY DEF WindowInv, Reads!Bytes
  <2>1. CASE g = h
    BY <2>1, <1>1, <1>2, <1>5, <1>6
  <2>2. CASE g # h
    BY <2>2, <1>2, <1>6 DEF ReadInv, WindowInv
  <2> QED
    BY <2>1, <2>2
<1>9. TransferInv'
  BY <1>1, <1>2, <1>4 DEF TransferInv, TransferContinues, Running
<1>10. InWindow'
  BY <1>1, <1>2, <1>5, <1>6 DEF InWindow
<1>11. ChunkInv'
  BY <1>1, <1>2, <1>3, <1>4, <1>6, <1>10 DEF ChunkInv, Running
<1> QED
  BY <1>7, <1>8, <1>9, <1>11 DEF ReadInv

\* The two places where bytes are waited for.
LEMMA WaitGood ==
  ASSUME ReadInv, Perform \/ SelectReturns
  PROVE  ReadInv'
<1>1. /\ pc \in {"perform", "loop"} /\ curl_multi_perform
      /\ pc' = "loop" /\ range' = 0
      /\ UNCHANGED <<file, can_shrink, call, err, begin_offset,
                     current_fh, attached_to_multi>>
  BY DEF ReadInv, ChunkInv, Perform, SelectReturns, Goto, fileVars, multiVars
<1>2. /\ current_fh = call.fh /\ ~err /\ call.fh \in Handles
      /\ file[call.fh] \in Files /\ Running(transfer)
  BY <1>1 DEF ReadInv, ChunkInv, CallInv, Perform, SelectReturns
<1>3. /\ transfer' \in Transfers
      /\ buf' \in [Handles -> Seq(Files \X Nat)]
      /\ buf_null' \in [Handles -> BOOLEAN]
      /\ WindowInv' /\ InWindow'
      /\ transfer'.state # "added"
      /\ transfer'.state = "none" <=> transfer.state = "none"
      /\ Running(transfer)' =>
           /\ transfer'.data = call.fh /\ transfer'.url = file[call.fh]
           /\ transfer'.next = begin_offset[call.fh] + Len(buf'[call.fh])
           /\ transfer'.next <= Length[file[call.fh]]
      /\ ~Running(transfer)' =>
           /\ transfer'.state = "done" /\ transfer'.msg
           /\ transfer'.result = "OK" => AtEnd'
  BY <1>1, <1>2, PerformGrows
<1>4. TypeOK' /\ CallInv'
  BY <1>1, <1>3 DEF ReadInv, TypeOK, CallInv
<1>5. TransferInv'
  BY <1>1, <1>2, <1>3 DEF ReadInv, TransferInv, TransferContinues, Running
<1>6. ChunkInv'
  BY <1>1, <1>2, <1>3 DEF ChunkInv, Running
<1> QED
  BY <1>3, <1>4, <1>5, <1>6 DEF ReadInv

\* The steps that only move on.
LEMMA LoopGood ==
  ASSUME ReadInv, "open" \notin SelectFailsIn,
         LoopEnds \/ SelectFails \/ ReadMessages \/ Crash
  PROVE  ReadInv'
<1>1. UNCHANGED <<file, can_shrink, call, buf, begin_offset, buf_null,
                  current_fh, attached_to_multi, range>>
  BY DEF LoopEnds, SelectFails, ReadMessages, Crash, Goto, fileVars, bufVars, multiVars
<1>2. transfer \in Transfers /\ err \in BOOLEAN
  BY DEF ReadInv, TypeOK
<1>3. CASE LoopEnds
  <2>1. /\ pc = "loop" /\ UNCHANGED <<err, transfer>>
        /\ \/ pc' = "copy" /\ Running(transfer) /\ Enough
           \/ pc' = "msgs" /\ ~Running(transfer)
    BY <1>3 DEF LoopEnds, Goto
  <2>2. TypeOK' /\ CallInv' /\ WindowInv'
    BY <1>1, <2>1 DEF ReadInv, TypeOK, CallInv, WindowInv, Transfers
  <2>3. TransferInv'
    BY <1>1, <2>1 DEF ReadInv, TransferInv, TransferContinues, Running
  <2>4. ChunkInv'
    BY <1>1, <2>1 DEF ReadInv, ChunkInv, InWindow, Enough, AtEnd, Running
  <2> QED
    BY <2>2, <2>3, <2>4 DEF ReadInv
<1>4. CASE SelectFails
  <2>1. /\ pc = "loop" /\ pc' = "copy" /\ err' = TRUE /\ UNCHANGED transfer
        /\ call.op # "open"
    BY <1>4 DEF SelectFails, Goto
  <2>2. TypeOK' /\ CallInv' /\ WindowInv'
    BY <1>1, <2>1 DEF ReadInv, TypeOK, CallInv, WindowInv, Transfers
  <2>3. TransferInv'
    BY <1>1, <2>1 DEF ReadInv, TransferInv, TransferContinues, Running
  <2>4. ChunkInv'
    BY <1>1, <2>1 DEF ReadInv, ChunkInv, InWindow, Enough, AtEnd, Running
  <2> QED
    BY <2>2, <2>3, <2>4 DEF ReadInv
<1>5. CASE ReadMessages
  <2>1. /\ pc = "msgs" /\ pc' = "copy"
        /\ err' = (err \/ ~transfer.msg \/ transfer.result # "OK")
        /\ transfer' = [transfer EXCEPT !.msg = FALSE]
    BY <1>5 DEF ReadMessages, Goto
  <2>2. /\ transfer' \in Transfers /\ transfer'.state = transfer.state
        /\ transfer'.state = "done"
    BY <1>2, <2>1 DEF ReadInv, ChunkInv, Transfers
  <2>3. TypeOK' /\ CallInv' /\ WindowInv'
    BY <1>1, <1>2, <2>1, <2>2 DEF ReadInv, TypeOK, CallInv, WindowInv
  <2>4. TransferInv'
    BY <1>1, <2>1, <2>2 DEF ReadInv, TransferInv, TransferContinues, Running
  <2>5. ~err' => AtEnd
    BY <2>1, <2>2 DEF ReadInv, ChunkInv
  <2>6. ChunkInv'
    BY <1>1, <2>1, <2>2, <2>5 DEF ReadInv, ChunkInv, InWindow, Enough, AtEnd, Running
  <2> QED
    BY <2>3, <2>4, <2>6 DEF ReadInv
<1>6. CASE Crash
  <2>1. pc = "copy" /\ pc' = "crashed" /\ UNCHANGED <<err, transfer>>
    BY <1>6 DEF Crash
  <2>2. TypeOK' /\ CallInv' /\ WindowInv'
    BY <1>1, <2>1 DEF ReadInv, TypeOK, CallInv, WindowInv, Transfers
  <2>3. TransferInv'
    BY <1>1, <2>1 DEF ReadInv, TransferInv, TransferContinues, Running
  <2>4. ChunkInv'
    BY <1>1, <2>1 DEF ReadInv, ChunkInv, Running
  <2> QED
    BY <2>2, <2>3, <2>4 DEF ReadInv
<1> QED
  BY <1>3, <1>4, <1>5, <1>6

\* The end of a read.
LEMMA CopyReadGood ==
  ASSUME ReadInv, CopyRead
  PROVE  ReadInv'
<1>1. /\ pc = "copy" /\ pc' = "idle" /\ call' = Reads!NoCall /\ err' = FALSE
      /\ Shrink(call.fh)
      /\ UNCHANGED <<file, can_shrink, buf_null, current_fh, attached_to_multi,
                     range, transfer>>
  BY DEF CopyRead, Return, fileVars, multiVars
<1>2. /\ buf' \in [Handles -> Seq(Files \X Nat)]
      /\ begin_offset' \in [Handles -> Nat]
      /\ WindowInv'
      /\ \A g \in Handles :
           begin_offset'[g] + Len(buf'[g]) = begin_offset[g] + Len(buf[g])
  BY <1>1, ShrinkGood
<1>3. Reads!NoCall = [op |-> "none", fh |-> NULL, offset |-> 0, size |-> 0]
  BY DEF Reads!NoCall
<1>4. TypeOK' /\ CallInv'
  BY <1>1, <1>2, <1>3 DEF ReadInv, TypeOK, CallInv, Transfers
<1>5. TransferInv'
  <2>1. current_fh \in Handles \union {NULL}
    BY DEF ReadInv, TypeOK
  <2> QED
    BY <1>1, <1>2, <2>1 DEF ReadInv, TransferInv, TransferContinues, Running
<1>6. ChunkInv'
  BY <1>1 DEF ReadInv, ChunkInv
<1> QED
  BY <1>2, <1>4, <1>5, <1>6 DEF ReadInv

\* An open that fails frees its handle: no transfer must be left running for it.
LEMMA OpenFails ==
  ASSUME ReadInv, pc \in {"copy", "created"}, ~Running(transfer),
         FreeHandle(call.fh), pc' = "idle", call' = Reads!NoCall, err' = FALSE,
         UNCHANGED <<current_fh, attached_to_multi, range, transfer>>
  PROVE  ReadInv'
<1>1. call.fh \in Handles
  BY DEF ReadInv, CallInv
<1>2. /\ file' \in [Handles -> Files \union {NULL}]
      /\ buf' \in [Handles -> Seq(Files \X Nat)]
      /\ begin_offset' \in [Handles -> Nat]
      /\ buf_null' \in [Handles -> BOOLEAN]
      /\ can_shrink' \in [Handles -> BOOLEAN]
      /\ WindowInv'
  BY <1>1, FreeHandleGood
<1>3. Reads!NoCall = [op |-> "none", fh |-> NULL, offset |-> 0, size |-> 0]
  BY DEF Reads!NoCall
<1>4. TypeOK' /\ CallInv'
  BY <1>2, <1>3 DEF ReadInv, TypeOK, CallInv, Transfers
<1>5. TransferInv'
  BY DEF ReadInv, TransferInv, TransferContinues, Running
<1>6. ChunkInv'
  BY DEF ReadInv, ChunkInv
<1> QED
  BY <1>2, <1>4, <1>5, <1>6 DEF ReadInv

\* The end of an open: a handle that is freed leaves no running transfer.
LEMMA CopyOpenGood ==
  ASSUME ReadInv, CopyOpen
  PROVE  ReadInv'
<1>1. /\ pc = "copy" /\ call.op = "open" /\ err' = FALSE
      /\ pc' = "idle" /\ call' = Reads!NoCall
      /\ UNCHANGED <<current_fh, attached_to_multi, range, transfer>>
  BY DEF CopyOpen, Return, multiVars
<1>2. CASE err /\ FreeHandle(call.fh)
  <2>1. ~Running(transfer)
    BY <1>1, <1>2 DEF ReadInv, ChunkInv
  <2> QED
    BY <1>1, <1>2, <2>1, OpenFails
<1>3. CASE Shrink(call.fh) /\ UNCHANGED <<file, can_shrink, buf_null>>
  <2>1. /\ buf' \in [Handles -> Seq(Files \X Nat)]
        /\ begin_offset' \in [Handles -> Nat]
        /\ WindowInv'
        /\ \A g \in Handles :
             begin_offset'[g] + Len(buf'[g]) = begin_offset[g] + Len(buf[g])
    BY <1>1, <1>3, ShrinkGood
  <2>2. Reads!NoCall = [op |-> "none", fh |-> NULL, offset |-> 0, size |-> 0]
    BY DEF Reads!NoCall
  <2>3. TypeOK' /\ CallInv'
    BY <1>1, <1>3, <2>1, <2>2 DEF ReadInv, TypeOK, CallInv, Transfers
  <2>4. TransferInv'
    <3>1. current_fh \in Handles \union {NULL}
      BY DEF ReadInv, TypeOK
    <3> QED
      BY <1>1, <1>3, <2>1, <3>1 DEF ReadInv, TransferInv, TransferContinues, Running
  <2>5. ChunkInv'
    BY <1>1 DEF ReadInv, ChunkInv
  <2> QED
    BY <2>1, <2>3, <2>4, <2>5 DEF ReadInv
<1> QED
  BY <1>2, <1>3 DEF CopyOpen, fileVars

\* Nothing was attached while the file was created.
LEMMA CreateEndsGood ==
  ASSUME ReadInv, CreateEnds
  PROVE  ReadInv'
<1>1. /\ pc = "created" /\ pc' = "idle" /\ call' = Reads!NoCall
      /\ UNCHANGED <<err, current_fh, attached_to_multi, range, transfer>>
  BY DEF CreateEnds, Return, multiVars
<1>2. err = FALSE /\ ~Running(transfer)
  BY <1>1 DEF ReadInv, ChunkInv, TypeOK
<1>3. CASE FreeHandle(call.fh)
  BY <1>1, <1>2, <1>3, OpenFails
<1>4. CASE UNCHANGED <<fileVars, bufVars>>
  <2>1. UNCHANGED <<file, can_shrink, buf, begin_offset, buf_null>>
    BY <1>4 DEF fileVars, bufVars
  <2>2. Reads!NoCall = [op |-> "none", fh |-> NULL, offset |-> 0, size |-> 0]
    BY DEF Reads!NoCall
  <2>3. TypeOK' /\ CallInv' /\ WindowInv'
    BY <1>1, <2>1, <2>2 DEF ReadInv, TypeOK, CallInv, WindowInv, Transfers
  <2>4. TransferInv'
    BY <1>1, <2>1 DEF ReadInv, TransferInv, TransferContinues, Running
  <2>5. ChunkInv'
    BY <1>1 DEF ReadInv, ChunkInv
  <2> QED
    BY <2>3, <2>4, <2>5 DEF ReadInv
<1> QED
  BY <1>3, <1>4 DEF CreateEnds

\* Every step keeps the invariant.
LEMMA NextGood ==
  ASSUME RangeFits, "open" \notin SelectFailsIn, ReadInv, [Next]_vars
  PROVE  ReadInv'
<1>1. CASE Arrival
  BY <1>1, RequestOpenGood, RequestCreateGood, RequestReadGood, OtherRequestGood,
     ReleaseGood DEF Arrival
<1>2. CASE Serve
  BY <1>2, EnterGood, CheckRunningGood, RestartGood, WaitGood, LoopGood,
     CopyReadGood, CopyOpenGood, CreateEndsGood DEF Serve
<1>3. CASE UNCHANGED vars
  <2>1. UNCHANGED <<file, can_shrink, call, pc, err, buf, begin_offset, buf_null,
                    current_fh, attached_to_multi, range, transfer>>
    BY <1>3 DEF vars, fileVars, bufVars, multiVars
  <2>2. TypeOK' /\ CallInv' /\ WindowInv'
    BY <2>1 DEF ReadInv, TypeOK, CallInv, WindowInv, Transfers
  <2>3. TransferInv'
    BY <2>1 DEF ReadInv, TransferInv, TransferContinues, Running
  <2>4. ChunkInv'
    BY <2>1 DEF ReadInv, ChunkInv, InWindow, Enough, AtEnd, Running
  <2> QED
    BY <2>2, <2>3, <2>4 DEF ReadInv
<1> QED
  BY <1>1, <1>2, <1>3 DEF Next, Crashed

\* The invariant of ftpfs_read_chunk and what calls it, while no offset is cut by
\* the range string and select does not fail in an open.
THEOREM ReadInvariant ==
  ASSUME RangeFits, "open" \notin SelectFailsIn
  PROVE  Spec => []ReadInv
<1>1. ReadInv /\ [Next]_vars => ReadInv'
  BY NextGood
<1> QED
  BY <1>1, InitGood, PTL DEF Spec

-----------------------------------------------------------------------------
(* The theorems.                                                           *)

\* Every variable of the read path has its type in every state; in particular
\* no window starts before the file (begin_offset is never negative), although
\* ftpfs_read_chunk computes it from differences of offsets.
THEOREM TypeCorrect ==
  ASSUME RangeFits, "open" \notin SelectFailsIn
  PROVE  Spec => []TypeOK
<1>1. ReadInv => TypeOK
  BY DEF ReadInv
<1> QED
  BY <1>1, ReadInvariant, PTL

\* The window of an open handle is a piece of its own file at begin_offset,
\* whatever restarts, cancellations, failures and shrinking led to it, for every
\* number of handles, every file and every size of block, window and request.
THEOREM WindowsTrue ==
  ASSUME RangeFits, "open" \notin SelectFailsIn
  PROVE  Spec => []WindowTrue
<1>1. ReadInv => WindowTrue
  BY DEF ReadInv, WindowInv, WindowTrue
<1> QED
  BY <1>1, ReadInvariant, PTL

\* A transfer that check_running finds running was started for the current handle
\* and goes on where its window ends.
THEOREM TransfersContinue ==
  ASSUME RangeFits, "open" \notin SelectFailsIn
  PROVE  Spec => []TransferContinues
<1>1. ReadInv => TransferContinues
  BY DEF ReadInv, TransferInv
<1> QED
  BY <1>1, ReadInvariant, PTL

\* curl_multi_info_read has a message to give whenever ftpfs_read_chunk asks for
\* one: the pointer it follows in its debugging output is not NULL.
THEOREM MessagesWait ==
  ASSUME RangeFits, "open" \notin SelectFailsIn
  PROVE  Spec => []MessageWaits
<1>1. ReadInv => MessageWaits
  BY DEF ReadInv, ChunkInv, MessageWaits
<1> QED
  BY <1>1, ReadInvariant, PTL

\* CURLOPT_RANGE is not set any more when the next request is served, so that no
\* listing or command on the shared connection is cut by an earlier read.
THEOREM RangesCleared ==
  ASSUME RangeFits, "open" \notin SelectFailsIn
  PROVE  Spec => []RangeCleared
<1>1. ReadInv => RangeCleared
  BY DEF ReadInv, ChunkInv, RangeCleared
<1> QED
  BY <1>1, ReadInvariant, PTL

-----------------------------------------------------------------------------
(* The read path implements FileRead.                                      *)

\* A read that reports success copies as many bytes as the file has there.
LEMMA CopiesReadable ==
  ASSUME ReadInv, pc = "copy", ~err
  PROVE  Copied = Reads!Readable(file[call.fh], call.offset, call.size)
<1> DEFINE h == call.fh
<1>1. h \in Handles /\ file[h] \in Files /\ file[h] # NULL
  BY CopiedGood, ConstantsAssumption
<1>2. PICK b \in Nat, l \in Nat, o \in Nat, size \in Nat, len \in Nat :
        /\ b = begin_offset[h] /\ l = Len(buf[h]) /\ o = call.offset
        /\ size = call.size /\ len = Length[file[h]]
        /\ size >= 1 /\ o - b \in Nat
  BY <1>1, CopiedGood, ConstantsAssumption
<1>3. ToCopy = b + l - o /\ ToCopy \in Nat
        /\ Copied = (IF size > ToCopy THEN ToCopy ELSE size)
  BY <1>2, CopiedGood
<1>4. l >= size + o - b \/ b + l = len
  BY <1>2 DEF ReadInv, ChunkInv, Enough, AtEnd
<1>5. l > 0 => b + l <= len
  BY <1>1, <1>2 DEF ReadInv, WindowInv
<1>6. Reads!Readable(file[h], call.offset, call.size)
        = IF o >= len THEN 0 ELSE IF o + size > len THEN len - o ELSE size
  BY <1>2 DEF Reads!Readable
<1>7. b <= o /\ size >= 1
  BY <1>2
<1> HIDE DEF h
<1>8. (IF size > b + l - o THEN b + l - o ELSE size)
        = IF o >= len THEN 0 ELSE IF o + size > len THEN len - o ELSE size
  <2>1. b + l - o \in Nat
    BY <1>3
  <2> QED
    BY <1>4, <1>5, <1>7, <2>1
<1> QED
  BY <1>3, <1>6, <1>8 DEF h

\* What it copies are the bytes of the file at the offset asked for.
LEMMA CopiesBytes ==
  ASSUME ReadInv, pc = "copy"
  PROVE  LET first == call.offset - begin_offset[call.fh] IN
         SubSeq(buf[call.fh], first + 1, first + Copied)
           = Reads!Bytes(file[call.fh], call.offset, Copied)
<1> DEFINE h == call.fh
           first == call.offset - begin_offset[h]
<1>1. h \in Handles /\ file[h] \in Files
        /\ buf[h] = Reads!Bytes(file[h], begin_offset[h], Len(buf[h]))
  BY CopiedGood
<1>2. PICK b \in Nat, l \in Nat, o \in Nat, c \in Nat, d \in Nat :
        /\ b = begin_offset[h] /\ l = Len(buf[h]) /\ o = call.offset
        /\ c = Copied /\ d = first /\ d = o - b /\ d + c <= l
  BY CopiedGood
<1>3. PICK p \in Nat \ {0}, q \in Nat : p = d + 1 /\ q = d + c
  OBVIOUS
<1>4. p <= q + 1 /\ q <= l /\ o = b + (p - 1) /\ c = q - p + 1
  <2>1. d = o - b /\ d + c <= l
    BY <1>2
  <2> QED
    BY <1>3, <2>1
<1>5. \A f \in Files : Part(Reads!Bytes(f, b, l), p, q) = Reads!Bytes(f, o, c)
  BY <1>4, BytesPart
<1>6. Part(buf[h], p, q) = Reads!Bytes(file[h], o, c)
  BY <1>1, <1>2, <1>5
<1>7. SubSeq(buf[h], d + 1, d + c) = Reads!Bytes(file[h], o, c)
  BY <1>3, <1>6 DEF Part
<1> QED
  BY <1>2, <1>7, Zenon

\* Every step of the read path is a step of FileRead, or changes nothing that
\* FileRead speaks of.
LEMMA StepImplements ==
  ASSUME ReadInv, [Next]_vars
  PROVE  [Reads!Next]_(Reads!vars)
<1>1. CASE RequestOpen \/ RequestCreate
  <2>1. PICK h \in Handles, f \in Files :
          /\ file[h] = NULL /\ file' = [file EXCEPT ![h] = f]
          /\ call' = Reads!Call("open", h, 0, 1)
    BY <1>1 DEF RequestOpen, RequestCreate, NewHandle
  <2>2. pc = "idle" /\ ret' = Reads!NoAnswer
    BY <1>1 DEF RequestOpen, RequestCreate
  <2> QED
    BY <2>1, <2>2, IdleFacts DEF Reads!Next, Reads!RequestOpen
<1>2. CASE RequestRead
  <2>1. PICK h \in Handles, offset \in 0..MaxOffset, size \in 1..MaxSize :
          file[h] # NULL /\ call' = Reads!Call("read", h, offset, size)
    BY <1>2 DEF RequestRead
  <2>2. pc = "idle" /\ ret' = Reads!NoAnswer /\ UNCHANGED file
    BY <1>2 DEF RequestRead, fileVars
  <2>3. call' \in [op : {"read"}, fh : {g \in Handles : file[g] # NULL},
                   offset : Nat, size : Nat \ {0}]
    BY <2>1, ConstantsAssumption DEF Reads!Call
  <2> QED
    BY <2>2, <2>3, IdleFacts DEF Reads!Next, Reads!RequestRead
<1>3. CASE OtherRequest
  BY <1>3 DEF OtherRequest, fileVars, Reads!vars
<1>4. CASE Release
  <2>1. PICK h \in Handles : file[h] # NULL /\ file' = [file EXCEPT ![h] = NULL]
    BY <1>4 DEF Release, FreeHandle
  <2> QED
    BY <1>4, <2>1, IdleFacts DEF Release, Reads!Next, Reads!Release
<1>5. CASE \/ Enter \/ CheckRunning \/ Restart \/ Perform \/ LoopEnds
           \/ SelectFails \/ SelectReturns \/ ReadMessages \/ Crash
  BY <1>5 DEF Enter, CheckRunning, Restart, Perform, LoopEnds, SelectFails,
              SelectReturns, ReadMessages, Crash, Goto, fileVars, Reads!vars
<1>6. CASE CopyRead
  <2> DEFINE first == call.offset - begin_offset[call.fh]
             f == file[call.fh]
  <2>1. /\ pc = "copy" /\ call.op = "read" /\ call' = Reads!NoCall /\ UNCHANGED file
        /\ ret' = IF err THEN Reads!Failed
                  ELSE Reads!Ok(SubSeq(buf[call.fh], first + 1, first + Copied))
    BY <1>6 DEF CopyRead, Return, fileVars
  <2>2. ~err => SubSeq(buf[call.fh], first + 1, first + Copied)
                  = Reads!Bytes(f, call.offset, Reads!Readable(f, call.offset,
                  call.size))
    BY <2>1, CopiesBytes, CopiesReadable
  <2>3. ret' \in {Reads!Ok(Reads!Bytes(f, call.offset,
                             Reads!Readable(f, call.offset, call.size))),
                  Reads!Failed}
    BY <2>1, <2>2
  <2> QED
    BY <2>1, <2>3 DEF Reads!Next, Reads!AnswerRead
<1>7. CASE CopyOpen \/ CreateEnds
  <2>1. /\ call.op = "open" /\ call' = Reads!NoCall
        /\ \/ ret' = Reads!Ok(<<>>) /\ UNCHANGED file
           \/ ret' = Reads!Failed /\ file' = [file EXCEPT ![call.fh] = NULL]
    BY <1>7 DEF ReadInv, CallInv, CopyOpen, CreateEnds, Return, FreeHandle, fileVars
  <2> QED
    BY <2>1 DEF Reads!Next, Reads!AnswerOpen
<1>8. CASE UNCHANGED vars
  BY <1>8 DEF vars, fileVars, Reads!vars
<1> QED
  BY <1>1, <1>2, <1>3, <1>4, <1>5, <1>6, <1>7, <1>8
     DEF Next, Arrival, Serve, Crashed

\* Reads give the bytes of their own file at the offset asked for, and are short
\* only at its end: ftpfs_read_chunk, with its windows and its shared transfer,
\* implements reads that are answered at once.
THEOREM ReadsImplementFileRead ==
  ASSUME RangeFits, "open" \notin SelectFailsIn
  PROVE  Spec => ImplementsFileRead
<1>1. Init => Reads!Init
  BY DEF Init, Reads!Init
<1>2. ReadInv /\ [Next]_vars => [Reads!Next]_(Reads!vars)
  BY StepImplements
<1> QED
  BY <1>1, <1>2, ReadInvariant, PTL DEF Spec, ImplementsFileRead, Reads!Spec
=============================================================================
