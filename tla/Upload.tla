------------------------------- MODULE Upload -------------------------------
(***************************************************************************)
(* What a handle opened for writing promises, with nothing said of         *)
(* threads, semaphores and buffers.  A write is accepted at the end of     *)
(* what has been accepted, or refused; the server's file grows by accepted *)
(* bytes, each at its place; a flush that reports success found all of     *)
(* them there.  Until an error has been reported, that is: afterwards the  *)
(* handle goes on, and the file may hold bytes at the wrong places.        *)
(***************************************************************************)
EXTENDS Integers, Sequences

CONSTANTS Callers, NoCall

VARIABLES
  call,     \* the request each caller serves
  ret,      \* what its last one was answered
  told,     \* an error has been reported since the handle was opened
  pos,      \* how many bytes have been accepted
  running,  \* an upload is in progress
  server    \* the file; a byte is named by its place

vars == <<call, ret, told, pos, running, server>>

Bytes(from, size) == [i \in 1..size |-> from + i]

Init ==
  /\ call = [c \in Callers |-> NoCall]
  /\ ret = [c \in Callers |-> "none"]
  /\ told = FALSE
  /\ pos = 0
  /\ running = FALSE
  /\ server \in {<<>>, <<0>>}

\* A request arrives; with an open the story begins again.
Request(c) ==
  /\ call[c] = NoCall
  /\ call'[c] # NoCall
  /\ call' = [call EXCEPT ![c] = call'[c]]
  /\ ret' = [ret EXCEPT ![c] = "none"]
  /\ told' = (told /\ call'[c].op # "open")
  /\ UNCHANGED <<pos, running, server>>

Answer(c, result) ==
  /\ call[c] # NoCall
  /\ call' = [call EXCEPT ![c] = NoCall]
  /\ ret' = [ret EXCEPT ![c] = result]
  /\ told' = (told \/ result = "err")

\* An open may begin an upload, and one that fails may leave it behind.
Open(c) ==
  /\ call[c].op = "open"
  /\ \/ UNCHANGED <<call, ret, told>> /\ pos' = 0 /\ running'
     \/ Answer(c, "ok") /\ pos' = 0 /\ running' \in {running, FALSE}
     \/ Answer(c, "err") /\ pos' \in {0, pos} /\ running' \in BOOLEAN
  /\ UNCHANGED server

\* A write at the end of what was accepted begins an upload when none runs.
Start(c) ==
  /\ call[c].op = "write" /\ call[c].offset = pos
  /\ ~running /\ running'
  /\ UNCHANGED <<call, ret, told, pos, server>>

\* A flush, fsync or release ends it.
Stop(c) ==
  /\ call[c].op \in {"flush", "fsync", "release"}
  /\ running /\ ~running'
  /\ UNCHANGED <<call, ret, told, pos, server>>

Accept(c) ==
  /\ call[c].op = "write" /\ call[c].offset = pos
  /\ running
  /\ pos' = pos + call[c].size
  /\ UNCHANGED <<call, ret, told, running, server>>

\* Success means that the write has been accepted.  The one exception is a
\* write elsewhere than at the end when no upload runs: it is dropped.  A write
\* that fails may have ended the upload, or failed to begin it.
AnswerWrite(c) ==
  /\ call[c].op = "write"
  /\ \/ Answer(c, "err") /\ running' \in BOOLEAN
     \/ /\ \/ running /\ pos = call[c].offset + call[c].size
           \/ ~running /\ pos # call[c].offset
        /\ Answer(c, "ok")
        /\ UNCHANGED running
  /\ UNCHANGED <<pos, server>>

\* Success means that the file is what was accepted, and that no upload is left
\* running.
AnswerSync(c) ==
  /\ call[c].op \in {"flush", "fsync"}
  /\ \/ Answer(c, "err")
     \/ /\ told \/ pos = 0 \/ server = Bytes(0, pos)
        /\ Answer(c, "ok")
  /\ ~running'
  /\ UNCHANGED <<pos, server>>

\* A file can be emptied before anything is written; any other size only be
\* confirmed.
AnswerTruncate(c) ==
  /\ call[c].op = "ftruncate"
  /\ \E result \in {"ok", "err"} : Answer(c, result)
  /\ \/ call[c].offset = 0 /\ pos = 0 /\ server' = <<>>
     \/ UNCHANGED server
  /\ ret'[c] = "ok" => Len(server') = call[c].offset
  /\ UNCHANGED <<pos, running>>

Release(c) ==
  /\ call[c].op = "release" /\ Answer(c, "ok")
  /\ ~running'
  /\ UNCHANGED <<pos, server>>

\* An upload that has accepted nothing empties the file.
Begin ==
  /\ pos = 0 /\ running
  /\ server' = <<>>
  /\ UNCHANGED <<call, ret, told, pos, running>>

\* Only while an upload runs does the file grow.
Grow ==
  /\ running
  /\ \E from \in 0..pos, size \in 0..pos :
       /\ from + size <= pos
       /\ told \/ from = Len(server)
       /\ server' = server \o Bytes(from, size)
  /\ UNCHANGED <<call, ret, told, pos, running>>

\* The server may fail to keep what it was sent.
Lose ==
  /\ running
  /\ \E kept \in 0..Len(server) : server' = SubSeq(server, 1, kept)
  /\ UNCHANGED <<call, ret, told, pos, running>>

Next ==
  \/ \E c \in Callers :
       \/ Request(c) \/ Open(c) \/ Start(c) \/ Accept(c) \/ Stop(c)
       \/ AnswerWrite(c) \/ AnswerSync(c) \/ AnswerTruncate(c) \/ Release(c)
  \/ Begin \/ Grow \/ Lose

Spec == Init /\ [][Next]_vars
=============================================================================
