------------------------------ MODULE FileRead ------------------------------
(***************************************************************************)
(* What a handle opened for reading promises, with nothing said of windows *)
(* and transfers: a read is answered at once with the bytes of its file at *)
(* the offset asked for, as many as were asked for or as the file has      *)
(* left, or with an error.  FUSE fills a read that is shorter with zeros,  *)
(* so a read may be short only at the end of the file.                     *)
(***************************************************************************)
EXTENDS Integers, Sequences

CONSTANTS
  Handles,   \* the addresses a handle may have
  Files,     \* the files of the server
  Length,    \* the length of each
  NULL

VARIABLES
  file,      \* the file of each handle, or NULL
  call,      \* the request being served
  ret        \* the last answer

vars == <<file, call, ret>>

\* A byte is named by its file and its place there.
Bytes(f, from, n) == [i \in 1..n |-> <<f, from + i>>]

NoCall   == [op |-> "none", fh |-> NULL, offset |-> 0, size |-> 0]
NoAnswer == [status |-> "none", data |-> <<>>]
Failed   == [status |-> "err", data |-> <<>>]
Ok(data) == [status |-> "ok", data |-> data]

Call(op, h, offset, size) ==
  [op |-> op, fh |-> h, offset |-> offset, size |-> size]

\* How many of size bytes there are at offset.
Readable(f, offset, size) ==
  IF offset >= Length[f] THEN 0
  ELSE IF offset + size > Length[f] THEN Length[f] - offset ELSE size

Init ==
  /\ file = [h \in Handles |-> NULL]
  /\ call = NoCall
  /\ ret = NoAnswer

\* An open names a file that the handle keeps if it succeeds.
RequestOpen ==
  /\ call = NoCall
  /\ \E h \in Handles, f \in Files :
       /\ file[h] = NULL
       /\ file' = [file EXCEPT ![h] = f]
       /\ call' = Call("open", h, 0, 1)
  /\ ret' = NoAnswer

AnswerOpen ==
  /\ call.op = "open"
  /\ call' = NoCall
  /\ \/ ret' = Ok(<<>>) /\ UNCHANGED file
     \/ ret' = Failed /\ file' = [file EXCEPT ![call.fh] = NULL]

RequestRead ==
  /\ call = NoCall
  /\ call' \in [op : {"read"}, fh : {h \in Handles : file[h] # NULL},
                offset : Nat, size : Nat \ {0}]
  /\ ret' = NoAnswer
  /\ UNCHANGED file

AnswerRead ==
  /\ call.op = "read"
  /\ call' = NoCall
  /\ LET f == file[call.fh] IN
       ret' \in {Ok(Bytes(f, call.offset, Readable(f, call.offset, call.size))),
                 Failed}
  /\ UNCHANGED file

Release ==
  /\ call = NoCall
  /\ \E h \in Handles : file[h] # NULL /\ file' = [file EXCEPT ![h] = NULL]
  /\ ret' = NoAnswer
  /\ UNCHANGED call

Next == RequestOpen \/ AnswerOpen \/ RequestRead \/ AnswerRead \/ Release

Spec == Init /\ [][Next]_vars
=============================================================================
