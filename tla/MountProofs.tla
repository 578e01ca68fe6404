---------------------------- MODULE MountProofs ----------------------------
(***************************************************************************)
(* Proofs about the life of the program: what is shown of the read path    *)
(* alone holds of the program that starts up, serves and shuts down, and   *)
(* the program leaves nothing behind in libcurl.                           *)
(*                                                                         *)
(* And proofs about the command line, of any length: every option in it    *)
(* takes effect, and FUSE gets the rest as it was given.  The parser goes  *)
(* through argv twice and builds a new one each time; the proof goes       *)
(* along: LineInv says at every argument and every option of a list what   *)
(* has been read, what is in the structures and what the new argv says.    *)
(***************************************************************************)
EXTENDS Mount, ReadPathProofs, WellFoundedInduction

\* The transfer that libcurl has is the one of the handle that is attached.  (A
\* transfer is a record: what its fields hold does not matter here.)
AttachedInv ==
  /\ transfer = [state |-> transfer.state, url |-> transfer.url,
                 next |-> transfer.next, data |-> transfer.data,
                 result |-> transfer.result, msg |-> transfer.msg]
  /\ attached_to_multi <=> transfer.state # "none"

\* No request is in progress outside of fuse_main, and there is no transfer before
\* it and after the end of main.
LifeInv ==
  /\ phase # "serving" => pc = "idle"
  /\ phase \notin {"serving", "unmounted"} => transfer.state = "none"

MountInv == AttachedInv /\ LifeInv

\* cancel_previous_multi leaves no transfer.
LEMMA CancelDetaches ==
  ASSUME AttachedInv, cancel_previous_multi
  PROVE  AttachedInv' /\ transfer'.state = "none"
BY DEF AttachedInv, cancel_previous_multi, NoTransfer

\* curl_multi_perform neither attaches nor removes the connection.
LEMMA PerformAttached ==
  ASSUME AttachedInv, curl_multi_perform, UNCHANGED attached_to_multi
  PROVE  AttachedInv'
<1>1. CASE TransferStarts
  BY <1>1 DEF AttachedInv, TransferStarts, Ended
<1>2. CASE TransferFails
  BY <1>2 DEF AttachedInv, TransferFails, Ended
<1>3. CASE BlocksArrive
  BY <1>3 DEF AttachedInv, BlocksArrive, Ended
<1>4. CASE NothingHappens
  BY <1>4 DEF AttachedInv, NothingHappens
<1> QED
  BY <1>1, <1>2, <1>3, <1>4 DEF curl_multi_perform, Progress

\* A step of the read path keeps the two handles of libcurl in step.
LEMMA StepAttached ==
  ASSUME AttachedInv, [Next]_vars
  PROVE  AttachedInv'
<1>1. CASE RequestCreate \/ OtherRequest
  BY <1>1, CancelDetaches DEF RequestCreate, OtherRequest
<1>2. CASE CheckRunning \/ Perform \/ SelectReturns
  BY <1>2, PerformAttached DEF CheckRunning, Perform, SelectReturns, multiVars
<1>3. CASE Restart
  BY <1>3 DEF AttachedInv, Restart, Added, NoTransfer
<1>4. CASE ReadMessages
  BY <1>4 DEF AttachedInv, ReadMessages, multiVars
<1>5. CASE UNCHANGED <<attached_to_multi, transfer>>
  BY <1>5 DEF AttachedInv
<1>6. Next \/ UNCHANGED vars =>
        \/ RequestCreate \/ OtherRequest \/ CheckRunning \/ Perform \/ SelectReturns
        \/ Restart \/ ReadMessages
        \/ UNCHANGED <<attached_to_multi, transfer>>
  BY DEF Next, Arrival, Serve, Crashed, RequestOpen, RequestRead, Release, Enter,
         LoopEnds, SelectFails, CopyRead, CopyOpen, CreateEnds, Crash,
         vars, multiVars
<1> QED
  BY <1>1, <1>2, <1>3, <1>4, <1>5, <1>6

-----------------------------------------------------------------------------
(* A step of the program is one of the read path, or leaves it alone.      *)

\* No step of the start-up touches the read path.
LEMMA StartUpIdle ==
  ASSUME StartUp
  PROVE  /\ UNCHANGED vars
         /\ phase \notin {"serving", "unmounted", "exited", "aborted"}
BY DEF StartUp, ParseOne, ParseOption, ParseFails, ParseEnds, InitEasy, prompt_passwd,
       SymlinkPrefix, Connect, InitMulti, FuseMain, Continue, Exit

\* The cancellation at the end of main is that of a request that is not a read.
LEMMA ShutdownIsRequest ==
  ASSUME LifeInv, Shutdown
  PROVE  OtherRequest
BY DEF LifeInv, Shutdown, OtherRequest

\* A step of the program keeps the invariant and is one of the read path.
LEMMA MountStep ==
  ASSUME MountInv, [MountNext]_mountVars
  PROVE  [Next]_vars /\ MountInv'
<1>1. CASE StartUp
  <2>1. UNCHANGED vars /\ phase \notin {"serving", "unmounted"}
    BY <1>1, StartUpIdle
  <2> QED
    BY <2>1 DEF MountInv, AttachedInv, LifeInv, vars, multiVars
<1>2. CASE Serving
  <2>1. Next /\ phase' = "serving"
    BY <1>2 DEF Serving, mainVars
  <2> QED
    BY <2>1, StepAttached DEF MountInv, LifeInv
<1>3. CASE Unmount
  BY <1>3 DEF Unmount, Continue, MountInv, AttachedInv, LifeInv, vars, multiVars
<1>4. CASE Shutdown
  <2>1. OtherRequest /\ phase' = "exited" /\ cancel_previous_multi
    BY <1>4, ShutdownIsRequest DEF MountInv, Shutdown
  <2>2. pc' = "idle" /\ AttachedInv' /\ transfer'.state = "none"
    BY <2>1, CancelDetaches DEF OtherRequest, MountInv
  <2> QED
    BY <2>1, <2>2 DEF Next, Arrival, MountInv, LifeInv
<1>5. CASE Over \/ UNCHANGED mountVars
  BY <1>5 DEF Over, mountVars, mainVars, MountInv, AttachedInv, LifeInv, vars, multiVars
<1> QED
  BY <1>1, <1>2, <1>3, <1>4, <1>5 DEF MountNext

\* The handles of libcurl agree, and requests are served only inside fuse_main.
THEOREM MountInvariant == MountSpec => []MountInv
<1>1. MountInit => MountInv
  BY DEF MountInit, Init, MountInv, AttachedInv, LifeInv, NoTransfer
<1>2. MountInv /\ [MountNext]_mountVars => MountInv'
  BY MountStep
<1> QED
  BY <1>1, <1>2, PTL DEF MountSpec

-----------------------------------------------------------------------------
(* The theorems.                                                           *)

\* However the program ends, after a failed start or after any reads, main has
\* taken the connection out of the multi handle before it destroys the two.
THEOREM EndsDetached == MountSpec => []NoTransferLeft
<1>1. MountInv => NoTransferLeft
  BY DEF MountInv, AttachedInv, LifeInv, NoTransferLeft
<1> QED
  BY <1>1, MountInvariant, PTL

\* The program, with its start-up and its shutdown around fuse_main, is the read
\* path: what holds of the requests alone holds of the requests it serves.
THEOREM MountImplementsReadPath == MountSpec => Spec
<1>1. MountInit => Init
  BY DEF MountInit
<1>2. MountInv /\ [MountNext]_mountVars => [Next]_vars
  BY MountStep
<1> QED
  BY <1>1, <1>2, MountInvariant, PTL DEF MountSpec, Spec

\* So the reads that the mounted program answers give the bytes of their own
\* file, and its windows, transfers, messages and ranges are right.
THEOREM MountedReadsRight ==
  ASSUME RangeFits, "open" \notin SelectFailsIn
  PROVE  MountSpec =>
           /\ [](TypeOK /\ WindowTrue /\ TransferContinues)
           /\ [](MessageWaits /\ RangeCleared)
           /\ ImplementsFileRead
BY MountImplementsReadPath, TypeCorrect, WindowsTrue, TransfersContinue,
   MessagesWait, RangesCleared, ReadsImplementFileRead, PTL

-----------------------------------------------------------------------------
(* Natural numbers and sequences.                                          *)

\* A set of natural numbers has a smallest member.
LEMMA NatMin ==
  ASSUME NEW T \in SUBSET Nat, T # {}
  PROVE  \E n \in T : \A m \in T : n <= m
<1> DEFINE R == OpToRel(<, Nat)
<1>1. IsWellFoundedOn(R, Nat)
  BY NatLessThanWellFounded
<1>2. R = {ss \in Nat \X Nat : ss[1] < ss[2]}
  BY DEF OpToRel
<1>3. PICK n \in T : \A m \in T : ~(<<m, n>> \in R)
  <2> HIDE DEF R
  <2> QED BY <1>1, WFMin
<1>4. ASSUME NEW m \in T PROVE n <= m
  <2>1. m \in Nat /\ n \in Nat
    OBVIOUS
  <2>2. ~(<<m, n>> \in R)
    BY <1>3
  <2> HIDE DEF R
  <2>3. <<m, n>> \in {ss \in Nat \X Nat : ss[1] < ss[2]} <=> m < n
    BY <2>1
  <2>4. ~(m < n)
    BY <1>2, <2>2, <2>3
  <2> QED BY <2>1, <2>4
<1> QED BY <1>3, <1>4

\* What holds of 0, and of a number when it holds of the one before, holds of
\* every number up to N.
LEMMA UpTo ==
  ASSUME NEW N \in Nat, NEW G, 0 \in G,
         \A n \in 1..N : n - 1 \in G => n \in G
  PROVE  \A n \in 0..N : n \in G
<1> DEFINE T == {n \in 0..N : n \notin G}
<1> SUFFICES ASSUME T # {} PROVE FALSE
  OBVIOUS
<1>1. T \in SUBSET Nat
  OBVIOUS
<1>2. PICK n \in T : \A m \in T : n <= m
  <2> HIDE DEF T
  <2> QED BY <1>1, NatMin
<1>3. n \in 0..N /\ n \notin G /\ n # 0
  BY <1>2
<1>4. n \in 1..N /\ n - 1 \in 0..N /\ ~(n <= n - 1)
  BY <1>3
<1>5. n - 1 \notin T
  <2> HIDE DEF T
  <2> QED BY <1>2, <1>4
<1>6. n - 1 \in G
  BY <1>4, <1>5
<1> QED BY <1>3, <1>4, <1>6

\* The length and the places of a sequence.
LEMMA SequenceFacts ==
  ASSUME NEW X, NEW s \in Seq(X)
  PROVE  Len(s) \in Nat /\ DOMAIN s = 1..Len(s) /\ \A i \in 1..Len(s) : s[i] \in X
OBVIOUS

\* What holds of the empty sequence, and of one when it holds of the sequence
\* without its last member, holds of every sequence.
LEMMA ByAppending ==
  ASSUME NEW X, NEW G, <<>> \in G,
         \A s \in Seq(X), x \in X : s \in G => Append(s, x) \in G
  PROVE  \A s \in Seq(X) : s \in G
<1> SUFFICES ASSUME NEW s \in Seq(X), s \notin G PROVE FALSE
  OBVIOUS
<1> DEFINE T == {n \in Nat : \E t \in Seq(X) : t \notin G /\ Len(t) = n}
<1>1. Len(s) \in T
  OBVIOUS
<1>2. PICK n \in T : \A m \in T : n <= m
  <2>1. T \in SUBSET Nat
    OBVIOUS
  <2> HIDE DEF T
  <2> QED BY <1>1, <2>1, NatMin
<1>3. PICK t \in Seq(X) : t \notin G /\ Len(t) = n
  BY <1>2
<1>4. t # <<>>
  BY <1>3
<1>5. PICK u \in Seq(X), x \in X : t = Append(u, x)
  BY <1>4, SequenceEmptyOrAppend
<1>6. u \notin G
  BY <1>3, <1>5
<1>7. Len(u) \in Nat /\ n = Len(u) + 1
  BY <1>3, <1>5, AppendProperties
<1>8. Len(u) \in T
  BY <1>6, <1>7
<1>9. n <= Len(u) /\ n \in Nat
  <2> HIDE DEF T
  <2>1. n <= Len(u)
    BY <1>2, <1>8
  <2> QED BY <1>7, <2>1
<1> QED BY <1>7, <1>9

-----------------------------------------------------------------------------
(* The recursive functions of Options are defined.                         *)

\* The recursion of Readings.
ReadStep(line, g, n) ==
  g = [i \in 1..n |-> IF i = 1 THEN Unread ELSE Read(g[i - 1], line[i])]

\* It has a solution, for any number of arguments.
LEMMA ReadDefined ==
  ASSUME NEW line, NEW N \in Nat
  PROVE  \E g : ReadStep(line, g, N)
<1> DEFINE G == {n \in 0..N : \E g : ReadStep(line, g, n)}
<1>1. 0 \in G
  <2> DEFINE h == [i \in 1..0 |-> Unread]
  <2>1. ReadStep(line, h, 0)
    BY DEF ReadStep
  <2> QED BY <2>1
<1>2. ASSUME NEW n \in 1..N, n - 1 \in G PROVE n \in G
  <2>1. PICK g : ReadStep(line, g, n - 1)
    BY <1>2
  <2>2. /\ DOMAIN g = 1..(n - 1)
        /\ \A i \in 1..(n - 1) : g[i] = IF i = 1 THEN Unread ELSE Read(g[i - 1], line[i])
    BY <2>1 DEF ReadStep
  <2> DEFINE last == IF n = 1 THEN Unread ELSE Read(g[n - 1], line[n])
             h == [i \in 1..n |-> IF i = n THEN last ELSE g[i]]
             k == [i \in 1..n |-> IF i = 1 THEN Unread ELSE Read(h[i - 1], line[i])]
  <2>3. ASSUME NEW i \in 1..n PROVE h[i] = k[i]
    <3>1. CASE i = n
      <4>1. h[i] = last
        BY <3>1
      <4>2. n # 1 => h[i - 1] = g[n - 1]
        BY <3>1
      <4> QED BY <3>1, <4>1, <4>2
    <3>2. CASE i # n
      <4>1. i \in 1..(n - 1) /\ (i # 1 => i - 1 \in 1..(n - 1))
        BY <3>2
      <4>2. h[i] = g[i] /\ (i # 1 => h[i - 1] = g[i - 1])
        BY <3>2, <4>1
      <4> HIDE DEF h
      <4> QED BY <2>2, <4>1, <4>2
    <3> QED BY <3>1, <3>2
  <2>4. h = k
    <3>1. h = [i \in 1..n |-> h[i]] /\ k = [i \in 1..n |-> k[i]]
      OBVIOUS
    <3> HIDE DEF h, k
    <3> QED BY <2>3, <3>1
  <2>5. ReadStep(line, h, n)
    <3> HIDE DEF h
    <3> QED BY <2>4 DEF ReadStep
  <2> QED BY <2>5
<1>3. \A n \in 0..N : n \in G
  <2> HIDE DEF G
  <2> QED BY <1>1, <1>2, UpTo
<1> QED BY <1>3

\* What is left of the options when o is the next one.
Left1(o, T, s) == IF \E t \in T : match_template(t, o) THEN s ELSE Append(s, o)

\* The recursion of Others.
OthersStep(options, T, g, n) ==
  g = [i \in 0..n |-> IF i = 0 THEN <<>> ELSE Left1(options[i], T, g[i - 1])]

\* It has a solution, for any number of options.
LEMMA OthersDefined ==
  ASSUME NEW options, NEW T, NEW N \in Nat
  PROVE  \E g : OthersStep(options, T, g, N)
<1> DEFINE G == {n \in 0..N : \E g : OthersStep(options, T, g, n)}
<1>1. 0 \in G
  <2> DEFINE h == [i \in 0..0 |-> <<>>]
  <2>1. OthersStep(options, T, h, 0)
    BY DEF OthersStep
  <2> QED BY <2>1
<1>2. ASSUME NEW n \in 1..N, n - 1 \in G PROVE n \in G
  <2>1. PICK g : OthersStep(options, T, g, n - 1)
    BY <1>2
  <2>2. /\ DOMAIN g = 0..(n - 1)
        /\ \A i \in 0..(n - 1) : g[i] = IF i = 0 THEN <<>> ELSE Left1(options[i], T, g[i - 1])
    BY <2>1 DEF OthersStep
  <2> DEFINE last == IF n = 0 THEN <<>> ELSE Left1(options[n], T, g[n - 1])
             h == [i \in 0..n |-> IF i = n THEN last ELSE g[i]]
             k == [i \in 0..n |-> IF i = 0 THEN <<>> ELSE Left1(options[i], T, h[i - 1])]
  <2>3. ASSUME NEW i \in 0..n PROVE h[i] = k[i]
    <3>1. CASE i = n
      <4>1. h[i] = last
        BY <3>1
      <4>2. n # 0 => h[i - 1] = g[n - 1]
        BY <3>1
      <4> QED BY <3>1, <4>1, <4>2
    <3>2. CASE i # n
      <4>1. i \in 0..(n - 1) /\ (i # 0 => i - 1 \in 0..(n - 1))
        BY <3>2
      <4>2. h[i] = g[i] /\ (i # 0 => h[i - 1] = g[i - 1])
        BY <3>2, <4>1
      <4> HIDE DEF h
      <4> QED BY <2>2, <4>1, <4>2
    <3> QED BY <3>1, <3>2
  <2>4. h = k
    <3>1. h = [i \in 0..n |-> h[i]] /\ k = [i \in 0..n |-> k[i]]
      OBVIOUS
    <3> HIDE DEF h, k
    <3> QED BY <2>3, <3>1
  <2>5. OthersStep(options, T, h, n)
    <3> HIDE DEF h
    <3> QED BY <2>4 DEF OthersStep
  <2> QED BY <2>5
<1>3. \A n \in 0..N : n \in G
  <2> HIDE DEF G
  <2> QED BY <1>1, <1>2, UpTo
<1> QED BY <1>3

\* One turn of the loop of process_gopt.
Gopt(t, arg, iso, d) ==
  IF match_template(t, OptionOf(arg, iso)) THEN process_opt(d, t, arg, iso) ELSE d

\* The recursion of process_gopt.
AfterStep(c, arg, iso, table, g, n) ==
  g = [i \in 0..n |-> IF i = 0 THEN c ELSE Gopt(table[i], arg, iso, g[i - 1])]

\* It has a solution, for any table.
LEMMA AfterDefined ==
  ASSUME NEW c, NEW arg, NEW iso, NEW table, NEW N \in Nat
  PROVE  \E g : AfterStep(c, arg, iso, table, g, N)
<1> DEFINE G == {n \in 0..N : \E g : AfterStep(c, arg, iso, table, g, n)}
<1>1. 0 \in G
  <2> DEFINE h == [i \in 0..0 |-> c]
  <2>1. AfterStep(c, arg, iso, table, h, 0)
    BY DEF AfterStep
  <2> QED BY <2>1
<1>2. ASSUME NEW n \in 1..N, n - 1 \in G PROVE n \in G
  <2>1. PICK g : AfterStep(c, arg, iso, table, g, n - 1)
    BY <1>2
  <2>2. /\ DOMAIN g = 0..(n - 1)
        /\ \A i \in 0..(n - 1) : g[i] = IF i = 0 THEN c ELSE Gopt(table[i], arg, iso, g[i - 1])
    BY <2>1 DEF AfterStep
  <2> DEFINE last == IF n = 0 THEN c ELSE Gopt(table[n], arg, iso, g[n - 1])
             h == [i \in 0..n |-> IF i = n THEN last ELSE g[i]]
             k == [i \in 0..n |-> IF i = 0 THEN c ELSE Gopt(table[i], arg, iso, h[i - 1])]
  <2>3. ASSUME NEW i \in 0..n PROVE h[i] = k[i]
    <3>1. CASE i = n
      <4>1. h[i] = last
        BY <3>1
      <4>2. n # 0 => h[i - 1] = g[n - 1]
        BY <3>1
      <4> QED BY <3>1, <4>1, <4>2
    <3>2. CASE i # n
      <4>1. i \in 0..(n - 1) /\ (i # 0 => i - 1 \in 0..(n - 1))
        BY <3>2
      <4>2. h[i] = g[i] /\ (i # 0 => h[i - 1] = g[i - 1])
        BY <3>2, <4>1
      <4> HIDE DEF h
      <4> QED BY <2>2, <4>1, <4>2
    <3> QED BY <3>1, <3>2
  <2>4. h = k
    <3>1. h = [i \in 0..n |-> h[i]] /\ k = [i \in 0..n |-> k[i]]
      OBVIOUS
    <3> HIDE DEF h, k
    <3> QED BY <2>3, <3>1
  <2>5. AfterStep(c, arg, iso, table, h, n)
    <3> HIDE DEF h
    <3> QED BY <2>4 DEF AfterStep
  <2> QED BY <2>5
<1>3. \A n \in 0..N : n \in G
  <2> HIDE DEF G
  <2> QED BY <1>1, <1>2, UpTo
<1> QED BY <1>3

\* What the arguments up to each one say, one argument after the other.
LEMMA ReadingsFacts ==
  ASSUME NEW line \in Seq(Argument), line # <<>>
  PROVE  /\ Len(line) \in Nat \ {0}
         /\ Readings(line)[1] = Unread
         /\ \A i \in 2..Len(line) : Readings(line)[i] = Read(Readings(line)[i - 1], line[i])
         /\ Reading(line) = Readings(line)[Len(line)]
<1>1. PICK L \in Nat : L = Len(line) /\ L # 0
  OBVIOUS
<1> DEFINE g == CHOOSE h : ReadStep(line, h, L)
<1>2. Readings(line) = g
  BY <1>1 DEF Readings, ReadStep
<1>3. ReadStep(line, g, L)
  BY ReadDefined
<1> HIDE DEF g
<1>4. \A i \in 1..L : g[i] = IF i = 1 THEN Unread ELSE Read(g[i - 1], line[i])
  BY <1>3 DEF ReadStep
<1>5. /\ g[1] = Unread
      /\ \A i \in 2..L : g[i] = Read(g[i - 1], line[i])
  BY <1>1, <1>4
<1> QED BY <1>1, <1>2, <1>5 DEF Reading

\* The same for the options left by Others.
OthersBy(options, T, f) ==
  /\ f[0] = <<>>
  /\ \A i \in 1..Len(options) : f[i] = Left1(options[i], T, f[i - 1])
  /\ Others(options, T) = f[Len(options)]

\* Such a function exists.
LEMMA OthersFacts ==
  ASSUME NEW options \in Seq(Option), NEW T
  PROVE  \E f : OthersBy(options, T, f)
<1>1. PICK L \in Nat : L = Len(options)
  OBVIOUS
<1> DEFINE g == CHOOSE h : OthersStep(options, T, h, L)
<1>2. Others(options, T) = g[L]
  BY <1>1 DEF Others, OthersStep, Left1
<1>3. OthersStep(options, T, g, L)
  BY OthersDefined
<1> HIDE DEF g
<1>4. \A i \in 0..L : g[i] = IF i = 0 THEN <<>> ELSE Left1(options[i], T, g[i - 1])
  BY <1>3 DEF OthersStep
<1>5. /\ g[0] = <<>>
      /\ \A i \in 1..L : g[i] = Left1(options[i], T, g[i - 1])
  BY <1>1, <1>4
<1> QED BY <1>1, <1>2, <1>5 DEF OthersBy

\* And for the contexts process_gopt goes through.
GoptBy(c, arg, iso, f) ==
  LET table == Table(c) IN
  /\ f[0] = c
  /\ \A i \in 1..Len(table) : f[i] = Gopt(table[i], arg, iso, f[i - 1])
  /\ process_gopt(c, arg, iso) =
       IF \E t \in Templates(table) : match_template(t, OptionOf(arg, iso))
         THEN f[Len(table)] ELSE call_proc(c, arg, "opt", iso)

\* Such a function exists.
LEMMA GoptFacts ==
  ASSUME NEW c, NEW arg, NEW iso, Len(Table(c)) \in Nat
  PROVE  \E f : GoptBy(c, arg, iso, f)
<1>1. PICK L \in Nat : L = Len(Table(c))
  OBVIOUS
<1> DEFINE g == CHOOSE h : AfterStep(c, arg, iso, Table(c), h, L)
<1>2. process_gopt(c, arg, iso) =
       IF \E t \in Templates(Table(c)) : match_template(t, OptionOf(arg, iso))
         THEN g[L] ELSE call_proc(c, arg, "opt", iso)
  BY <1>1 DEF process_gopt, AfterStep, Gopt
<1>3. AfterStep(c, arg, iso, Table(c), g, L)
  BY AfterDefined
<1> HIDE DEF g
<1>4. \A i \in 0..L : g[i] = IF i = 0 THEN c ELSE Gopt(Table(c)[i], arg, iso, g[i - 1])
  BY <1>3 DEF AfterStep
<1>5. /\ g[0] = c
      /\ \A i \in 1..L : g[i] = Gopt(Table(c)[i], arg, iso, g[i - 1])
  BY <1>1, <1>4
<1> QED BY <1>1, <1>2, <1>5 DEF GoptBy

-----------------------------------------------------------------------------
(* What a line says.                                                       *)

\* What arguments can say.
Said == [all : Seq(Option), listed : Seq(Option), single : Seq(Option),
         words : Seq(Argument), next : {"any", "list", "word"}]

\* What an argument consists of.
LEMMA ArgumentFacts ==
  ASSUME NEW arg \in Argument
  PROVE  arg.opts \in Seq(Option) /\ arg.form \in {"word", "o", "dash", "--"}
BY DEF Argument

\* Reading an argument goes on with what has been read.
LEMMA ReadType ==
  ASSUME NEW r \in Said, NEW arg \in Argument
  PROVE  Read(r, arg) \in Said
<1>1. arg.opts \in Seq(Option)
  BY ArgumentFacts
<1>2. /\ r.all \o arg.opts \in Seq(Option) /\ r.listed \o arg.opts \in Seq(Option)
      /\ r.single \o arg.opts \in Seq(Option) /\ Append(r.words, arg) \in Seq(Argument)
  BY <1>1 DEF Said
<1> QED BY <1>2 DEF Said, Read, ReadList

\* A line says something at every place.
LEMMA ReadingsType ==
  ASSUME NEW line \in Seq(Argument), line # <<>>
  PROVE  /\ \A i \in 1..Len(line) : Readings(line)[i] \in Said
         /\ Reading(line) \in Said
<1> DEFINE f == Readings(line)
<1>1. PICK L \in Nat : /\ L = Len(line) /\ L # 0
                       /\ \A i \in 1..L : line[i] \in Argument
  BY SequenceFacts
<1>2. f[1] = Unread /\ \A i \in 2..L : f[i] = Read(f[i - 1], line[i])
  BY <1>1, ReadingsFacts
<1>3. Reading(line) = f[L]
  BY <1>1 DEF Reading
<1> HIDE DEF f
<1> DEFINE G == {i \in 0..L : i = 0 \/ f[i] \in Said}
<1>4. 0 \in G
  OBVIOUS
<1>5. ASSUME NEW n \in 1..L, n - 1 \in G PROVE n \in G
  <2>1. CASE n = 1
    <3>1. Unread \in Said
      BY DEF Unread, Said
    <3> QED BY <1>2, <2>1, <3>1
  <2>2. CASE n # 1
    <3>1. n \in 2..L /\ n - 1 # 0
      BY <2>2
    <3>2. f[n - 1] \in Said /\ line[n] \in Argument
      BY <1>1, <1>5, <3>1
    <3>3. f[n] \in Said
      BY <1>2, <3>1, <3>2, ReadType
    <3> QED BY <3>3
  <2> QED BY <2>1, <2>2
<1>6. \A n \in 0..L : n \in G
  <2> HIDE DEF G
  <2> QED BY <1>4, <1>5, UpTo
<1>7. \A i \in 1..L : f[i] \in Said
  BY <1>6
<1> QED BY <1>1, <1>3, <1>7 DEF f

\* Two lines that begin alike say the same up to there.
LEMMA BeginAlike ==
  ASSUME NEW line \in Seq(Argument), line # <<>>, NEW more \in Seq(Argument),
         Len(line) <= Len(more), \A i \in 1..Len(line) : more[i] = line[i]
  PROVE  \A i \in 1..Len(line) : Readings(more)[i] = Readings(line)[i]
<1> DEFINE f == Readings(line)
           g == Readings(more)
<1>1. PICK L \in Nat : L = Len(line) /\ L # 0
  OBVIOUS
<1>2. PICK M \in Nat : M = Len(more) /\ L <= M /\ more # <<>>
  BY <1>1
<1>3. f[1] = Unread /\ \A i \in 2..L : f[i] = Read(f[i - 1], line[i])
  BY <1>1, ReadingsFacts
<1>4. g[1] = Unread /\ \A i \in 2..M : g[i] = Read(g[i - 1], more[i])
  BY <1>2, ReadingsFacts
<1> HIDE DEF f, g
<1> DEFINE G == {i \in 0..L : i = 0 \/ f[i] = g[i]}
<1>5. 0 \in G
  OBVIOUS
<1>6. ASSUME NEW n \in 1..L, n - 1 \in G PROVE n \in G
  <2>1. CASE n = 1
    BY <1>3, <1>4, <2>1
  <2>2. CASE n # 1
    <3>1. n \in 2..L /\ n \in 2..M /\ n - 1 # 0 /\ n \in 1..L
      BY <1>2, <2>2
    <3>2. f[n - 1] = g[n - 1] /\ line[n] = more[n]
      BY <1>1, <1>6, <3>1
    <3>3. f[n] = g[n]
      BY <1>3, <1>4, <3>1, <3>2
    <3> QED BY <3>3
  <2> QED BY <2>1, <2>2
<1>7. \A n \in 0..L : n \in G
  <2> HIDE DEF G
  <2> QED BY <1>5, <1>6, UpTo
<1>8. \A i \in 1..L : g[i] = f[i]
  BY <1>7
<1> QED BY <1>1, <1>8 DEF f, g

\* One more argument is read after the others.
LEMMA ReadAppend ==
  ASSUME NEW line \in Seq(Argument), line # <<>>, NEW arg \in Argument
  PROVE  /\ Append(line, arg) \in Seq(Argument) /\ Append(line, arg) # <<>>
         /\ Len(Append(line, arg)) = Len(line) + 1
         /\ Reading(Append(line, arg)) = Read(Reading(line), arg)
<1> DEFINE more == Append(line, arg)
<1>1. PICK L \in Nat : L = Len(line) /\ L # 0
  OBVIOUS
<1>2. /\ more \in Seq(Argument) /\ more # <<>> /\ Len(more) = L + 1
      /\ \A i \in 1..L : more[i] = line[i]
      /\ more[L + 1] = arg
  BY <1>1, AppendProperties
<1> HIDE DEF more
<1>3. Readings(more)[L] = Readings(line)[L]
  <2>1. L <= L + 1 /\ L \in 1..L
    BY <1>1
  <2> QED BY <1>1, <1>2, <2>1, BeginAlike
<1>4. Readings(more)[L + 1] = Read(Readings(more)[L], arg)
  <2>1. L + 1 \in 2..(L + 1) /\ (L + 1) - 1 = L
    BY <1>1
  <2> QED BY <1>2, <2>1, ReadingsFacts
<1>5. Reading(more) = Read(Reading(line), arg)
  BY <1>1, <1>2, <1>3, <1>4 DEF Reading
<1> QED BY <1>1, <1>2, <1>5 DEF more

\* A line of one argument says nothing.
LEMMA ReadName ==
  ASSUME NEW arg \in Argument
  PROVE  <<arg>> \in Seq(Argument) /\ <<arg>> # <<>> /\ Reading(<<arg>>) = Unread
<1>1. <<arg>> \in Seq(Argument) /\ <<arg>> # <<>> /\ Len(<<arg>>) = 1
  OBVIOUS
<1>2. Readings(<<arg>>)[1] = Unread
  BY <1>1, ReadingsFacts
<1> QED BY <1>1, <1>2 DEF Reading

-----------------------------------------------------------------------------
(* A list that is put in front of a line.                                  *)

\* A list in front of everything else.
Preceded(L, r) ==
  [all |-> L \o r.all, listed |-> L \o r.listed, single |-> r.single,
   words |-> r.words, next |-> r.next]

\* The list stays in front of what is read after it.
LEMMA PrecededRead ==
  ASSUME NEW L \in Seq(Option), NEW r \in Said, NEW arg \in Argument
  PROVE  Read(Preceded(L, r), arg) = Preceded(L, Read(r, arg))
<1>1. PICK o \in Seq(Option) : o = arg.opts
  BY ArgumentFacts
<1>3. (L \o r.all) \o o = L \o (r.all \o o)
  <2>1. PICK x \in Seq(Option) : x = r.all
    BY DEF Said
  <2>2. (L \o x) \o o = L \o (x \o o)
    BY ConcatAssociative
  <2> QED BY <2>1, <2>2
<1>4. (L \o r.listed) \o o = L \o (r.listed \o o)
  <2>1. PICK x \in Seq(Option) : x = r.listed
    BY DEF Said
  <2>2. (L \o x) \o o = L \o (x \o o)
    BY ConcatAssociative
  <2> QED BY <2>1, <2>2
<1>5. r = [all |-> r.all, listed |-> r.listed, single |-> r.single, words |-> r.words,
           next |-> r.next]
  BY DEF Said
<1> QED BY <1>1, <1>3, <1>4, <1>5 DEF Read, ReadList, Preceded

\* A line in which a list has been put behind the name of the program.
WithList(line, L) == <<line[1], Arg("o", <<>>), Arg("word", L)>> \o Tail(line)

\* FUSE reads the list first, and everything else as it was.
LEMMA ReadPreceded ==
  ASSUME NEW line \in Seq(Argument), line # <<>>, NEW L \in Seq(Option)
  PROVE  LET all == WithList(line, L) IN
         /\ all \in Seq(Argument) /\ Len(all) = Len(line) + 2
         /\ all[1] = line[1] /\ all[2] = Arg("o", <<>>) /\ all[3] = Arg("word", L)
         /\ \A i \in 2..Len(line) : all[i + 2] = line[i]
         /\ Reading(all) = Preceded(L, Reading(line))
<1>0. PICK all : all = WithList(line, L)
  OBVIOUS
<1> DEFINE f == Readings(line)
           g == Readings(all)
           a == <<line[1], Arg("o", <<>>), Arg("word", L)>>
<1>1. PICK n \in Nat : n = Len(line) /\ n # 0 /\ \A i \in 1..n : line[i] \in Argument
  BY SequenceFacts
<1>2. Arg("o", <<>>) \in Argument /\ Arg("word", L) \in Argument /\ line[1] \in Argument
  BY <1>1 DEF Arg, Argument
<1>3. a \in Seq(Argument) /\ Len(a) = 3
  BY <1>2
<1>4. /\ Tail(line) \in Seq(Argument) /\ Len(Tail(line)) = n - 1
      /\ \A i \in 1..(n - 1) : Tail(line)[i] = line[i + 1]
  BY <1>1, HeadTailProperties
<1>5. /\ a[1] = line[1] /\ a[2] = Arg("o", <<>>) /\ a[3] = Arg("word", L)
  OBVIOUS
<1> HIDE DEF a
<1>6. /\ all \in Seq(Argument) /\ Len(all) = n + 2
      /\ \A i \in 1..(n + 2) : all[i] = IF i <= 3 THEN a[i] ELSE Tail(line)[i - 3]
  <2>1. all = a \o Tail(line)
    BY <1>0 DEF a, WithList
  <2>2. /\ all \in Seq(Argument) /\ Len(all) = 3 + (n - 1)
        /\ \A i \in 1..(3 + (n - 1)) : all[i] = IF i <= 3 THEN a[i] ELSE Tail(line)[i - 3]
    <3>1. PICK t \in Seq(Argument) : t = Tail(line)
      BY <1>4
    <3>2. /\ a \o t \in Seq(Argument) /\ Len(a \o t) = Len(a) + Len(t)
          /\ \A i \in 1..(Len(a) + Len(t)) :
               (a \o t)[i] = IF i <= Len(a) THEN a[i] ELSE t[i - Len(a)]
      BY <1>3, ConcatProperties
    <3> QED BY <1>3, <1>4, <2>1, <3>1, <3>2, Zenon
  <2>3. 3 + (n - 1) = n + 2
    BY <1>1
  <2> QED BY <2>2, <2>3
<1>7. all[1] = line[1] /\ all[2] = Arg("o", <<>>) /\ all[3] = Arg("word", L)
  <2>1. /\ 1 \in 1..(n + 2) /\ 2 \in 1..(n + 2) /\ 3 \in 1..(n + 2)
        /\ 1 <= 3 /\ 2 <= 3 /\ 3 <= 3
    BY <1>1
  <2>2. all[1] = a[1] /\ all[2] = a[2] /\ all[3] = a[3]
    BY <1>6, <2>1
  <2> QED BY <1>5, <2>2
<1>8. ASSUME NEW i \in 2..n PROVE all[i + 2] = line[i]
  <2>1. i + 2 \in 1..(n + 2) /\ ~(i + 2 <= 3) /\ (i + 2) - 3 = i - 1 /\ i - 1 \in 1..(n - 1)
        /\ (i - 1) + 1 = i
    OBVIOUS
  <2>2. all[i + 2] = Tail(line)[i - 1]
    BY <1>6, <2>1
  <2> QED BY <1>4, <2>1, <2>2
<1>9. all # <<>>
  BY <1>1, <1>6
<1>10. f[1] = Unread /\ \A i \in 2..n : f[i] = Read(f[i - 1], line[i])
  BY <1>1, ReadingsFacts
<1>11. g[1] = Unread /\ \A i \in 2..(n + 2) : g[i] = Read(g[i - 1], all[i])
  BY <1>6, <1>9, ReadingsFacts
<1>12. \A i \in 1..n : f[i] \in Said
  BY <1>1, ReadingsType
<1>13. Reading(line) = f[n] /\ Reading(all) = g[n + 2]
  BY <1>1, <1>6 DEF Reading
<1> HIDE DEF f, g
<1>14. g[3] = Preceded(L, f[1])
  <2>1. g[2] = [Unread EXCEPT !.next = "list"]
    <3>1. 2 \in 2..(n + 2) /\ 2 - 1 = 1
      BY <1>1
    <3>2. g[2] = Read(Unread, Arg("o", <<>>))
      BY <1>7, <1>11, <3>1
    <3> QED BY <3>2 DEF Read, Unread, Arg
  <2>2. g[3] = Read(g[2], Arg("word", L))
    <3>1. 3 \in 2..(n + 2) /\ 3 - 1 = 2
      BY <1>1
    <3> QED BY <1>7, <1>11, <3>1
  <2>3. <<>> \o L = L /\ L \o <<>> = L
    OBVIOUS
  <2>4. g[3] = [all |-> L, listed |-> L, single |-> <<>>, words |-> <<>>, next |-> "any"]
    <3>1. PICK r : r = [Unread EXCEPT !.next = "list"]
      OBVIOUS
    <3>2. PICK w : w = Arg("word", L)
      OBVIOUS
    <3>3. r.next = "list" /\ w.opts = L
      BY <3>1, <3>2 DEF Unread, Arg
    <3>4. Read(r, w) = ReadList(r, L)
      BY <3>3 DEF Read
    <3>5. r.all = <<>> /\ r.listed = <<>>
      BY <3>1 DEF Unread
    <3>6. ReadList(r, L) = [r EXCEPT !.all = L, !.listed = L, !.next = "any"]
      BY <2>3, <3>5, Zenon DEF ReadList
    <3>7. ReadList(r, L) =
            [all |-> L, listed |-> L, single |-> <<>>, words |-> <<>>, next |-> "any"]
      BY <3>1, <3>6 DEF Unread
    <3> QED BY <2>1, <2>2, <3>1, <3>2, <3>4, <3>7
  <2>5. Preceded(L, Unread) =
          [all |-> L, listed |-> L, single |-> <<>>, words |-> <<>>, next |-> "any"]
    BY <2>3 DEF Preceded, Unread
  <2> QED BY <1>10, <2>4, <2>5
<1> DEFINE G == {i \in 0..n : i = 0 \/ g[i + 2] = Preceded(L, f[i])}
<1>15. 0 \in G
  OBVIOUS
<1>16. ASSUME NEW m \in 1..n, m - 1 \in G PROVE m \in G
  <2>1. CASE m = 1
    BY <1>14, <2>1
  <2>2. CASE m # 1
    <3>1. /\ m \in 2..n /\ m + 2 \in 2..(n + 2) /\ m - 1 # 0 /\ m - 1 \in 1..n
          /\ (m + 2) - 1 = (m - 1) + 2
      BY <2>2
    <3>2. g[(m - 1) + 2] = Preceded(L, f[m - 1]) /\ line[m] \in Argument
      BY <1>1, <1>16, <3>1
    <3>3. g[m + 2] = Read(g[(m - 1) + 2], line[m])
      BY <1>8, <1>11, <3>1
    <3>4. f[m - 1] \in Said
      BY <1>12, <3>1
    <3>5. g[m + 2] = Preceded(L, Read(f[m - 1], line[m]))
      BY <3>2, <3>3, <3>4, PrecededRead
    <3>6. g[m + 2] = Preceded(L, f[m])
      BY <1>10, <3>1, <3>5
    <3> QED BY <3>6
  <2> QED BY <2>1, <2>2
<1>17. \A i \in 0..n : i \in G
  <2> HIDE DEF G
  <2> QED BY <1>15, <1>16, UpTo
<1>18. g[n + 2] = Preceded(L, f[n])
  <2>1. n \in G
    <3> HIDE DEF G
    <3> QED BY <1>17
  <2> QED BY <1>1, <2>1
<1> QED BY <1>0, <1>1, <1>6, <1>7, <1>8, <1>13, <1>18

-----------------------------------------------------------------------------
(* The options that are left.                                              *)

\* No option is left of none.
LEMMA OthersEmpty ==
  ASSUME NEW T
  PROVE  Others(<<>>, T) = <<>>
<1>1. <<>> \in Seq(Option) /\ Len(<<>>) = 0
  OBVIOUS
<1>2. PICK f : OthersBy(<<>>, T, f)
  BY <1>1, OthersFacts
<1> QED BY <1>1, <1>2 DEF OthersBy

\* Others goes through the options from the first to the last.
LEMMA OthersAppend ==
  ASSUME NEW T, NEW s \in Seq(Option), NEW o \in Option
  PROVE  Others(Append(s, o), T) = Left1(o, T, Others(s, T))
<1> DEFINE m == Append(s, o)
<1>1. PICK L \in Nat : L = Len(s)
  OBVIOUS
<1>2. /\ m \in Seq(Option) /\ Len(m) = L + 1 /\ m[L + 1] = o
      /\ \A i \in 1..L : m[i] = s[i]
  BY <1>1, AppendProperties
<1> HIDE DEF m
<1>3. PICK f : OthersBy(s, T, f)
  BY OthersFacts
<1>4. PICK g : OthersBy(m, T, g)
  BY <1>2, OthersFacts
<1>5. /\ f[0] = <<>> /\ \A i \in 1..L : f[i] = Left1(s[i], T, f[i - 1])
      /\ Others(s, T) = f[L]
  BY <1>1, <1>3 DEF OthersBy
<1>6. /\ g[0] = <<>> /\ \A i \in 1..(L + 1) : g[i] = Left1(m[i], T, g[i - 1])
      /\ Others(m, T) = g[L + 1]
  BY <1>2, <1>4 DEF OthersBy
<1> DEFINE G == {i \in 0..L : f[i] = g[i]}
<1>7. 0 \in G
  BY <1>5, <1>6
<1>8. ASSUME NEW n \in 1..L, n - 1 \in G PROVE n \in G
  <2>1. n \in 1..(L + 1) /\ f[n - 1] = g[n - 1]
    BY <1>8
  <2>2. f[n] = g[n]
    BY <1>2, <1>5, <1>6, <2>1
  <2> QED BY <2>2
<1>9. \A n \in 0..L : n \in G
  <2> HIDE DEF G
  <2> QED BY <1>7, <1>8, UpTo
<1>10. f[L] = g[L]
  BY <1>9
<1>11. L + 1 \in 1..(L + 1) /\ (L + 1) - 1 = L
  OBVIOUS
<1>12. g[L + 1] = Left1(o, T, g[L])
  BY <1>2, <1>6, <1>11
<1> QED BY <1>5, <1>6, <1>10, <1>12 DEF m

\* What is left are options.
LEMMA OthersType ==
  ASSUME NEW T
  PROVE  \A s \in Seq(Option) : Others(s, T) \in Seq(Option)
<1> DEFINE G == {s \in Seq(Option) : Others(s, T) \in Seq(Option)}
<1>1. <<>> \in G
  <2>1. <<>> \in Seq(Option)
    OBVIOUS
  <2> QED BY <2>1, OthersEmpty
<1>2. ASSUME NEW s \in Seq(Option), NEW o \in Option, s \in G
      PROVE  Append(s, o) \in G
  <2>1. Others(s, T) \in Seq(Option)
    BY <1>2
  <2>2. Left1(o, T, Others(s, T)) \in Seq(Option)
    BY <2>1 DEF Left1
  <2>3. Append(s, o) \in Seq(Option)
    OBVIOUS
  <2> QED BY <2>2, <2>3, OthersAppend
<1>3. \A s \in Seq(Option) : s \in G
  <2> HIDE DEF G
  <2> QED BY <1>1, <1>2, ByAppending
<1> QED BY <1>3

\* The two tables take from a list what their union takes.
LEMMA OthersTwice ==
  ASSUME NEW T, NEW U
  PROVE  \A s \in Seq(Option) : Others(Others(s, T), U) = Others(s, T \union U)
<1> DEFINE G == {s \in Seq(Option) : Others(Others(s, T), U) = Others(s, T \union U)}
<1>1. <<>> \in G
  BY OthersEmpty
<1>2. ASSUME NEW s \in Seq(Option), NEW o \in Option, s \in G
      PROVE  Append(s, o) \in G
  <2>1. PICK a \in Seq(Option) : a = Others(s, T)
    BY OthersType
  <2>2. Others(a, U) = Others(s, T \union U)
    BY <1>2, <2>1
  <2>3. Others(Append(s, o), T) = Left1(o, T, a)
    BY <2>1, OthersAppend
  <2>4. Others(Append(s, o), T \union U) = Left1(o, T \union U, Others(a, U))
    BY <2>2, OthersAppend
  <2>5. Others(Append(a, o), U) = Left1(o, U, Others(a, U))
    BY OthersAppend
  <2>6. Others(Left1(o, T, a), U) = Left1(o, T \union U, Others(a, U))
    BY <2>5 DEF Left1
  <2>7. Append(s, o) \in Seq(Option)
    OBVIOUS
  <2> QED BY <2>3, <2>4, <2>6, <2>7
<1>3. \A s \in Seq(Option) : s \in G
  <2> HIDE DEF G
  <2> QED BY <1>1, <1>2, ByAppending
<1> QED BY <1>3

-----------------------------------------------------------------------------
(* What the options say of a field.                                        *)

\* The templates an option matches.
Matching(o) == {t \in AllTemplates : match_template(t, o)}

\* What the options say of a field by the tables: the last one counts.
Setting(options, field) ==
  LET S == {i \in DOMAIN options : \E t \in Matching(options[i]) : t.field = field}
      i == CHOOSE j \in S : \A k \in S : k <= j
      t == CHOOSE u \in Matching(options[i]) : u.field = field
  IN IF S = {} THEN CacheDefaults(Defaults)[field]
     ELSE IF t.conv = None THEN t.value ELSE options[i].param

\* The places of the options that set a field.
Setters(options, field) ==
  {i \in DOMAIN options : \E t \in Matching(options[i]) : t.field = field}

\* What an option gives a field.
Given(o, field) ==
  LET t == CHOOSE u \in Matching(o) : u.field = field
  IN IF t.conv = None THEN t.value ELSE o.param

\* The last of some places.
LastOf(S) == CHOOSE j \in S : \A k \in S : k <= j

\* There is a last one of some places of a sequence.
LEMMA LastFacts ==
  ASSUME NEW n \in Nat, NEW S \in SUBSET (1..n), S # {}
  PROVE  LastOf(S) \in S /\ \A k \in S : k <= LastOf(S)
<1> DEFINE T == {n - i : i \in S}
<1>1. T \in SUBSET Nat /\ T # {}
  <2>1. \A i \in S : n - i \in Nat
    OBVIOUS
  <2>2. PICK i \in S : TRUE
    OBVIOUS
  <2>3. n - i \in T
    OBVIOUS
  <2> QED BY <2>1, <2>3
<1>2. PICK m \in T : \A k \in T : m <= k
  <2> HIDE DEF T
  <2> QED BY <1>1, NatMin
<1>3. PICK j \in S : m = n - j
  BY <1>2
<1>4. ASSUME NEW k \in S PROVE k <= j
  <2>1. n - k \in T
    OBVIOUS
  <2>2. m <= n - k
    <3> HIDE DEF T
    <3> QED BY <1>2, <2>1
  <2> QED BY <1>3, <2>2
<1> QED BY <1>4 DEF LastOf

\* What the options say of a field is what the last one of them gives it.
LEMMA SettingIs ==
  ASSUME NEW options, NEW field
  PROVE  Setting(options, field) =
           IF Setters(options, field) = {} THEN CacheDefaults(Defaults)[field]
           ELSE Given(options[LastOf(Setters(options, field))], field)
BY DEF Setting, Setters, Given, LastOf

\* Nothing is said of a field: it keeps its default.
LEMMA SettingEmpty ==
  ASSUME NEW field
  PROVE  Setting(<<>>, field) = CacheDefaults(Defaults)[field]
<1>1. Setters(<<>>, field) = {}
  BY DEF Setters
<1> QED BY <1>1, SettingIs

\* An option does not set a field.
Silent(o, field) == ~ \E t \in Matching(o) : t.field = field

\* Options that do not set the field do not count.
LEMMA SettingSilent ==
  ASSUME NEW a \in Seq(Option), NEW b \in Seq(Option), NEW field,
         \A i \in 1..Len(b) : Silent(b[i], field)
  PROVE  Setting(a \o b, field) = Setting(a, field)
<1> DEFINE c == a \o b
<1>1. PICK n \in Nat : n = Len(a) /\ DOMAIN a = 1..n
  OBVIOUS
<1>2. PICK m \in Nat : m = Len(b)
  OBVIOUS
<1>3. /\ DOMAIN c = 1..(n + m)
      /\ \A i \in 1..(n + m) : c[i] = IF i <= n THEN a[i] ELSE b[i - n]
  <2>1. /\ c \in Seq(Option) /\ Len(c) = Len(a) + Len(b)
        /\ \A i \in 1..(Len(a) + Len(b)) :
             c[i] = IF i <= Len(a) THEN a[i] ELSE b[i - Len(a)]
    BY ConcatProperties
  <2>2. DOMAIN c = 1..Len(c)
    BY <2>1, SequenceFacts
  <2> HIDE DEF c
  <2> QED BY <1>1, <1>2, <2>1, <2>2, Zenon
<1> HIDE DEF c
<1>4. ASSUME NEW i \in Setters(c, field) PROVE i \in 1..n
  <2>1. i \in 1..(n + m) /\ ~Silent(c[i], field)
    BY <1>3 DEF Setters, Silent
  <2>2. ~(i <= n) => i - n \in 1..m /\ c[i] = b[i - n]
    BY <1>3, <2>1
  <2>3. i <= n
    BY <1>2, <2>1, <2>2
  <2> QED BY <2>1, <2>3
<1>5. \A i \in 1..n : c[i] = a[i] /\ i \in 1..(n + m)
  BY <1>3
<1>6. Setters(c, field) = Setters(a, field)
  <2>1. ASSUME NEW i \in Setters(c, field) PROVE i \in Setters(a, field)
    BY <1>1, <1>4, <1>5 DEF Setters
  <2>2. ASSUME NEW i \in Setters(a, field) PROVE i \in Setters(c, field)
    BY <1>1, <1>3, <1>5 DEF Setters
  <2> QED BY <2>1, <2>2
<1>7. CASE Setters(a, field) = {}
  BY <1>6, <1>7, SettingIs DEF c
<1>8. CASE Setters(a, field) # {}
  <2>1. PICK l : l \in Setters(a, field) /\ l = LastOf(Setters(a, field))
    <3>1. Setters(a, field) \in SUBSET (1..n)
      BY <1>1 DEF Setters
    <3> QED BY <1>8, <3>1, LastFacts
  <2>2. c[l] = a[l]
    BY <1>1, <1>5, <2>1 DEF Setters
  <2> QED BY <1>6, <1>8, <2>1, <2>2, SettingIs DEF c
<1> QED BY <1>7, <1>8

\* The option that comes last says what counts.
LEMMA SettingLast ==
  ASSUME NEW a \in Seq(Option), NEW o \in Option, NEW field, ~Silent(o, field)
  PROVE  Setting(Append(a, o), field) = Given(o, field)
<1> DEFINE c == Append(a, o)
<1>1. PICK n \in Nat : n = Len(a)
  OBVIOUS
<1>2. DOMAIN c = 1..(n + 1) /\ c[n + 1] = o
  <2>1. c \in Seq(Option) /\ Len(c) = n + 1 /\ c[n + 1] = o
    BY <1>1, AppendProperties
  <2> HIDE DEF c
  <2> QED BY <2>1, SequenceFacts
<1> HIDE DEF c
<1>3. n + 1 \in Setters(c, field) /\ Setters(c, field) \in SUBSET (1..(n + 1))
  BY <1>2 DEF Setters, Silent
<1>4. LastOf(Setters(c, field)) = n + 1
  <2> DEFINE S == Setters(c, field)
  <2>1. LastOf(S) \in 1..(n + 1) /\ n + 1 <= LastOf(S)
    <3>1. n + 1 \in Nat
      OBVIOUS
    <3> HIDE DEF S
    <3>2. LastOf(S) \in S /\ \A k \in S : k <= LastOf(S)
      <4>1. S # {} /\ S \in SUBSET (1..(n + 1))
        BY <1>3 DEF S
      <4> QED BY <3>1, <4>1, LastFacts
    <3> QED BY <1>3, <3>2 DEF S
  <2> HIDE DEF S
  <2>2. LastOf(S) = n + 1
    BY <2>1
  <2> QED BY <2>2 DEF S
<1>5. Setters(c, field) # {}
  BY <1>3
<1>6. Setting(c, field) = Given(c[LastOf(Setters(c, field))], field)
  BY <1>5, SettingIs
<1> QED BY <1>2, <1>4, <1>6 DEF c

\* An option that does not set the field is passed over.
LEMMA SettingPasses ==
  ASSUME NEW a \in Seq(Option), NEW o \in Option, NEW field, Silent(o, field)
  PROVE  Setting(Append(a, o), field) = Setting(a, field)
<1>1. <<o>> \in Seq(Option) /\ Len(<<o>>) = 1 /\ <<o>>[1] = o
  OBVIOUS
<1>2. PICK b \in Seq(Option) : b = <<o>> /\ Len(b) = 1 /\ b[1] = o
  BY <1>1
<1>3. \A i \in 1..Len(b) : Silent(b[i], field)
  BY <1>2
<1>4. Setting(a \o b, field) = Setting(a, field)
  BY <1>3, SettingSilent
<1>5. Append(a, o) = a \o <<o>>
  BY AppendIsConcat
<1> QED BY <1>2, <1>4, <1>5

-----------------------------------------------------------------------------
(* The two tables.                                                         *)

\* The templates of the two tables.
Ftpfs == Templates(ftpfs_opts)
InCache == Templates(cache_opts)

\* The fields that the properties speak of, one table each.
FtpfsFields == {"debug", "transform_symlinks", "disable_epsv", "user", "proxy_user"}
CacheFields == {"on", "stat_timeout", "dir_timeout", "link_timeout"}

\* The members of the first table.
LEMMA FtpfsTable ==
  /\ Len(ftpfs_opts) = 10
  /\ Ftpfs = { Template("ftpfs_debug", "u", "debug", None),
     Template("transform_symlinks", None, "transform_symlinks", "1"),
     Template("disable_epsv", None, "disable_epsv", "1"),
     Template("enable_epsv", None, "disable_epsv", "0"),
     Template("user", "s", "user", None),
     Template("proxy_user", "s", "proxy_user", None),
     Template("iocharset", "s", "iocharset", None),
     Template("-h", None, "key", "help"),
     Template("-v", None, "key", "verbose"),
     Template("-V", None, "key", "version") }
<1>1. Len(ftpfs_opts) = 10 /\ DOMAIN ftpfs_opts = 1..10
  BY DEF ftpfs_opts
<1>2. 1..10 = {1, 2, 3, 4, 5, 6, 7, 8, 9, 10}
  OBVIOUS
<1>3. Ftpfs = {ftpfs_opts[i] : i \in {1, 2, 3, 4, 5, 6, 7, 8, 9, 10}}
  BY <1>1, <1>2 DEF Ftpfs, Templates
<1>4. Ftpfs = {ftpfs_opts[1], ftpfs_opts[2], ftpfs_opts[3], ftpfs_opts[4], ftpfs_opts[5],
               ftpfs_opts[6], ftpfs_opts[7], ftpfs_opts[8], ftpfs_opts[9], ftpfs_opts[10]}
  BY <1>3
<1> QED BY <1>1, <1>4 DEF ftpfs_opts

\* The members of the second table.
LEMMA CacheTable ==
  /\ Len(cache_opts) = 8
  /\ InCache = { Template("cache=yes", None, "on", "1"),
     Template("cache=no", None, "on", "0"),
     Template("cache_timeout", "u", "stat_timeout", None),
     Template("cache_timeout", "u", "dir_timeout", None),
     Template("cache_timeout", "u", "link_timeout", None),
     Template("cache_stat_timeout", "u", "stat_timeout", None),
     Template("cache_dir_timeout", "u", "dir_timeout", None),
     Template("cache_link_timeout", "u", "link_timeout", None) }
<1>1. Len(cache_opts) = 8 /\ DOMAIN cache_opts = 1..8
  BY DEF cache_opts
<1>2. 1..8 = {1, 2, 3, 4, 5, 6, 7, 8}
  OBVIOUS
<1>3. InCache = {cache_opts[i] : i \in {1, 2, 3, 4, 5, 6, 7, 8}}
  BY <1>1, <1>2 DEF InCache, Templates
<1>4. InCache = {cache_opts[1], cache_opts[2], cache_opts[3], cache_opts[4], cache_opts[5],
               cache_opts[6], cache_opts[7], cache_opts[8]}
  BY <1>3
<1> QED BY <1>1, <1>4 DEF cache_opts

\* No name is in both tables.
LEMMA Apart ==
  ASSUME NEW t \in Ftpfs, NEW u \in InCache
  PROVE  t.name # u.name
<1>1. t.name \in {"ftpfs_debug", "transform_symlinks", "disable_epsv", "enable_epsv",
                  "user", "proxy_user", "iocharset", "-h", "-v", "-V"}
  BY FtpfsTable DEF Template, None
<1>2. u.name \in {"cache=yes", "cache=no", "cache_timeout", "cache_stat_timeout",
                  "cache_dir_timeout", "cache_link_timeout"}
  BY CacheTable DEF Template, None
<1> QED BY <1>1, <1>2

\* The fields of the tables.
LEMMA FtpfsFacts ==
  ASSUME NEW t \in Ftpfs
  PROVE  /\ t.field \in FtpfsFields \union {"iocharset", "key"}
         /\ t.field = "key" => /\ t.conv = None /\ t.value \in {"help", "verbose", "version"}
                               /\ t.value = "verbose" <=> t.name = "-v"
         /\ t.name = "-v" => t.field = "key" /\ t.value = "verbose" /\ t.conv = None
BY FtpfsTable DEF Template, None, FtpfsFields

\* The second table is about struct cache, and calls no function.
LEMMA CacheFacts ==
  ASSUME NEW t \in InCache
  PROVE  t.field \in CacheFields /\ t.field # "key" /\ t.name # "-v"
BY CacheTable DEF Template, None, CacheFields

\* A name and a field say which template it is.
LEMMA FtpfsUnique ==
  ASSUME NEW t \in Ftpfs, NEW u \in Ftpfs, t.name = u.name
  PROVE  t = u
BY FtpfsTable DEF Template, None

\* In the second table three templates have one name, for three fields.
LEMMA CacheUnique ==
  ASSUME NEW t \in InCache, NEW u \in InCache, t.name = u.name, t.field = u.field
  PROVE  t = u
BY CacheTable DEF Template, None

\* A name and a field say which template it is, in both tables together.
LEMMA Unique ==
  ASSUME NEW t \in AllTemplates, NEW u \in AllTemplates,
         t.name = u.name, t.field = u.field
  PROVE  t = u
BY Apart, FtpfsUnique, CacheUnique DEF AllTemplates, Ftpfs, InCache

-----------------------------------------------------------------------------
(* Contexts, and process_opt.                                              *)

\* The fields of struct ftpfs and struct cache.
Fields == FtpfsFields \union CacheFields
            \union {"host", "mountpoint", "verbose", "iocharset"}

\* The fields of the two structures.
LEMMA DefaultFields == DOMAIN Defaults = Fields
BY DEF Defaults, Fields, FtpfsFields, CacheFields

\* The shape of struct fuse_opt_context and of the structures it fills.
IsContext(c) ==
  /\ c = [args |-> c.args, argctr |-> c.argctr, list |-> c.list, outargs |-> c.outargs,
          opts |-> c.opts, nonopt |-> c.nonopt, pass |-> c.pass, data |-> c.data,
          res |-> c.res]
  /\ c.data = [f \in Fields |-> c.data[f]]
  /\ c.pass \in {"ftpfs", "cache"}

\* Nothing but the data has changed.
SameButData(c, d) ==
  /\ d.args = c.args /\ d.argctr = c.argctr /\ d.list = c.list /\ d.outargs = c.outargs
  /\ d.opts = c.opts /\ d.nonopt = c.nonopt /\ d.pass = c.pass /\ d.res = "ok"

\* The template sets the field, or is the one of "-v".
Sets(t, g) == t.field = g \/ (t.field = "key" /\ t.value = "verbose" /\ g = "verbose")
Val(t, o) ==
  IF t.field = "key" THEN "1" ELSE IF t.conv = None THEN t.value ELSE o.param

\* What it does with an option o.
OptEffect(c, d, t, o) ==
  /\ IsContext(d) /\ SameButData(c, d)
  /\ \A g \in Fields : d.data[g] = IF Sets(t, g) THEN Val(t, o) ELSE c.data[g]

\* A field is set to a value.
SetData(c, f, v) == [c EXCEPT !.data[f] = v]

\* The field has the value, and nothing else has changed.
LEMMA DataSet ==
  ASSUME NEW c, IsContext(c), c.res = "ok", NEW f \in Fields, NEW v
  PROVE  /\ IsContext(SetData(c, f, v)) /\ SameButData(c, SetData(c, f, v))
         /\ \A g \in Fields :
              SetData(c, f, v).data[g] = IF g = f THEN v ELSE c.data[g]
<1> DEFINE x == [c.data EXCEPT ![f] = v]
           d == [c EXCEPT !.data[f] = v]
<1>1. x = [g \in Fields |-> IF g = f THEN v ELSE c.data[g]]
  BY DEF IsContext
<1>2. d = [args |-> c.args, argctr |-> c.argctr, list |-> c.list, outargs |-> c.outargs,
          opts |-> c.opts, nonopt |-> c.nonopt, pass |-> c.pass, data |-> x,
          res |-> c.res]
  BY DEF IsContext
<1> HIDE DEF x, d
<1>3. \A g \in Fields : x[g] = IF g = f THEN v ELSE c.data[g]
  BY <1>1
<1>4. x = [g \in Fields |-> x[g]]
  BY <1>1
<1>5. d.data = x /\ SameButData(c, d) /\ d.pass = c.pass
  BY <1>2 DEF SameButData
<1>6. d = [args |-> d.args, argctr |-> d.argctr, list |-> d.list, outargs |-> d.outargs,
          opts |-> d.opts, nonopt |-> d.nonopt, pass |-> d.pass, data |-> d.data,
          res |-> d.res]
  BY <1>2
<1>7. IsContext(d)
  BY <1>4, <1>5, <1>6 DEF IsContext
<1> QED BY <1>3, <1>5, <1>7 DEF d, SetData

\* "-v" sets a field as the other options do.
LEMMA VerboseSet ==
  ASSUME NEW c, IsContext(c)
  PROVE  [c EXCEPT !.data.verbose = "1"] = [c EXCEPT !.data["verbose"] = "1"]
OBVIOUS

\* A template that is processed without an error sets its field.
LEMMA process_optEffect ==
  ASSUME NEW c, IsContext(c), c.res = "ok", NEW t \in Templates(Table(c)), NEW arg, NEW iso,
         process_opt(c, t, arg, iso).res = "ok"
  PROVE  OptEffect(c, process_opt(c, t, arg, iso), t, OptionOf(arg, iso))
<1> DEFINE o == OptionOf(arg, iso)
           d == process_opt(c, t, arg, iso)
<1>1. \/ t \in Ftpfs /\ c.pass = "ftpfs"
      \/ t \in InCache /\ c.pass = "cache"
  BY DEF IsContext, Table, Ftpfs, InCache
<1>2. CASE t.field = "key"
  <2>1. t \in Ftpfs /\ c.pass = "ftpfs"
    BY <1>1, <1>2, CacheFacts
  <2>2. t.value \in {"help", "verbose", "version"}
    BY <1>2, <2>1, FtpfsFacts
  <2>3. d = call_proc(c, arg, t.value, iso)
    BY <1>2 DEF process_opt
  <2>4. IsContext([c EXCEPT !.res = "exit"]) /\ [c EXCEPT !.res = "exit"].res = "exit"
    BY DEF IsContext
  <2>5. t.value = "verbose" /\ d = SetData(c, "verbose", "1")
    <3>1. CASE t.value = "verbose"
      BY <2>1, <2>3, <3>1, VerboseSet DEF call_proc, SetData
    <3>2. CASE t.value # "verbose"
      <4>1. d = [c EXCEPT !.res = "exit"]
        BY <2>1, <2>2, <2>3, <3>2 DEF call_proc
      <4> QED BY <2>4, <4>1
    <3> QED BY <3>1, <3>2
  <2>6. "verbose" \in Fields
    BY DEF Fields
  <2>7. /\ IsContext(d) /\ SameButData(c, d)
        /\ \A g \in Fields : d.data[g] = IF g = "verbose" THEN "1" ELSE c.data[g]
    <3> HIDE DEF d
    <3> QED BY <2>5, <2>6, DataSet
  <2>8. \A g \in Fields : g # "key"
    BY DEF Fields, FtpfsFields, CacheFields
  <2>9. \A g \in Fields : Sets(t, g) <=> g = "verbose"
    BY <1>2, <2>5, <2>8 DEF Sets
  <2>10. Val(t, o) = "1"
    BY <1>2 DEF Val
  <2> HIDE DEF d, o
  <2>11. OptEffect(c, d, t, o)
    BY <2>7, <2>9, <2>10 DEF OptEffect
  <2> QED BY <2>11 DEF d, o
<1>3. CASE t.field # "key"
  <2>1. t.field \in Fields
    BY <1>1, <1>3, FtpfsFacts, CacheFacts DEF Fields
  <2>2. [c EXCEPT !.res = "error"].res = "error"
    BY DEF IsContext
  <2>3. d = SetData(c, t.field, Val(t, o))
    <3>1. CASE t.conv = None
      BY <1>3, <3>1 DEF process_opt, Val, SetData
    <3>2. CASE t.conv # None
      <4>1. ~(t.conv = "u" /\ o.param \notin Numerals)
        BY <1>3, <2>2, <3>2 DEF process_opt
      <4> QED BY <1>3, <3>2, <4>1 DEF process_opt, Val, SetData
    <3> QED BY <3>1, <3>2
  <2> HIDE DEF d, o
  <2>4. PICK f \in Fields : f = t.field
    BY <2>1
  <2>5. PICK v : v = Val(t, o)
    OBVIOUS
  <2>6. d = SetData(c, f, v)
    BY <2>3, <2>4, <2>5
  <2>7. /\ IsContext(d) /\ SameButData(c, d)
        /\ \A g \in Fields : d.data[g] = IF g = f THEN v ELSE c.data[g]
    BY <2>6, DataSet
  <2>8. \A g \in Fields : Sets(t, g) <=> g = f
    BY <1>3, <2>4 DEF Sets
  <2>9. OptEffect(c, d, t, o)
    BY <2>5, <2>7, <2>8 DEF OptEffect
  <2> QED BY <2>9 DEF d, o
<1> QED BY <1>2, <1>3

-----------------------------------------------------------------------------
(* process_gopt goes through a table.                                      *)

\* c has become d with the templates of S that o matches.
Taken(c, d, o, S) ==
  /\ IsContext(d) /\ SameButData(c, d)
  /\ \A g \in Fields, t \in S : match_template(t, o) /\ Sets(t, g) => d.data[g] = Val(t, o)
  /\ \A g \in Fields : (\A t \in S : ~(match_template(t, o) /\ Sets(t, g)))
                          => d.data[g] = c.data[g]

\* Two templates that set a field for an option set it to the same value.
LEMMA SameValue ==
  ASSUME NEW t \in AllTemplates, NEW u \in AllTemplates, NEW o, NEW g \in Fields,
         match_template(t, o), match_template(u, o), Sets(t, g), Sets(u, g)
  PROVE  Val(t, o) = Val(u, o)
<1>1. t.field # "verbose" /\ u.field # "verbose"
  BY FtpfsFacts, CacheFacts DEF AllTemplates, Ftpfs, InCache, FtpfsFields, CacheFields
<1>2. g # "key"
  BY DEF Fields, FtpfsFields, CacheFields
<1>3. t.name = u.name
  BY DEF match_template
<1>4. CASE g = "verbose"
  BY <1>1, <1>4 DEF Sets, Val
<1>5. CASE g # "verbose"
  <2>1. t.field = u.field
    BY <1>5 DEF Sets
  <2> QED BY <1>3, <2>1, Unique
<1> QED BY <1>4, <1>5

\* One more template that matches.
LEMMA TakenStep ==
  ASSUME NEW c, NEW d, NEW e, NEW o, NEW S \in SUBSET AllTemplates, NEW t \in AllTemplates,
         Taken(c, d, o, S), match_template(t, o), OptEffect(d, e, t, o)
  PROVE  Taken(c, e, o, S \union {t})
<1>1. IsContext(e) /\ SameButData(c, e)
  BY DEF Taken, OptEffect, SameButData
<1>2. ASSUME NEW g \in Fields, NEW u \in S \union {t}, match_template(u, o), Sets(u, g)
      PROVE  e.data[g] = Val(u, o)
  <2>1. CASE Sets(t, g)
    <3>1. Val(t, o) = Val(u, o)
      BY <1>2, <2>1, SameValue
    <3> QED BY <2>1, <3>1 DEF OptEffect
  <2>2. CASE ~Sets(t, g)
    <3>1. u \in S /\ e.data[g] = d.data[g]
      BY <1>2, <2>2 DEF OptEffect
    <3> QED BY <1>2, <3>1 DEF Taken
  <2> QED BY <2>1, <2>2
<1>3. ASSUME NEW g \in Fields, \A u \in S \union {t} : ~(match_template(u, o) /\ Sets(u, g))
      PROVE  e.data[g] = c.data[g]
  <2>1. ~Sets(t, g) /\ \A u \in S : ~(match_template(u, o) /\ Sets(u, g))
    BY <1>3
  <2>2. d.data[g] = c.data[g]
    BY <2>1 DEF Taken
  <2> QED BY <2>1, <2>2 DEF OptEffect
<1> QED BY <1>1, <1>2, <1>3 DEF Taken

\* One more template that does not match.
LEMMA TakenNot ==
  ASSUME NEW c, NEW d, NEW o, NEW S, NEW t,
         Taken(c, d, o, S), ~match_template(t, o)
  PROVE  Taken(c, d, o, S \union {t})
BY DEF Taken

\* The tables are sequences of templates.
LEMMA TableFacts ==
  ASSUME NEW c
  PROVE  /\ Len(Table(c)) \in Nat /\ DOMAIN Table(c) = 1..Len(Table(c))
         /\ \A i \in 1..Len(Table(c)) : Table(c)[i] \in Templates(Table(c))
         /\ Templates(Table(c)) \subseteq AllTemplates
<1>1. /\ Len(ftpfs_opts) = 10 /\ DOMAIN ftpfs_opts = 1..10
      /\ Len(cache_opts) = 8 /\ DOMAIN cache_opts = 1..8
  BY DEF ftpfs_opts, cache_opts
<1>2. PICK table : table = Table(c)
  OBVIOUS
<1>3. table = ftpfs_opts \/ table = cache_opts
  BY <1>2 DEF Table
<1>4. Len(table) \in Nat /\ DOMAIN table = 1..Len(table)
  BY <1>1, <1>3
<1>5. \A i \in DOMAIN table : table[i] \in Templates(table)
  BY DEF Templates
<1>6. Templates(table) \subseteq AllTemplates
  BY <1>3 DEF AllTemplates
<1> QED BY <1>2, <1>4, <1>5, <1>6

\* The templates up to a place.
First(table, i) == {table[j] : j \in 1..i}

\* An option that matches has been taken by every template it matches.
LEMMA process_goptTakes ==
  ASSUME NEW c, IsContext(c), c.res = "ok", NEW arg, NEW iso,
         \E t \in Templates(Table(c)) : match_template(t, OptionOf(arg, iso)),
         process_gopt(c, arg, iso).res = "ok"
  PROVE  Taken(c, process_gopt(c, arg, iso), OptionOf(arg, iso), Templates(Table(c)))
<1> DEFINE o == OptionOf(arg, iso)
<1>1. PICK table : table = Table(c)
  OBVIOUS
<1>2. PICK L \in Nat : /\ L = Len(table) /\ DOMAIN table = 1..L
                       /\ \A i \in 1..L : table[i] \in Templates(table)
                       /\ Templates(table) \subseteq AllTemplates
  BY <1>1, TableFacts
<1>3. PICK f : GoptBy(c, arg, iso, f)
  BY <1>1, <1>2, GoptFacts
<1>4. /\ f[0] = c
      /\ \A i \in 1..L : f[i] = Gopt(table[i], arg, iso, f[i - 1])
      /\ process_gopt(c, arg, iso) = f[L]
  BY <1>1, <1>2, <1>3 DEF GoptBy
<1> DEFINE G == {i \in 0..L : f[i].res = "ok" => Taken(c, f[i], o, First(table, i))}
<1>5. 0 \in G
  <2>1. First(table, 0) = {}
    BY DEF First
  <2>2. Taken(c, c, o, {})
    BY DEF Taken, SameButData
  <2> HIDE DEF o
  <2> QED BY <1>4, <2>1, <2>2
<1>6. ASSUME NEW n \in 1..L, n - 1 \in G PROVE n \in G
  <2> SUFFICES ASSUME f[n].res = "ok" PROVE Taken(c, f[n], o, First(table, n))
    OBVIOUS
  <2> DEFINE d == f[n - 1]
             t == table[n]
             S == First(table, n - 1)
  <2>1. f[n] = Gopt(t, arg, iso, d)
    BY <1>4
  <2>2. d.res = "ok" => Taken(c, d, o, S)
    BY <1>6
  <2>3. First(table, n) = S \union {t}
    <3>1. \A j : j \in 1..n <=> j \in 1..(n - 1) \/ j = n
      OBVIOUS
    <3> QED BY <3>1 DEF First
  <2>4. t \in Templates(table) /\ t \in AllTemplates
    BY <1>2
  <2>5. S \in SUBSET AllTemplates
    <3>1. \A j \in 1..(n - 1) : j \in 1..L
      OBVIOUS
    <3> QED BY <1>2, <3>1 DEF First
  <2> HIDE DEF d, t, S, o
  <2>6. CASE match_template(t, o)
    <3>1. f[n] = process_opt(d, t, arg, iso)
      BY <2>1, <2>6 DEF Gopt, o
    <3>2. d.res = "ok"
      BY <3>1 DEF process_opt
    <3>3. Taken(c, d, o, S)
      BY <2>2, <3>2
    <3>4. IsContext(d) /\ Table(d) = table
      BY <1>1, <3>3 DEF Taken, SameButData, Table
    <3>5. OptEffect(d, f[n], t, o)
      BY <2>4, <3>1, <3>2, <3>4, process_optEffect DEF o
    <3> QED BY <2>3, <2>4, <2>5, <2>6, <3>3, <3>5, TakenStep
  <2>7. CASE ~match_template(t, o)
    <3>1. f[n] = d
      BY <2>1, <2>7 DEF Gopt, o
    <3>2. Taken(c, d, o, S)
      BY <2>2, <3>1
    <3> QED BY <2>3, <2>7, <3>1, <3>2, TakenNot
  <2> QED BY <2>6, <2>7
<1>7. L \in G
  <2>1. \A i \in 0..L : i \in G
    <3> HIDE DEF G
    <3> QED BY <1>5, <1>6, UpTo
  <2> HIDE DEF G
  <2> QED BY <2>1
<1>8. First(table, L) = Templates(table)
  BY <1>2 DEF First, Templates
<1>9. Taken(c, f[L], o, Templates(table))
  BY <1>4, <1>7, <1>8
<1> QED BY <1>1, <1>4, <1>9

\* An option that matches nothing is kept.
LEMMA process_goptKeeps ==
  ASSUME NEW c, IsContext(c), NEW arg, NEW iso,
         ~ \E t \in Templates(Table(c)) : match_template(t, OptionOf(arg, iso))
  PROVE  process_gopt(c, arg, iso) = Keep(c, arg, iso)
<1>1. PICK f : GoptBy(c, arg, iso, f)
  BY TableFacts, GoptFacts
<1>2. process_gopt(c, arg, iso) = call_proc(c, arg, "opt", iso)
  BY <1>1 DEF GoptBy
<1> QED BY <1>2 DEF call_proc

-----------------------------------------------------------------------------
(* The options, and what the structures hold.                              *)

\* The templates and the fields of a pass.
Known(c) == Templates(Table(c))
FieldsOf(c) == IF c.pass = "ftpfs" THEN FtpfsFields ELSE CacheFields

\* An option that stands alone sets no field.
Alone(o) == \A t \in AllTemplates : t.name = o.name => t.field = "key"

\* Such an option counts for no field.
LEMMA AloneSilent ==
  ASSUME NEW o, Alone(o), NEW f \in Fields
  PROVE  Silent(o, f)
<1>1. f # "key"
  BY DEF Fields, FtpfsFields, CacheFields
<1> QED BY <1>1 DEF Alone, Silent, Matching, match_template

\* What a matching template gives the field is what the option says of it.
LEMMA GivenIs ==
  ASSUME NEW t \in AllTemplates, NEW o, NEW f \in Fields, match_template(t, o), t.field = f
  PROVE  ~Silent(o, f) /\ Given(o, f) = Val(t, o)
<1> DEFINE u == CHOOSE v \in Matching(o) : v.field = f
<1>1. t \in Matching(o)
  BY DEF Matching
<1>2. u \in Matching(o) /\ u.field = f
  BY <1>1
<1>3. u \in AllTemplates /\ u.name = t.name
  BY <1>2 DEF Matching, match_template
<1>4. u = t
  <2> HIDE DEF u
  <2> QED BY <1>2, <1>3, Unique
<1>5. f # "key"
  BY DEF Fields, FtpfsFields, CacheFields
<1>6. Given(o, f) = IF u.conv = None THEN u.value ELSE o.param
  BY DEF Given
<1> HIDE DEF u
<1> QED BY <1>1, <1>4, <1>5, <1>6 DEF Silent, Val

\* The templates of a field are in one table.
LEMMA FieldTable ==
  ASSUME NEW c, IsContext(c), NEW f \in FieldsOf(c), NEW t \in AllTemplates, t.field = f
  PROVE  t \in Known(c) /\ f \in Fields
<1>1. FtpfsFields \intersect CacheFields = {}
  BY DEF FtpfsFields, CacheFields
<1>2. "key" \notin FtpfsFields \union CacheFields /\ "iocharset" \notin CacheFields
  BY DEF FtpfsFields, CacheFields
<1>3. t \in Ftpfs => t.field \notin CacheFields
  BY <1>1, <1>2, FtpfsFacts
<1>4. t \in InCache => t.field \notin FtpfsFields
  BY <1>1, CacheFacts
<1> QED BY <1>3, <1>4 DEF AllTemplates, Ftpfs, InCache, Known, Table, FieldsOf, IsContext,
                          Fields

\* The data hold what the options read so far say.
LEMMA SettingTaken ==
  ASSUME NEW c, IsContext(c), NEW d, NEW o \in Option, NEW a \in Seq(Option),
         Taken(c, d, o, Known(c)), NEW f \in FieldsOf(c), c.data[f] = Setting(a, f)
  PROVE  d.data[f] = Setting(Append(a, o), f)
<1>1. f \in Fields
  BY DEF FieldsOf, Fields
<1>2. CASE Silent(o, f)
  <2>1. f # "verbose"
    BY DEF FieldsOf, FtpfsFields, CacheFields
  <2>2. \A t \in Known(c) : ~(match_template(t, o) /\ Sets(t, f))
    BY <1>2, <2>1, TableFacts DEF Silent, Matching, Sets, Known
  <2>3. d.data[f] = c.data[f]
    BY <1>1, <2>2 DEF Taken
  <2> QED BY <1>2, <2>3, SettingPasses
<1>3. CASE ~Silent(o, f)
  <2>1. PICK t \in AllTemplates : match_template(t, o) /\ t.field = f
    BY <1>3 DEF Silent, Matching
  <2>2. t \in Known(c)
    BY <2>1, FieldTable
  <2>3. d.data[f] = Val(t, o)
    BY <1>1, <2>1, <2>2 DEF Taken, Sets
  <2>4. Given(o, f) = Val(t, o)
    BY <1>1, <2>1, GivenIs
  <2> QED BY <1>3, <2>3, <2>4, SettingLast
<1> QED BY <1>2, <1>3

\* An option that matches nothing in a table says nothing of its fields.
LEMMA SettingKept ==
  ASSUME NEW c, IsContext(c), NEW o \in Option, NEW a \in Seq(Option),
         \A t \in Known(c) : ~match_template(t, o), NEW f \in FieldsOf(c)
  PROVE  Setting(Append(a, o), f) = Setting(a, f)
<1>1. Silent(o, f)
  BY FieldTable DEF Silent, Matching
<1> QED BY <1>1, SettingPasses

\* The cache's options are still to be read when those of struct ftpfs are.
LEMMA SettingLater ==
  ASSUME NEW a \in Seq(Option), NEW b \in Seq(Option), NEW o \in Option, NEW f \in CacheFields,
         Setting(a, f) = Setting(b, f)
  PROVE  /\ Setting(Append(a, o), f) = Setting(Append(b, o), f)
         /\ (\E t \in Ftpfs : match_template(t, o)) => Setting(Append(a, o), f) = Setting(b, f)
<1>1. f \in Fields
  BY DEF Fields
<1>2. Silent(o, f) => Setting(Append(a, o), f) = Setting(b, f)
                        /\ Setting(Append(b, o), f) = Setting(b, f)
  BY SettingPasses
<1>3. ~Silent(o, f) => Setting(Append(a, o), f) = Setting(Append(b, o), f)
  BY SettingLast
<1>4. ASSUME NEW t \in Ftpfs, match_template(t, o) PROVE Silent(o, f)
  <2> SUFFICES ASSUME NEW u \in AllTemplates, match_template(u, o), u.field = f
               PROVE  FALSE
    BY DEF Silent, Matching
  <2>1. t.name = u.name
    BY <1>4 DEF match_template
  <2>2. u \in Ftpfs
    BY <2>1, Apart DEF AllTemplates, Ftpfs, InCache
  <2>3. f \notin FtpfsFields \union {"iocharset", "key"}
    BY DEF FtpfsFields, CacheFields
  <2> QED BY <2>2, <2>3, FtpfsFacts
<1> QED BY <1>2, <1>3, <1>4

\* The option that has no field of its own.
Verbose == [name |-> "-v", param |-> None]
HasVerbose(a) == \E i \in DOMAIN a : a[i] = Verbose

\* "-v" is among the options when it is the last or one before.
LEMMA HasVerboseAppend ==
  ASSUME NEW a \in Seq(Option), NEW o \in Option
  PROVE  HasVerbose(Append(a, o)) <=> HasVerbose(a) \/ o = Verbose
<1> DEFINE b == Append(a, o)
<1>1. PICK n \in Nat : n = Len(a) /\ DOMAIN a = 1..n
  OBVIOUS
<1>2. /\ b \in Seq(Option) /\ Len(b) = n + 1 /\ b[n + 1] = o
      /\ \A i \in 1..n : b[i] = a[i]
  BY <1>1, AppendProperties
<1> HIDE DEF b
<1>3. DOMAIN b = 1..(n + 1)
  BY <1>2, SequenceFacts
<1>4. \A i \in 1..(n + 1) : i \in 1..n \/ i = n + 1
  OBVIOUS
<1>5. (\A i \in 1..n : i \in 1..(n + 1)) /\ n + 1 \in 1..(n + 1)
  OBVIOUS
<1>6. HasVerbose(b) <=> HasVerbose(a) \/ o = Verbose
  BY <1>1, <1>2, <1>3, <1>4, <1>5 DEF HasVerbose
<1> QED BY <1>6 DEF b

\* "-v" is the option that makes the program verbose.
LEMMA VerboseTemplate ==
  /\ \A t \in AllTemplates, o \in Option :
       match_template(t, o) /\ Sets(t, "verbose") => o = Verbose
  /\ \E t \in Ftpfs : match_template(t, Verbose) /\ Sets(t, "verbose") /\ Val(t, Verbose) = "1"
<1>1. ASSUME NEW t \in AllTemplates, NEW o \in Option, match_template(t, o), Sets(t, "verbose")
      PROVE  o = Verbose
  <2>1. t.field # "verbose"
    BY FtpfsFacts, CacheFacts DEF AllTemplates, Ftpfs, InCache, FtpfsFields, CacheFields
  <2>2. t.field = "key" /\ t.value = "verbose"
    BY <1>1, <2>1 DEF Sets
  <2>3. t \in Ftpfs
    BY <2>2, CacheFacts DEF AllTemplates, Ftpfs, InCache
  <2>4. t.name = "-v" /\ t.conv = None
    BY <2>2, <2>3, FtpfsFacts
  <2>5. o.name = "-v" /\ o.param = None
    BY <1>1, <2>4 DEF match_template
  <2> QED BY <2>5 DEF Verbose, Option
<1>2. PICK t \in Ftpfs : t = Template("-v", None, "key", "verbose")
  BY FtpfsTable
<1>3. match_template(t, Verbose) /\ Sets(t, "verbose") /\ Val(t, Verbose) = "1"
  BY <1>2 DEF Template, match_template, Sets, Val, Verbose
<1> QED BY <1>1, <1>3

\* The program is verbose when one of the options taken is "-v".
LEMMA VerboseTaken ==
  ASSUME NEW c, IsContext(c), c.pass = "ftpfs", NEW d, NEW o \in Option, NEW a \in Seq(Option),
         Taken(c, d, o, Known(c)), c.data.verbose = "1" <=> HasVerbose(a)
  PROVE  d.data.verbose = "1" <=> HasVerbose(Append(a, o))
<1>1. "verbose" \in Fields /\ Known(c) = Ftpfs
  BY DEF Fields, Known, Table, Ftpfs
<1>2. CASE o = Verbose
  <2>1. d.data.verbose = "1"
    BY <1>1, <1>2, VerboseTemplate DEF Taken
  <2> QED BY <1>2, <2>1, HasVerboseAppend
<1>3. CASE o # Verbose
  <2>1. \A t \in Known(c) : ~(match_template(t, o) /\ Sets(t, "verbose"))
    BY <1>1, <1>3, VerboseTemplate DEF AllTemplates, Ftpfs
  <2>2. d.data.verbose = c.data.verbose
    BY <1>1, <2>1 DEF Taken
  <2> QED BY <1>3, <2>2, HasVerboseAppend
<1> QED BY <1>2, <1>3

\* An option that is kept is not "-v".
LEMMA VerboseKept ==
  ASSUME NEW c, c.pass = "ftpfs", NEW o \in Option, NEW a \in Seq(Option),
         \A t \in Known(c) : ~match_template(t, o)
  PROVE  HasVerbose(Append(a, o)) <=> HasVerbose(a)
<1>1. Known(c) = Ftpfs
  BY DEF Known, Table, Ftpfs
<1>2. o # Verbose
  BY <1>1, VerboseTemplate
<1> QED BY <1>2, HasVerboseAppend

-----------------------------------------------------------------------------
(* An option is read.                                                      *)

\* The data and the list of options that is put together are those of the options
\* a, of which l are in lists.
DataOK(c, a, l) ==
  /\ a \in Seq(Option) /\ l \in Seq(Option)
  /\ c.opts = Others(l, Known(c))
  /\ \A f \in FieldsOf(c) : c.data[f] = Setting(a, f)
  /\ c.pass = "ftpfs" => /\ c.data.verbose = "1" <=> HasVerbose(a)
                         /\ \A f \in CacheFields : Setting(a, f) = Setting(c.opts, f)

\* What the options leave alone.
Besides(c, d) ==
  /\ d.args = c.args /\ d.argctr = c.argctr /\ d.list = c.list
  /\ d.nonopt = c.nonopt /\ d.pass = c.pass /\ d.data.host = c.data.host
  /\ c.pass = "cache" => \A g \in Fields \ CacheFields : d.data[g] = c.data[g]

\* An option that is taken leaves those alone.
LEMMA TakenBesides ==
  ASSUME NEW c, IsContext(c), NEW d, NEW o, Taken(c, d, o, Known(c))
  PROVE  Besides(c, d)
<1>1. "host" \in Fields /\ "host" \notin FtpfsFields \union {"iocharset", "key"}
      /\ "host" \notin CacheFields
  BY DEF Fields, FtpfsFields, CacheFields
<1>2. ASSUME NEW g \in Fields, \A t \in Known(c) : ~Sets(t, g)
      PROVE  d.data[g] = c.data[g]
  BY <1>2 DEF Taken
<1>3. \A t \in Known(c) : ~Sets(t, "host")
  BY <1>1, FtpfsFacts, CacheFacts DEF Known, Table, Ftpfs, InCache, Sets
<1>4. ASSUME c.pass = "cache", NEW g \in Fields \ CacheFields PROVE d.data[g] = c.data[g]
  <2>1. \A t \in Known(c) : ~Sets(t, g)
    BY <1>4, CacheFacts DEF Known, Table, InCache, Sets
  <2> QED BY <1>2, <2>1
<1>5. d.data.host = c.data.host
  BY <1>1, <1>2, <1>3
<1> QED BY <1>4, <1>5 DEF Besides, Taken, SameButData

\* An option is kept in the list.
LEMMA KeepListed ==
  ASSUME NEW c, IsContext(c), NEW o
  PROVE  /\ IsContext(Keep(c, o, TRUE)) /\ Besides(c, Keep(c, o, TRUE))
         /\ Keep(c, o, TRUE).res = c.res /\ Keep(c, o, TRUE).data = c.data
         /\ Keep(c, o, TRUE).opts = Append(c.opts, o)
         /\ Keep(c, o, TRUE).outargs = c.outargs
         /\ Keep(c, o, TRUE).pass = c.pass
BY DEF Keep, IsContext, Besides

\* An argument is kept in argv.
LEMMA KeepArg ==
  ASSUME NEW c, IsContext(c), NEW arg
  PROVE  /\ IsContext(Keep(c, arg, FALSE)) /\ Besides(c, Keep(c, arg, FALSE))
         /\ Keep(c, arg, FALSE).res = c.res /\ Keep(c, arg, FALSE).data = c.data
         /\ Keep(c, arg, FALSE).opts = c.opts
         /\ Keep(c, arg, FALSE).outargs = Append(c.outargs, arg)
         /\ Keep(c, arg, FALSE).pass = c.pass
BY DEF Keep, IsContext, Besides

\* The pass says which table and which fields are meant.
LEMMA KnownSame ==
  ASSUME NEW c, NEW d, d.pass = c.pass
  PROVE  Known(d) = Known(c) /\ FieldsOf(d) = FieldsOf(c)
BY DEF Known, Table, FieldsOf

\* An option of a list.
LEMMA ListOption ==
  ASSUME NEW c, IsContext(c), c.res = "ok", NEW o \in Option, NEW a, NEW l, DataOK(c, a, l),
         process_gopt(c, o, TRUE).res = "ok"
  PROVE  LET d == process_gopt(c, o, TRUE) IN
         /\ IsContext(d) /\ Besides(c, d) /\ d.outargs = c.outargs
         /\ DataOK(d, Append(a, o), Append(l, o))
<1> DEFINE d == process_gopt(c, o, TRUE)
<1>1. OptionOf(o, TRUE) = o
  BY DEF OptionOf
<1>2. /\ a \in Seq(Option) /\ l \in Seq(Option)
      /\ Append(a, o) \in Seq(Option) /\ Append(l, o) \in Seq(Option)
  BY DEF DataOK
<1>3. Others(Append(l, o), Known(c)) = Left1(o, Known(c), c.opts)
  BY <1>2, OthersAppend DEF DataOK
<1>4. c.opts \in Seq(Option)
  BY <1>2, OthersType DEF DataOK
<1>5. CASE \E t \in Known(c) : match_template(t, o)
  <2>1. Taken(c, d, o, Known(c))
    BY <1>1, <1>5, process_goptTakes DEF Known
  <2> HIDE DEF d
  <2>2. IsContext(d) /\ Besides(c, d) /\ d.outargs = c.outargs /\ d.opts = c.opts
        /\ d.pass = c.pass
    BY <2>1, TakenBesides DEF Taken, SameButData
  <2>3. Known(d) = Known(c) /\ FieldsOf(d) = FieldsOf(c)
    BY <2>2, KnownSame
  <2>4. d.opts = Others(Append(l, o), Known(d))
    BY <1>3, <1>5, <2>2, <2>3 DEF Left1
  <2>5. \A f \in FieldsOf(d) : d.data[f] = Setting(Append(a, o), f)
    BY <1>2, <2>1, <2>3, SettingTaken DEF DataOK
  <2>6. ASSUME d.pass = "ftpfs"
        PROVE  /\ d.data.verbose = "1" <=> HasVerbose(Append(a, o))
               /\ \A f \in CacheFields : Setting(Append(a, o), f) = Setting(d.opts, f)
    <3>1. c.pass = "ftpfs" /\ Known(c) = Ftpfs
      BY <2>2, <2>6 DEF Known, Table, Ftpfs
    <3>2. d.data.verbose = "1" <=> HasVerbose(Append(a, o))
      BY <1>2, <2>1, <3>1, VerboseTaken DEF DataOK
    <3>3. \A f \in CacheFields : Setting(Append(a, o), f) = Setting(d.opts, f)
      BY <1>2, <1>4, <1>5, <2>2, <3>1, SettingLater DEF DataOK
    <3> QED BY <3>2, <3>3
  <2>7. DataOK(d, Append(a, o), Append(l, o))
    BY <1>2, <2>4, <2>5, <2>6 DEF DataOK
  <2> QED BY <2>2, <2>7 DEF d
<1>6. CASE ~ \E t \in Known(c) : match_template(t, o)
  <2>1. d = Keep(c, o, TRUE)
    BY <1>1, <1>6, process_goptKeeps DEF Known
  <2> HIDE DEF d
  <2>2. /\ IsContext(d) /\ Besides(c, d) /\ d.outargs = c.outargs /\ d.opts = Append(c.opts, o)
        /\ d.data = c.data /\ d.pass = c.pass
    BY <2>1, KeepListed
  <2>3. Known(d) = Known(c) /\ FieldsOf(d) = FieldsOf(c)
    BY <2>2, KnownSame
  <2>4. d.opts = Others(Append(l, o), Known(d))
    BY <1>3, <1>6, <2>2, <2>3 DEF Left1
  <2>5. \A f \in FieldsOf(d) : d.data[f] = Setting(Append(a, o), f)
    BY <1>2, <1>6, <2>2, <2>3, SettingKept DEF DataOK
  <2>6. ASSUME d.pass = "ftpfs"
        PROVE  /\ d.data.verbose = "1" <=> HasVerbose(Append(a, o))
               /\ \A f \in CacheFields : Setting(Append(a, o), f) = Setting(d.opts, f)
    <3>1. c.pass = "ftpfs"
      BY <2>2, <2>6
    <3>2. d.data.verbose = "1" <=> HasVerbose(Append(a, o))
      BY <1>2, <1>6, <2>2, <3>1, VerboseKept DEF DataOK
    <3>3. \A f \in CacheFields : Setting(Append(a, o), f) = Setting(Append(c.opts, o), f)
      BY <1>2, <1>4, <3>1, SettingLater DEF DataOK
    <3> QED BY <2>2, <3>2, <3>3
  <2>7. DataOK(d, Append(a, o), Append(l, o))
    BY <1>2, <2>4, <2>5, <2>6 DEF DataOK
  <2> QED BY <2>2, <2>7 DEF d
<1> QED BY <1>5, <1>6

\* An option that stands alone.
LEMMA SingleOption ==
  ASSUME NEW c, IsContext(c), c.res = "ok", NEW arg, NEW o \in Option, arg.opts[1] = o,
         Alone(o), NEW a, NEW l, DataOK(c, a, l), process_gopt(c, arg, FALSE).res = "ok"
  PROVE  LET d == process_gopt(c, arg, FALSE) IN
         /\ IsContext(d) /\ Besides(c, d) /\ DataOK(d, Append(a, o), l)
         /\ d.outargs = IF \E t \in Known(c) : match_template(t, o) THEN c.outargs
                        ELSE Append(c.outargs, arg)
<1> DEFINE d == process_gopt(c, arg, FALSE)
<1>1. OptionOf(arg, FALSE) = o
  BY DEF OptionOf
<1>2. a \in Seq(Option) /\ l \in Seq(Option) /\ Append(a, o) \in Seq(Option)
  BY DEF DataOK
<1>3. \A f \in CacheFields : Setting(Append(a, o), f) = Setting(a, f)
  <2>1. \A f \in CacheFields : Silent(o, f)
    BY AloneSilent DEF Fields
  <2> QED BY <1>2, <2>1, SettingPasses
<1>5. CASE \E t \in Known(c) : match_template(t, o)
  <2>1. Taken(c, d, o, Known(c))
    BY <1>1, <1>5, process_goptTakes DEF Known
  <2> HIDE DEF d
  <2>2. IsContext(d) /\ Besides(c, d) /\ d.outargs = c.outargs /\ d.opts = c.opts
        /\ d.pass = c.pass
    BY <2>1, TakenBesides DEF Taken, SameButData
  <2>3. Known(d) = Known(c) /\ FieldsOf(d) = FieldsOf(c)
    BY <2>2, KnownSame
  <2>4. d.opts = Others(l, Known(d))
    BY <2>2, <2>3 DEF DataOK
  <2>5. \A f \in FieldsOf(d) : d.data[f] = Setting(Append(a, o), f)
    BY <1>2, <2>1, <2>3, SettingTaken DEF DataOK
  <2>6. ASSUME d.pass = "ftpfs"
        PROVE  /\ d.data.verbose = "1" <=> HasVerbose(Append(a, o))
               /\ \A f \in CacheFields : Setting(Append(a, o), f) = Setting(d.opts, f)
    <3>1. c.pass = "ftpfs"
      BY <2>2, <2>6
    <3>2. d.data.verbose = "1" <=> HasVerbose(Append(a, o))
      BY <1>2, <2>1, <3>1, VerboseTaken DEF DataOK
    <3> QED BY <1>3, <2>2, <3>1, <3>2 DEF DataOK
  <2>7. DataOK(d, Append(a, o), l)
    BY <1>2, <2>4, <2>5, <2>6 DEF DataOK
  <2> QED BY <1>5, <2>2, <2>7 DEF d
<1>6. CASE ~ \E t \in Known(c) : match_template(t, o)
  <2>1. d = Keep(c, arg, FALSE)
    BY <1>1, <1>6, process_goptKeeps DEF Known
  <2> HIDE DEF d
  <2>2. /\ IsContext(d) /\ Besides(c, d) /\ d.outargs = Append(c.outargs, arg)
        /\ d.opts = c.opts /\ d.data = c.data /\ d.pass = c.pass
    BY <2>1, KeepArg
  <2>3. Known(d) = Known(c) /\ FieldsOf(d) = FieldsOf(c)
    BY <2>2, KnownSame
  <2>4. d.opts = Others(l, Known(d))
    BY <2>2, <2>3 DEF DataOK
  <2>5. \A f \in FieldsOf(d) : d.data[f] = Setting(Append(a, o), f)
    BY <1>2, <1>6, <2>2, <2>3, SettingKept DEF DataOK
  <2>6. ASSUME d.pass = "ftpfs"
        PROVE  /\ d.data.verbose = "1" <=> HasVerbose(Append(a, o))
               /\ \A f \in CacheFields : Setting(Append(a, o), f) = Setting(d.opts, f)
    <3>1. c.pass = "ftpfs"
      BY <2>2, <2>6
    <3>2. d.data.verbose = "1" <=> HasVerbose(Append(a, o))
      BY <1>2, <1>6, <2>2, <3>1, VerboseKept DEF DataOK
    <3> QED BY <1>3, <2>2, <3>1, <3>2 DEF DataOK
  <2>7. DataOK(d, Append(a, o), l)
    BY <1>2, <2>4, <2>5, <2>6 DEF DataOK
  <2> QED BY <1>6, <2>2, <2>7 DEF d
<1> QED BY <1>5, <1>6

-----------------------------------------------------------------------------
(* Lines.                                                                  *)

\* An option that stands alone is one option, which sets no field.
ArgOK(arg) ==
  arg \in Argument /\ (arg.form = "dash" => Len(arg.opts) = 1 /\ Alone(arg.opts[1]))
LineOK(line) ==
  line \in Seq(Argument) /\ line # <<>> /\ \A i \in 1..Len(line) : ArgOK(line[i])

\* A line with one more argument.
LEMMA LineAppend ==
  ASSUME NEW line, LineOK(line), NEW arg, ArgOK(arg)
  PROVE  LineOK(Append(line, arg))
<1> DEFINE m == Append(line, arg)
<1>1. line \in Seq(Argument) /\ arg \in Argument
  BY DEF LineOK, ArgOK
<1>2. PICK n \in Nat : n = Len(line)
  BY <1>1
<1>3. /\ m \in Seq(Argument) /\ m # <<>> /\ Len(m) = n + 1 /\ m[n + 1] = arg
      /\ \A i \in 1..n : m[i] = line[i]
  BY <1>1, <1>2, AppendProperties
<1> HIDE DEF m
<1>4. ASSUME NEW i \in 1..(n + 1) PROVE ArgOK(m[i])
  <2>1. i = n + 1 \/ i \in 1..n
    OBVIOUS
  <2> QED BY <1>2, <1>3, <2>1 DEF LineOK
<1>5. LineOK(m)
  BY <1>3, <1>4 DEF LineOK
<1> QED BY <1>5 DEF m

\* Appending one option.
LEMMA OneOption ==
  ASSUME NEW s \in Seq(Option), NEW b \in Seq(Option), Len(b) = 1
  PROVE  b[1] \in Option /\ s \o b = Append(s, b[1])
<1>1. b[1] \in Option /\ b = <<b[1]>>
  <2>1. 1 \in 1..Len(b) /\ b[1] \in Option
    OBVIOUS
  <2>2. <<b[1]>> \in Seq(Option) /\ Len(<<b[1]>>) = 1
    BY <2>1
  <2>3. \A i \in 1..1 : b[i] = <<b[1]>>[i]
    OBVIOUS
  <2>4. PICK d \in Seq(Option) : d = <<b[1]>> /\ Len(d) = 1
    BY <2>2
  <2>5. b = d
    <3>1. \A i \in 1..Len(b) : b[i] = d[i]
      BY <2>3, <2>4
    <3>2. Len(b) = Len(d)
      BY <2>4
    <3> QED BY <3>1, <3>2, SeqEqual
  <2> QED BY <2>1, <2>4, <2>5
<1> QED BY <1>1, AppendIsConcat

\* The first of the options that are left of a list goes to those that are read.
LEMMA NextOfList ==
  ASSUME NEW a \in Seq(Option), NEW s \in Seq(Option), s # <<>>
  PROVE  /\ Head(s) \in Option /\ Tail(s) \in Seq(Option)
         /\ a \o s = Append(a, Head(s)) \o Tail(s)
<1>1. PICK o \in Option : o = Head(s)
  BY HeadTailProperties
<1>2. PICK t \in Seq(Option) : t = Tail(s)
  BY HeadTailProperties
<1>3. s = <<o>> \o t
  BY <1>1, <1>2
<1>4. PICK b \in Seq(Option) : b = <<o>>
  <2>1. <<o>> \in Seq(Option)
    OBVIOUS
  <2> QED BY <2>1
<1>5. (a \o b) \o t = a \o (b \o t)
  BY ConcatAssociative
<1>6. Append(a, o) = a \o b
  BY <1>4, AppendIsConcat
<1> QED BY <1>1, <1>2, <1>3, <1>4, <1>5, <1>6, Zenon

-----------------------------------------------------------------------------
(* What has been parsed of a line.                                         *)

\* The argv that is put together says what is left of r.
OutOK(c, r) ==
  LET q == Reading(c.outargs) IN
  /\ LineOK(c.outargs)
  /\ r.next = IF c.nonopt = 0 THEN "any" ELSE "word"
  /\ q.next = r.next /\ q.listed = <<>> /\ q.single = Others(r.single, Known(c))
  /\ q.words = IF c.pass = "cache" \/ r.words = <<>> THEN r.words ELSE Tail(r.words)
  /\ c.nonopt = 0 \/ c.nonopt \in 2..Len(c.outargs)
  /\ c.nonopt = Len(c.outargs) => Reading(Front(c.outargs)) = [q EXCEPT !.next = "any"]
  /\ \A i \in 1..Len(q.all) : Alone(q.all[i])

\* The first word is the host.
HostOK(c, r) ==
  c.pass = "ftpfs" =>
    c.data.host = IF r.words = <<>> THEN NoWord ELSE HostOf(r.words[1])

\* What has been parsed of a line: the options a, of which l are in lists, before
\* those of the list that is being read; r is what the arguments say.
ParsedAs(c, line, a, l, r) ==
  /\ IsContext(c) /\ LineOK(line)
  /\ c.args = line /\ c.argctr \in 2..(Len(line) + 1) /\ c.list \in Seq(Option)
  /\ r = Readings(line)[c.argctr - 1] /\ r \in Said
  /\ r.all = a \o c.list /\ r.listed = l \o c.list
  /\ DataOK(c, a, l) /\ OutOK(c, r) /\ HostOK(c, r)

Parsed(c, line) == \E a, l, r : ParsedAs(c, line, a, l, r)

\* Nothing but the options and the data of struct cache changes in the second
\* pass.
Stays(c, d) ==
  /\ d.args = c.args /\ d.pass = c.pass
  /\ c.pass = "cache" => \A g \in Fields \ CacheFields : d.data[g] = c.data[g]

\* The option of a list.
LEMMA ParsedOption ==
  ASSUME NEW c, NEW line, Parsed(c, line), c.res = "ok", c.list # <<>>,
         NextOption(c).res = "ok"
  PROVE  Parsed(NextOption(c), line) /\ Stays(c, NextOption(c))
<1>1. PICK a, l, r : ParsedAs(c, line, a, l, r)
  BY DEF Parsed
<1> DEFINE c1 == [c EXCEPT !.list = Tail(@)]
           o == Head(c.list)
           d == process_gopt(c1, o, TRUE)
<1>2. d = NextOption(c)
  BY DEF NextOption
<1>3. /\ a \in Seq(Option) /\ l \in Seq(Option) /\ c.list \in Seq(Option)
      /\ r.all = a \o c.list /\ r.listed = l \o c.list
  BY <1>1 DEF ParsedAs, DataOK
<1>4. /\ o \in Option /\ Tail(c.list) \in Seq(Option)
      /\ a \o c.list = Append(a, o) \o Tail(c.list)
      /\ l \o c.list = Append(l, o) \o Tail(c.list)
  BY <1>3, NextOfList
<1>5. IsContext(c)
  BY <1>1 DEF ParsedAs
<1>6. /\ c1.args = c.args /\ c1.argctr = c.argctr /\ c1.list = Tail(c.list)
      /\ c1.outargs = c.outargs /\ c1.opts = c.opts /\ c1.nonopt = c.nonopt
      /\ c1.pass = c.pass /\ c1.data = c.data /\ c1.res = "ok" /\ IsContext(c1)
  <2>1. c1 = [args |-> c.args, argctr |-> c.argctr, list |-> Tail(c.list),
              outargs |-> c.outargs, opts |-> c.opts, nonopt |-> c.nonopt,
              pass |-> c.pass, data |-> c.data, res |-> c.res]
    <3>1. PICK v : v = Tail(c.list)
      OBVIOUS
    <3>2. c1 = [c EXCEPT !.list = v]
      BY <3>1
    <3> HIDE DEF c1
    <3>3. c = [args |-> c.args, argctr |-> c.argctr, list |-> c.list, outargs |-> c.outargs,
               opts |-> c.opts, nonopt |-> c.nonopt, pass |-> c.pass, data |-> c.data,
               res |-> c.res]
      BY <1>5 DEF IsContext
    <3>4. [c EXCEPT !.list = v] =
            [args |-> c.args, argctr |-> c.argctr, list |-> v, outargs |-> c.outargs,
             opts |-> c.opts, nonopt |-> c.nonopt, pass |-> c.pass, data |-> c.data,
             res |-> c.res]
      BY <3>3
    <3> QED BY <3>1, <3>2, <3>4
  <2> HIDE DEF c1
  <2>2. /\ c1.args = c.args /\ c1.argctr = c.argctr /\ c1.list = Tail(c.list)
        /\ c1.outargs = c.outargs /\ c1.opts = c.opts /\ c1.nonopt = c.nonopt
        /\ c1.pass = c.pass /\ c1.data = c.data /\ c1.res = "ok"
    BY <2>1
  <2> QED BY <1>5, <2>1, <2>2 DEF IsContext
<1> HIDE DEF c1, o
<1>7. Known(c1) = Known(c) /\ FieldsOf(c1) = FieldsOf(c)
  BY <1>6, KnownSame
<1>8. DataOK(c1, a, l)
  BY <1>1, <1>6, <1>7 DEF ParsedAs, DataOK
<1>9. /\ IsContext(d) /\ Besides(c1, d) /\ d.outargs = c1.outargs
      /\ DataOK(d, Append(a, o), Append(l, o))
  BY <1>2, <1>4, <1>6, <1>8, ListOption
<1> HIDE DEF d
<1>10. /\ d.args = c.args /\ d.argctr = c.argctr /\ d.list = Tail(c.list)
       /\ d.outargs = c.outargs /\ d.nonopt = c.nonopt /\ d.pass = c.pass
       /\ d.data.host = c.data.host
  BY <1>6, <1>9 DEF Besides
<1>11. Known(d) = Known(c)
  BY <1>10, KnownSame
<1>12. OutOK(d, r)
  BY <1>1, <1>10, <1>11 DEF ParsedAs, OutOK
<1>13. HostOK(d, r)
  BY <1>1, <1>10 DEF ParsedAs, HostOK
<1>14. ParsedAs(d, line, Append(a, o), Append(l, o), r)
  BY <1>1, <1>3, <1>4, <1>9, <1>10, <1>12, <1>13 DEF ParsedAs
<1>15. Stays(c, d)
  BY <1>6, <1>9, <1>10 DEF Stays, Besides
<1> QED BY <1>2, <1>14, <1>15 DEF Parsed

-----------------------------------------------------------------------------
(* process_one.                                                            *)

\* The next argument, when no list is being read.
NextArg(c, line, a, l, r, arg) ==
  /\ ParsedAs(c, line, a, l, r) /\ c.list = <<>> /\ c.res = "ok"
  /\ c.argctr <= Len(line) /\ arg = line[c.argctr]

\* What is known before an argument is processed.
LEMMA NextArgFacts ==
  ASSUME NEW c, NEW line, NEW a, NEW l, NEW r, NEW arg, NextArg(c, line, a, l, r, arg)
  PROVE  /\ IsContext(c) /\ LineOK(line) /\ c.args = line /\ c.argctr \in 2..Len(line)
         /\ r \in Said /\ r.all = a /\ r.listed = l
         /\ a \in Seq(Option) /\ l \in Seq(Option)
         /\ DataOK(c, a, l) /\ OutOK(c, r) /\ HostOK(c, r)
         /\ ArgOK(arg) /\ arg \in Argument
         /\ c.argctr + 1 \in 2..(Len(line) + 1)
         /\ Readings(line)[(c.argctr + 1) - 1] = Read(r, arg) /\ Read(r, arg) \in Said
<1>1. /\ IsContext(c) /\ LineOK(line) /\ c.args = line
      /\ c.argctr \in 2..(Len(line) + 1) /\ c.argctr <= Len(line)
      /\ r \in Said /\ r = Readings(line)[c.argctr - 1] /\ arg = line[c.argctr]
      /\ DataOK(c, a, l) /\ OutOK(c, r) /\ HostOK(c, r)
  BY DEF NextArg, ParsedAs
<1>2. PICK n \in Nat : n = Len(line) /\ line \in Seq(Argument) /\ line # <<>>
  BY <1>1 DEF LineOK
<1>3. PICK k \in 2..n : k = c.argctr
  BY <1>1, <1>2
<1>4. k + 1 \in 2..(n + 1) /\ (k + 1) - 1 = k /\ k \in 1..n
  BY <1>2, <1>3
<1>5. ArgOK(arg) /\ arg \in Argument
  BY <1>1, <1>2, <1>3, <1>4 DEF LineOK, ArgOK
<1>6. Readings(line)[k] = Read(r, arg)
  BY <1>1, <1>2, <1>3, ReadingsFacts
<1>7. Read(r, arg) \in Said
  BY <1>1, <1>5, ReadType
<1>8. a \in Seq(Option) /\ l \in Seq(Option)
  BY <1>1 DEF DataOK
<1>9. r.all = a \o <<>> /\ r.listed = l \o <<>>
  BY DEF NextArg, ParsedAs
<1>10. r.all = a /\ r.listed = l
  BY <1>8, <1>9
<1> QED BY <1>1, <1>2, <1>3, <1>4, <1>5, <1>6, <1>7, <1>8, <1>10

\* The context behind k arguments, with a list to be read.
Behind(c, k, todo) ==
  [args |-> c.args, argctr |-> c.argctr + k, list |-> todo, outargs |-> c.outargs,
   opts |-> c.opts, nonopt |-> c.nonopt, pass |-> c.pass, data |-> c.data, res |-> c.res]

\* Only the place and the list have changed.
LEMMA BehindFacts ==
  ASSUME NEW c, IsContext(c), NEW k, NEW todo
  PROVE  LET d == Behind(c, k, todo) IN
         /\ IsContext(d) /\ d.args = c.args /\ d.argctr = c.argctr + k /\ d.list = todo
         /\ d.outargs = c.outargs /\ d.opts = c.opts /\ d.nonopt = c.nonopt
         /\ d.pass = c.pass /\ d.data = c.data /\ d.res = c.res
BY DEF Behind, IsContext

\* What does not depend on the place stays as it is.
LEMMA BehindOK ==
  ASSUME NEW c, NEW a, NEW l, NEW k, NEW todo, NEW r, NEW s,
         IsContext(c), DataOK(c, a, l), OutOK(c, r), HostOK(c, r),
         s.next = r.next, s.single = r.single, s.words = r.words
  PROVE  LET d == Behind(c, k, todo) IN
         DataOK(d, a, l) /\ OutOK(d, s) /\ HostOK(d, s) /\ Stays(c, d)
<1> DEFINE d == Behind(c, k, todo)
<1>1. /\ d.outargs = c.outargs /\ d.opts = c.opts /\ d.nonopt = c.nonopt
      /\ d.pass = c.pass /\ d.data = c.data /\ d.args = c.args
  BY BehindFacts
<1> HIDE DEF d
<1>2. Known(d) = Known(c) /\ FieldsOf(d) = FieldsOf(c)
  BY <1>1, KnownSame
<1>3. DataOK(d, a, l)
  BY <1>1, <1>2 DEF DataOK
<1>4. OutOK(d, s)
  BY <1>1, <1>2 DEF OutOK
<1>5. HostOK(d, s)
  BY <1>1 DEF HostOK
<1>6. Stays(c, d)
  BY <1>1 DEF Stays
<1> QED BY <1>3, <1>4, <1>5, <1>6 DEF d

\* A context has its nine fields.
LEMMA ShapeOfContext ==
  ASSUME NEW c, IsContext(c)
  PROVE  c = [args |-> c.args, argctr |-> c.argctr, list |-> c.list, outargs |-> c.outargs,
              opts |-> c.opts, nonopt |-> c.nonopt, pass |-> c.pass, data |-> c.data,
              res |-> c.res]
BY DEF IsContext

\* The steps over an argument, and over two.
LEMMA StepBehind ==
  ASSUME NEW c, IsContext(c)
  PROVE  /\ [c EXCEPT !.argctr = @ + 1] = Behind(c, 1, c.list)
         /\ \A todo : process_option_group([c EXCEPT !.argctr = @ + 1], todo) =
                        Behind(c, 1, todo)
<1>1. [c EXCEPT !.argctr = @ + 1] = Behind(c, 1, c.list)
  BY ShapeOfContext DEF Behind
<1>2. ASSUME NEW todo
      PROVE  process_option_group(Behind(c, 1, c.list), todo) = Behind(c, 1, todo)
  BY DEF Behind, process_option_group
<1> QED BY <1>1, <1>2

\* The step over the argument "-o" and the list behind it.
LEMMA StepBehindTwo ==
  ASSUME NEW c, IsContext(c), c.argctr \in Nat
  PROVE  \A todo : process_option_group(
                     [[c EXCEPT !.argctr = @ + 1] EXCEPT !.argctr = @ + 1], todo) =
                        Behind(c, 2, todo)
<1>1. [c EXCEPT !.argctr = @ + 1] = Behind(c, 1, c.list)
  BY StepBehind
<1>2. (c.argctr + 1) + 1 = c.argctr + 2
  OBVIOUS
<1>3. [Behind(c, 1, c.list) EXCEPT !.argctr = @ + 1] = Behind(c, 2, c.list)
  BY <1>2 DEF Behind
<1>4. ASSUME NEW todo
      PROVE  process_option_group(Behind(c, 2, c.list), todo) = Behind(c, 2, todo)
  BY DEF Behind, process_option_group
<1> QED BY <1>1, <1>3, <1>4

-----------------------------------------------------------------------------
(* The kinds of arguments.                                                 *)

\* A list of options.
LEMMA ListArg ==
  ASSUME NEW c, NEW line, NEW a, NEW l, NEW r, NEW arg, NextArg(c, line, a, l, r, arg),
         c.nonopt = 0, arg.form = "o", arg.opts # <<>>
  PROVE  Parsed(process_one(c), line) /\ Stays(c, process_one(c))
<1> DEFINE d == Behind(c, 1, arg.opts)
           s == Read(r, arg)
<1>1. IsContext(c) /\ c.args = line /\ arg = c.args[c.argctr]
  BY NextArgFacts DEF NextArg
<1>2. process_one(c) = d
  <2>1. process_one(c) = process_option_group([c EXCEPT !.argctr = @ + 1], arg.opts)
    BY <1>1 DEF process_one
  <2> QED BY <1>1, <2>1, StepBehind
<1>3. r.next = "any" /\ r \in Said
  <2>1. OutOK(c, r) /\ r \in Said
    BY NextArgFacts
  <2> QED BY <2>1 DEF OutOK
<1>4. s = ReadList(r, arg.opts)
  BY <1>3 DEF Read
<1>5. /\ s.next = r.next /\ s.single = r.single /\ s.words = r.words
      /\ s.all = r.all \o arg.opts /\ s.listed = r.listed \o arg.opts
  BY <1>3, <1>4 DEF ReadList, Said
<1>6. arg.opts \in Seq(Option)
  BY NextArgFacts, ArgumentFacts
<1>7. IsContext(d) /\ d.args = c.args /\ d.argctr = c.argctr + 1 /\ d.list = arg.opts
  BY <1>1, BehindFacts
<1> HIDE DEF s
<1>8. DataOK(d, a, l) /\ OutOK(d, s) /\ HostOK(d, s) /\ Stays(c, d)
  <2>1. IsContext(c) /\ DataOK(c, a, l) /\ OutOK(c, r) /\ HostOK(c, r)
    BY NextArgFacts
  <2> QED BY <1>5, <2>1, BehindOK
<1>9. s \in Said /\ s = Readings(line)[(c.argctr + 1) - 1]
      /\ c.argctr + 1 \in 2..(Len(line) + 1) /\ r.all = a /\ r.listed = l /\ LineOK(line)
  BY NextArgFacts DEF s
<1> HIDE DEF d
<1>10. ParsedAs(d, line, a, l, s)
  BY <1>1, <1>5, <1>6, <1>7, <1>8, <1>9 DEF ParsedAs
<1> QED BY <1>2, <1>8, <1>10 DEF Parsed

\* A list of options in the next argument.
LEMMA SplitListArg ==
  ASSUME NEW c, NEW line, NEW a, NEW l, NEW r, NEW arg, NextArg(c, line, a, l, r, arg),
         c.nonopt = 0, arg.form = "o", arg.opts = <<>>, c.argctr # Len(line)
  PROVE  Parsed(process_one(c), line) /\ Stays(c, process_one(c))
<1>1. IsContext(c) /\ c.args = line /\ arg = c.args[c.argctr] /\ LineOK(line)
      /\ c.argctr \in 2..Len(line)
  BY NextArgFacts DEF NextArg
<1>2. PICK n \in Nat : n = Len(line) /\ line \in Seq(Argument) /\ line # <<>>
  BY <1>1 DEF LineOK
<1>3. PICK k \in 2..(n - 1) : k = c.argctr
  BY <1>1, <1>2
<1>4. PICK x \in Argument : x = line[k + 1]
  BY <1>2, <1>3
<1> DEFINE d == Behind(c, 2, x.opts)
           s == Read(r, arg)
           u == Read(s, x)
<1>5. process_one(c) = d
  <2>1. process_one(c) = process_option_group(
                     [[c EXCEPT !.argctr = @ + 1] EXCEPT !.argctr = @ + 1], x.opts)
    BY <1>1, <1>3, <1>4 DEF process_one
  <2>2. c.argctr \in Nat
    BY <1>3
  <2> QED BY <1>1, <2>1, <2>2, StepBehindTwo
<1>6. r.next = "any" /\ r \in Said
  <2>1. OutOK(c, r) /\ r \in Said
    BY NextArgFacts
  <2> QED BY <2>1 DEF OutOK
<1>7. s = [r EXCEPT !.next = "list"]
  BY <1>6 DEF Read
<1>8. s \in Said /\ s = Readings(line)[k] /\ r.all = a /\ r.listed = l
  <2>1. (k + 1) - 1 = k
    BY <1>3
  <2> QED BY <1>3, <2>1, NextArgFacts DEF s
<1>9. /\ s.next = "list" /\ s.single = r.single /\ s.words = r.words
      /\ s.all = r.all /\ s.listed = r.listed
  BY <1>6, <1>7 DEF Said
<1> HIDE DEF s
<1>10. u = ReadList(s, x.opts)
  BY <1>9 DEF Read
<1>11. /\ u.next = r.next /\ u.single = r.single /\ u.words = r.words
       /\ u.all = a \o x.opts /\ u.listed = l \o x.opts
  <2>1. /\ u.all = s.all \o x.opts /\ u.listed = s.listed \o x.opts /\ u.next = "any"
        /\ u.single = s.single /\ u.words = s.words
    BY <1>8, <1>10 DEF ReadList, Said
  <2>2. s.all = a /\ s.listed = l
    BY <1>8, <1>9
  <2> QED BY <1>6, <1>9, <2>1, <2>2
<1>12. u \in Said
  BY <1>8, ReadType
<1>13. u = Readings(line)[(c.argctr + 2) - 1] /\ c.argctr + 2 \in 2..(Len(line) + 1)
  <2>1. (k + 2) - 1 = k + 1 /\ (k + 1) - 1 = k /\ k + 1 \in 2..n /\ k + 2 \in 2..(n + 1)
    BY <1>3
  <2>2. Readings(line)[k + 1] = Read(Readings(line)[k], x)
    BY <1>2, <1>4, <2>1, ReadingsFacts
  <2> QED BY <1>2, <1>3, <1>8, <2>1, <2>2
<1>14. x.opts \in Seq(Option)
  BY ArgumentFacts
<1>15. IsContext(d) /\ d.args = c.args /\ d.argctr = c.argctr + 2 /\ d.list = x.opts
  BY <1>1, BehindFacts
<1> HIDE DEF u
<1>16. DataOK(d, a, l) /\ OutOK(d, u) /\ HostOK(d, u) /\ Stays(c, d)
  <2>1. IsContext(c) /\ DataOK(c, a, l) /\ OutOK(c, r) /\ HostOK(c, r)
    BY NextArgFacts
  <2> QED BY <1>11, <2>1, BehindOK
<1> HIDE DEF d
<1>17. ParsedAs(d, line, a, l, u)
  BY <1>1, <1>11, <1>12, <1>13, <1>14, <1>15, <1>16 DEF ParsedAs
<1> QED BY <1>5, <1>16, <1>17 DEF Parsed

\* The line without its last argument.
LEMMA FrontOfAppend ==
  ASSUME NEW s \in Seq(Argument), NEW x \in Argument
  PROVE  Front(Append(s, x)) = s
<1> DEFINE m == Append(s, x)
<1>1. PICK n \in Nat : n = Len(s) /\ \A i \in 1..n : s[i] \in Argument
  OBVIOUS
<1>2. Len(m) = n + 1 /\ \A i \in 1..n : m[i] = s[i]
  BY <1>1, AppendProperties
<1> HIDE DEF m
<1>3. Front(m) = SubSeq(m, 1, n)
  <2>1. (n + 1) - 1 = n
    OBVIOUS
  <2> QED BY <1>2, <2>1 DEF Front
<1>4. /\ SubSeq(m, 1, n) \in Seq(Argument)
      /\ Len(SubSeq(m, 1, n)) = n
      /\ \A i \in 1..n : SubSeq(m, 1, n)[i] = m[i]
  <2>1. /\ SubSeq(m, 1, n) \in Seq(Argument)
        /\ Len(SubSeq(m, 1, n)) = IF 1 <= n THEN n - 1 + 1 ELSE 0
        /\ \A i \in 1..(n - 1 + 1) : SubSeq(m, 1, n)[i] = m[1 + i - 1]
    <3>1. \A i \in 1..n : m[i] \in Argument
      BY <1>1, <1>2
    <3> QED BY <3>1, SubSeqProperties
  <2>2. n - 1 + 1 = n /\ (~(1 <= n) => n = 0) /\ \A i \in 1..n : 1 + i - 1 = i
    OBVIOUS
  <2> QED BY <2>1, <2>2
<1>5. PICK t \in Seq(Argument) : t = SubSeq(m, 1, n) /\ Len(t) = n /\ \A i \in 1..n : t[i] = s[i]
  BY <1>2, <1>4
<1>6. t = s
  BY <1>1, <1>5, SeqEqual
<1> QED BY <1>3, <1>5, <1>6 DEF m

\* "--".
LEMMA DashesArg ==
  ASSUME NEW c, NEW line, NEW a, NEW l, NEW r, NEW arg, NextArg(c, line, a, l, r, arg),
         c.nonopt = 0, arg.form = "--"
  PROVE  Parsed(process_one(c), line) /\ Stays(c, process_one(c))
<1> DEFINE out == Append(c.outargs, arg)
           d == [args |-> c.args, argctr |-> c.argctr + 1, list |-> c.list, outargs |-> out,
                 opts |-> c.opts, nonopt |-> Len(c.outargs) + 1, pass |-> c.pass,
                 data |-> c.data, res |-> c.res]
           s == Read(r, arg)
           q == Reading(c.outargs)
<1>1. /\ IsContext(c) /\ c.args = line /\ arg = c.args[c.argctr] /\ c.list = <<>>
      /\ arg \in Argument /\ ArgOK(arg) /\ OutOK(c, r) /\ DataOK(c, a, l) /\ HostOK(c, r)
      /\ r \in Said /\ LineOK(line)
  BY NextArgFacts DEF NextArg
<1>2. process_one(c) = d
  <2> DEFINE b == Behind(c, 1, c.list)
  <2>1. process_one(c) = [b EXCEPT !.outargs = Append(@, arg), !.nonopt = Len(c.outargs) + 1]
    <3>1. [c EXCEPT !.argctr = @ + 1] = b
      BY <1>1, StepBehind
    <3> HIDE DEF b
    <3> QED BY <1>1, <3>1 DEF process_one
  <2> QED BY <2>1 DEF Behind
<1>3. r.next = "any"
  BY <1>1 DEF OutOK
<1>4. s = [r EXCEPT !.next = "word"]
  BY <1>3 DEF Read
<1>5. /\ s.next = "word" /\ s.single = r.single /\ s.words = r.words
      /\ s.all = r.all /\ s.listed = r.listed
  BY <1>1, <1>4 DEF Said
<1>6. c.outargs \in Seq(Argument) /\ c.outargs # <<>> /\ LineOK(c.outargs)
  BY <1>1 DEF OutOK, LineOK
<1>7. Reading(out) = Read(q, arg) /\ Len(out) = Len(c.outargs) + 1 /\ LineOK(out)
      /\ Front(out) = c.outargs
  BY <1>1, <1>6, ReadAppend, LineAppend, FrontOfAppend
<1>8. q \in Said /\ q.next = "any"
  BY <1>1, <1>3, <1>6, ReadingsType DEF OutOK
<1>9. Read(q, arg) = [q EXCEPT !.next = "word"]
  BY <1>8 DEF Read
<1>10. /\ d.args = line /\ d.argctr = c.argctr + 1 /\ d.list = <<>> /\ d.outargs = out
       /\ d.opts = c.opts /\ d.nonopt = Len(c.outargs) + 1 /\ d.pass = c.pass
       /\ d.data = c.data /\ IsContext(d)
  BY <1>1 DEF IsContext
<1> HIDE DEF d, out, s
<1>11. Known(d) = Known(c) /\ FieldsOf(d) = FieldsOf(c)
  BY <1>10, KnownSame
<1>12. DataOK(d, a, l)
  BY <1>1, <1>10, <1>11 DEF DataOK
<1>13. PICK p : p = Reading(out)
  OBVIOUS
<1>14. /\ p.next = "word" /\ p.listed = q.listed /\ p.single = q.single /\ p.words = q.words
       /\ p.all = q.all /\ q = [p EXCEPT !.next = "any"]
  <2>1. p = [q EXCEPT !.next = "word"]
    BY <1>7, <1>9, <1>13
  <2>2. q = [all |-> q.all, listed |-> q.listed, single |-> q.single, words |-> q.words,
             next |-> "any"]
    BY <1>8 DEF Said
  <2> HIDE DEF q
  <2>3. p = [all |-> q.all, listed |-> q.listed, single |-> q.single, words |-> q.words,
             next |-> "word"]
    BY <2>1, <2>2
  <2>4. [p EXCEPT !.next = "any"] = [all |-> q.all, listed |-> q.listed,
           single |-> q.single, words |-> q.words, next |-> "any"]
    BY <2>3
  <2>5. /\ p.next = "word" /\ p.listed = q.listed /\ p.single = q.single
        /\ p.words = q.words /\ p.all = q.all
    BY <2>3
  <2> QED BY <2>2, <2>4, <2>5, Zenon
<1>15. Len(c.outargs) + 1 \in 2..Len(out) /\ Len(c.outargs) + 1 # 0
  <2>1. PICK n \in Nat : n = Len(c.outargs) /\ n # 0
    BY <1>6
  <2> QED BY <1>7, <2>1
<1>16. OutOK(d, s)
  <2>1. /\ q.listed = <<>> /\ q.single = Others(r.single, Known(c))
        /\ q.words = IF c.pass = "cache" \/ r.words = <<>> THEN r.words ELSE Tail(r.words)
        /\ \A i \in 1..Len(q.all) : Alone(q.all[i])
    BY <1>1 DEF OutOK
  <2> HIDE DEF q
  <2>2. Reading(Front(d.outargs)) = [p EXCEPT !.next = "any"]
    BY <1>7, <1>10, <1>14 DEF q
  <2> QED BY <1>5, <1>7, <1>10, <1>11, <1>13, <1>14, <1>15, <2>1, <2>2 DEF OutOK
<1>17. HostOK(d, s)
  BY <1>1, <1>5, <1>10 DEF HostOK
<1>18. /\ s \in Said /\ s = Readings(line)[(c.argctr + 1) - 1] /\ <<>> \in Seq(Option)
       /\ c.argctr + 1 \in 2..(Len(line) + 1) /\ r.all = a \o <<>> /\ r.listed = l \o <<>>
  <2>1. r.all = a \o <<>> /\ r.listed = l \o <<>>
    BY DEF NextArg, ParsedAs
  <2> QED BY <2>1, NextArgFacts DEF s
<1>19. ParsedAs(d, line, a, l, s)
  BY <1>1, <1>5, <1>10, <1>12, <1>16, <1>17, <1>18 DEF ParsedAs
<1>20. Stays(c, d)
  BY <1>1, <1>10 DEF Stays
<1> QED BY <1>2, <1>19, <1>20 DEF Parsed

\* The words that go on to the new argv: all of them, or all behind the host.
LEMMA OutWord ==
  ASSUME NEW c, NEW d, NEW r \in Said, NEW s, NEW arg, OutOK(c, r), ArgOK(arg),
         c.nonopt # 0 \/ arg.form = "word",
         d.outargs = Append(c.outargs, arg), d.nonopt = c.nonopt, d.pass = c.pass,
         s.next = r.next, s.single = r.single, s.words = Append(r.words, arg),
         c.pass = "cache" \/ r.words # <<>>
  PROVE  OutOK(d, s)
<1> DEFINE q == Reading(c.outargs)
<1>1. c.outargs \in Seq(Argument) /\ c.outargs # <<>> /\ LineOK(c.outargs) /\ arg \in Argument
  BY DEF OutOK, LineOK, ArgOK
<1>2. PICK out : out = Append(c.outargs, arg)
  OBVIOUS
<1>3. Reading(out) = Read(q, arg) /\ Len(out) = Len(c.outargs) + 1 /\ LineOK(out)
  BY <1>1, <1>2, ReadAppend, LineAppend
<1>4. q \in Said
  BY <1>1, ReadingsType
<1>5. /\ r.next = IF c.nonopt = 0 THEN "any" ELSE "word"
      /\ q.next = r.next /\ q.listed = <<>> /\ q.single = Others(r.single, Known(c))
      /\ q.words = IF c.pass = "cache" \/ r.words = <<>> THEN r.words ELSE Tail(r.words)
      /\ c.nonopt = 0 \/ c.nonopt \in 2..Len(c.outargs)
      /\ \A i \in 1..Len(q.all) : Alone(q.all[i])
  BY DEF OutOK
<1> HIDE DEF q
<1>6. Read(q, arg) = [q EXCEPT !.words = Append(@, arg)]
  BY <1>5 DEF Read
<1>7. PICK p : p = Reading(out)
  OBVIOUS
<1>8. /\ p.next = q.next /\ p.listed = q.listed /\ p.single = q.single
      /\ p.words = Append(q.words, arg) /\ p.all = q.all
  BY <1>3, <1>4, <1>6, <1>7 DEF Said
<1>9. /\ s.words # <<>>
      /\ Append(q.words, arg) = IF c.pass = "cache" THEN s.words ELSE Tail(s.words)
  <2>1. r.words \in Seq(Argument)
    BY DEF Said
  <2>2. PICK w \in Seq(Argument) : w = r.words
    BY <2>1
  <2>3. Append(w, arg) # <<>> /\ (w # <<>> => Tail(Append(w, arg)) = Append(Tail(w), arg))
    BY <1>1, AppendProperties, HeadTailAppend
  <2> QED BY <1>5, <2>2, <2>3
<1>10. (d.nonopt = 0 \/ d.nonopt \in 2..Len(out)) /\ d.nonopt # Len(out)
  <2>1. PICK n \in Nat : n = Len(c.outargs)
    BY <1>1
  <2> QED BY <1>3, <1>5, <2>1
<1>11. Known(d) = Known(c)
  BY KnownSame
<1>12. d.outargs = out /\ Reading(d.outargs) = p
  BY <1>2, <1>7
<1>13. LineOK(d.outargs) /\ d.nonopt # Len(d.outargs)
  BY <1>3, <1>10, <1>12
<1>14. /\ s.next = IF d.nonopt = 0 THEN "any" ELSE "word"
       /\ p.next = s.next /\ p.listed = <<>> /\ p.single = Others(s.single, Known(d))
       /\ d.nonopt = 0 \/ d.nonopt \in 2..Len(d.outargs)
  BY <1>5, <1>8, <1>10, <1>11, <1>12
<1>15. p.words = IF d.pass = "cache" \/ s.words = <<>> THEN s.words ELSE Tail(s.words)
  BY <1>8, <1>9
<1>16. \A i \in 1..Len(p.all) : Alone(p.all[i])
  BY <1>5, <1>8
<1> QED BY <1>12, <1>13, <1>14, <1>15, <1>16 DEF OutOK

\* The state behind an argument.
LEMMA ArgDone ==
  ASSUME NEW c, NEW line, NEW a, NEW l, NEW r, NEW arg, NextArg(c, line, a, l, r, arg),
         NEW d, NEW a1, NEW s, s = Read(r, arg), IsContext(d), d.args = line,
         d.argctr = c.argctr + 1, d.list = <<>>,
         s.all = a1, s.listed = l, DataOK(d, a1, l), OutOK(d, s), HostOK(d, s)
  PROVE  Parsed(d, line)
<1>1. /\ s \in Said /\ s = Readings(line)[d.argctr - 1] /\ d.argctr \in 2..(Len(line) + 1)
      /\ LineOK(line)
  <2>1. /\ LineOK(line)
        /\ c.argctr + 1 \in 2..(Len(line) + 1)
        /\ Readings(line)[(c.argctr + 1) - 1] = Read(r, arg) /\ Read(r, arg) \in Said
    BY NextArgFacts
  <2> QED BY <2>1, Zenon
<1>2. a1 \in Seq(Option) /\ l \in Seq(Option) /\ <<>> \in Seq(Option)
  BY DEF DataOK
<1>3. a1 = a1 \o <<>> /\ l = l \o <<>>
  BY <1>2
<1>4. ParsedAs(d, line, a1, l, s)
  BY <1>1, <1>2, <1>3 DEF ParsedAs
<1> QED BY <1>4 DEF Parsed

\* The host, once it is set, is not NULL.
LEMMA HostNotNull ==
  ASSUME NEW arg \in Argument
  PROVE  HostOf(arg) # NoWord
BY DEF HostOf, NoWord, Arg, Argument

\* A word, or anything behind "--".
LEMMA WordArg ==
  ASSUME NEW c, NEW line, NEW a, NEW l, NEW r, NEW arg, NextArg(c, line, a, l, r, arg),
         c.nonopt # 0 \/ arg.form = "word"
  PROVE  Parsed(process_one(c), line) /\ Stays(c, process_one(c))
<1> DEFINE b == Behind(c, 1, c.list)
           s == Read(r, arg)
           d == process_one(c)
<1>1. /\ IsContext(c) /\ c.args = line /\ arg = c.args[c.argctr] /\ c.list = <<>>
      /\ arg \in Argument /\ ArgOK(arg) /\ OutOK(c, r) /\ DataOK(c, a, l) /\ HostOK(c, r)
      /\ r \in Said /\ LineOK(line) /\ c.res = "ok" /\ r.all = a /\ r.listed = l
  BY NextArgFacts DEF NextArg
<1>2. d = call_proc(b, arg, "nonopt", FALSE)
  <2>1. [c EXCEPT !.argctr = @ + 1] = b
    BY <1>1, StepBehind
  <2> HIDE DEF b
  <2> QED BY <1>1, <2>1 DEF process_one
<1>3. /\ IsContext(b) /\ b.args = line /\ b.argctr = c.argctr + 1 /\ b.list = <<>>
      /\ b.outargs = c.outargs /\ b.opts = c.opts /\ b.nonopt = c.nonopt
      /\ b.pass = c.pass /\ b.data = c.data /\ b.res = "ok"
  BY <1>1, BehindFacts
<1>4. r.next = IF c.nonopt = 0 THEN "any" ELSE "word"
  BY <1>1 DEF OutOK
<1>5. s = [r EXCEPT !.words = Append(@, arg)]
  BY <1>4 DEF Read
<1>6. /\ s.next = r.next /\ s.single = r.single /\ s.words = Append(r.words, arg)
      /\ s.all = a /\ s.listed = l
  BY <1>1, <1>5 DEF Said
<1>7. PICK w \in Seq(Argument) : w = r.words
  BY <1>1 DEF Said
<1>8. /\ Append(w, arg) # <<>> /\ (w = <<>> => Append(w, arg)[1] = arg)
      /\ (w # <<>> => Append(w, arg)[1] = w[1] /\ w[1] \in Argument)
      /\ (w = <<>> => Tail(Append(w, arg)) = <<>>)
  <2>1. /\ Append(w, arg) # <<>> /\ (w = <<>> => Tail(Append(w, arg)) = <<>>)
        /\ \A i \in 1..Len(w) : Append(w, arg)[i] = w[i]
        /\ Append(w, arg)[Len(w) + 1] = arg
    BY <1>1, AppendProperties, HeadTailAppend
  <2>2. w = <<>> => Len(w) + 1 = 1
    OBVIOUS
  <2>3. w # <<>> => 1 \in 1..Len(w)
    OBVIOUS
  <2>4. w # <<>> => w[1] \in Argument
    OBVIOUS
  <2>5. w = <<>> => Append(w, arg)[1] = arg
    BY <2>1, <2>2
  <2>6. w # <<>> => Append(w, arg)[1] = w[1]
    BY <2>1, <2>3
  <2> QED BY <2>1, <2>4, <2>5, <2>6
<1> HIDE DEF b, s, d
<1>9. CASE c.pass = "cache"
  <2>1. d = Keep(b, arg, FALSE)
    BY <1>2, <1>3, <1>9 DEF call_proc
  <2>2. /\ IsContext(d) /\ Besides(b, d) /\ d.data = c.data /\ d.opts = c.opts
        /\ d.outargs = Append(c.outargs, arg) /\ d.pass = c.pass
    BY <1>3, <2>1, KeepArg
  <2>3. d.args = line /\ d.argctr = c.argctr + 1 /\ d.list = <<>> /\ d.nonopt = c.nonopt
    BY <1>3, <2>2 DEF Besides
  <2>4. Known(d) = Known(c) /\ FieldsOf(d) = FieldsOf(c)
    BY <2>2, KnownSame
  <2>5. DataOK(d, a, l)
    BY <1>1, <2>2, <2>4 DEF DataOK
  <2>6. OutOK(d, s)
    BY <1>1, <1>6, <1>9, <2>2, <2>3, OutWord
  <2>7. HostOK(d, s) /\ Stays(c, d)
    BY <1>1, <1>9, <2>2, <2>3 DEF HostOK, Stays
  <2>8. Parsed(d, line)
    BY <1>6, <2>2, <2>3, <2>5, <2>6, <2>7, ArgDone DEF s
  <2> QED BY <2>7, <2>8 DEF d
<1>10. CASE c.pass = "ftpfs" /\ w = <<>>
  <2>1. c.data.host = NoWord
    BY <1>1, <1>7, <1>10 DEF HostOK
  <2>2. d = [b EXCEPT !.data.host = HostOf(arg)]
    BY <1>2, <1>3, <1>10, <2>1 DEF call_proc
  <2>3. PICK v : v = HostOf(arg)
    OBVIOUS
  <2>4. "host" \in Fields /\ d = SetData(b, "host", v)
    BY <2>2, <2>3 DEF Fields, SetData
  <2>5. /\ IsContext(d) /\ SameButData(b, d)
        /\ \A g \in Fields : d.data[g] = IF g = "host" THEN v ELSE b.data[g]
    <3>1. PICK f \in Fields : f = "host"
      BY <2>4
    <3>2. d = SetData(b, f, v)
      BY <2>4, <3>1
    <3>3. IsContext(b) /\ b.res = "ok"
      BY <1>3
    <3>4. /\ IsContext(SetData(b, f, v))
          /\ SameButData(b, SetData(b, f, v))
          /\ \A g \in Fields :
               SetData(b, f, v).data[g] = IF g = f THEN v ELSE b.data[g]
      BY <3>3, DataSet
    <3> QED BY <3>1, <3>2, <3>4
  <2>6. /\ d.args = line /\ d.argctr = c.argctr + 1 /\ d.list = <<>>
        /\ d.outargs = c.outargs /\ d.opts = c.opts /\ d.nonopt = c.nonopt /\ d.pass = c.pass
    BY <1>3, <2>5 DEF SameButData
  <2>7. Known(d) = Known(c) /\ FieldsOf(d) = FieldsOf(c)
    BY <2>6, KnownSame
  <2>8. \A g \in FtpfsFields \union {"verbose"} : d.data[g] = c.data[g]
    BY <1>3, <2>5 DEF Fields, FtpfsFields
  <2>9. DataOK(d, a, l)
    BY <1>1, <1>10, <2>6, <2>7, <2>8 DEF DataOK, FieldsOf
  <2>10. OutOK(d, s)
    <3>1. s.words # <<>> /\ Tail(s.words) = <<>> /\ r.words = <<>>
      BY <1>6, <1>7, <1>8, <1>10
    <3> QED BY <1>1, <1>6, <1>10, <2>6, <2>7, <3>1 DEF OutOK
  <2>11. HostOK(d, s)
    <3>1. s.words # <<>> /\ s.words[1] = arg
      BY <1>6, <1>7, <1>8, <1>10
    <3>2. d.data.host = v
      BY <2>4, <2>5
    <3> QED BY <2>3, <3>1, <3>2 DEF HostOK
  <2>12. Stays(c, d)
    BY <1>1, <1>10, <2>6 DEF Stays
  <2>13. Parsed(d, line)
    BY <1>6, <2>5, <2>6, <2>9, <2>10, <2>11, ArgDone DEF s
  <2> QED BY <2>12, <2>13 DEF d
<1>11. CASE c.pass = "ftpfs" /\ w # <<>>
  <2>1. c.data.host = HostOf(w[1]) /\ w[1] \in Argument
    BY <1>1, <1>7, <1>8, <1>11 DEF HostOK
  <2>2. c.data.host # NoWord
    BY <2>1, HostNotNull
  <2> DEFINE e == [b EXCEPT !.data.mountpoint = IF @ = NoWord THEN arg ELSE @]
  <2>3. d = Keep(e, arg, FALSE)
    BY <1>2, <1>3, <1>11, <2>2 DEF call_proc
  <2>4. PICK v : v = IF b.data.mountpoint = NoWord THEN arg ELSE b.data.mountpoint
    OBVIOUS
  <2>5. "mountpoint" \in Fields /\ e = SetData(b, "mountpoint", v)
    BY <2>4 DEF Fields, SetData
  <2> HIDE DEF e
  <2>6. /\ IsContext(e) /\ SameButData(b, e)
        /\ \A g \in Fields : e.data[g] = IF g = "mountpoint" THEN v ELSE b.data[g]
    <3>1. PICK f \in Fields : f = "mountpoint"
      BY <2>5
    <3>2. e = SetData(b, f, v)
      BY <2>5, <3>1
    <3>3. IsContext(b) /\ b.res = "ok"
      BY <1>3
    <3>4. /\ IsContext(SetData(b, f, v))
          /\ SameButData(b, SetData(b, f, v))
          /\ \A g \in Fields :
               SetData(b, f, v).data[g] = IF g = f THEN v ELSE b.data[g]
      BY <3>3, DataSet
    <3> QED BY <3>1, <3>2, <3>4
  <2>7. /\ IsContext(d) /\ Besides(e, d) /\ d.data = e.data /\ d.opts = e.opts
        /\ d.outargs = Append(e.outargs, arg) /\ d.pass = e.pass
    BY <2>3, <2>6, KeepArg
  <2>8. /\ d.args = line /\ d.argctr = c.argctr + 1 /\ d.list = <<>>
        /\ d.outargs = Append(c.outargs, arg) /\ d.opts = c.opts /\ d.nonopt = c.nonopt
        /\ d.pass = c.pass
    BY <1>3, <2>6, <2>7 DEF SameButData, Besides
  <2>9. Known(d) = Known(c) /\ FieldsOf(d) = FieldsOf(c)
    BY <2>8, KnownSame
  <2>10. \A g \in FtpfsFields \union {"verbose", "host"} : d.data[g] = c.data[g]
    BY <1>3, <2>6, <2>7 DEF Fields, FtpfsFields
  <2>11. DataOK(d, a, l)
    BY <1>1, <1>11, <2>8, <2>9, <2>10 DEF DataOK, FieldsOf
  <2>12. OutOK(d, s)
    BY <1>1, <1>6, <1>7, <1>11, <2>8, OutWord
  <2>13. HostOK(d, s)
    <3>1. s.words # <<>> /\ s.words[1] = w[1]
      BY <1>6, <1>7, <1>8, <1>11
    <3>2. d.data.host = c.data.host
      BY <2>10
    <3> QED BY <2>1, <3>1, <3>2 DEF HostOK
  <2>14. Stays(c, d)
    BY <1>1, <1>11, <2>8 DEF Stays
  <2>15. Parsed(d, line)
    BY <1>6, <2>7, <2>8, <2>11, <2>12, <2>13, ArgDone DEF s
  <2> QED BY <2>14, <2>15 DEF d
<1>12. c.pass \in {"ftpfs", "cache"}
  BY <1>1 DEF IsContext
<1> QED BY <1>9, <1>10, <1>11, <1>12

\* An option that stands alone.
LEMMA SingleArg ==
  ASSUME NEW c, NEW line, NEW a, NEW l, NEW r, NEW arg, NextArg(c, line, a, l, r, arg),
         c.nonopt = 0, arg.form = "dash", process_one(c).res = "ok"
  PROVE  Parsed(process_one(c), line) /\ Stays(c, process_one(c))
<1> DEFINE b == Behind(c, 1, c.list)
           s == Read(r, arg)
           d == process_one(c)
           q == Reading(c.outargs)
<1>1. /\ IsContext(c) /\ c.args = line /\ arg = c.args[c.argctr] /\ c.list = <<>>
      /\ arg \in Argument /\ ArgOK(arg) /\ OutOK(c, r) /\ DataOK(c, a, l) /\ HostOK(c, r)
      /\ r \in Said /\ LineOK(line) /\ c.res = "ok" /\ r.all = a /\ r.listed = l
      /\ a \in Seq(Option)
  BY NextArgFacts DEF NextArg
<1>2. d = process_gopt(b, arg, FALSE)
  <2>1. [c EXCEPT !.argctr = @ + 1] = b
    BY <1>1, StepBehind
  <2> HIDE DEF b
  <2> QED BY <1>1, <2>1 DEF process_one
<1>3. /\ IsContext(b) /\ b.args = line /\ b.argctr = c.argctr + 1 /\ b.list = <<>>
      /\ b.outargs = c.outargs /\ b.opts = c.opts /\ b.nonopt = c.nonopt
      /\ b.pass = c.pass /\ b.data = c.data /\ b.res = "ok"
  BY <1>1, BehindFacts
<1>4. r.next = "any"
  BY <1>1 DEF OutOK
<1>5. PICK v \in Seq(Option) : v = arg.opts /\ Len(v) = 1
  BY <1>1, ArgumentFacts DEF ArgOK
<1>6. PICK o \in Option : o = v[1] /\ Alone(o)
  <2>1. Alone(v[1])
    BY <1>1, <1>5 DEF ArgOK
  <2> QED BY <1>5, <2>1, OneOption
<1>7. s = [r EXCEPT !.all = @ \o v, !.single = @ \o v]
  BY <1>4, <1>5 DEF Read
<1>8. PICK u \in Seq(Option) : u = r.single
  BY <1>1 DEF Said
<1>9. a \o v = Append(a, o) /\ u \o v = Append(u, o)
  BY <1>1, <1>5, <1>6, OneOption
<1>10. /\ s.next = r.next /\ s.words = r.words /\ s.listed = l
       /\ s.all = Append(a, o) /\ s.single = Append(u, o)
  <2>1. /\ s.next = r.next /\ s.words = r.words /\ s.listed = r.listed
        /\ s.all = r.all \o v /\ s.single = r.single \o v
    BY <1>1, <1>7 DEF Said
  <2> QED BY <1>1, <1>8, <1>9, <2>1, Zenon
<1> HIDE DEF b, s, d, q
<1>11. Known(b) = Known(c) /\ FieldsOf(b) = FieldsOf(c)
  BY <1>3, KnownSame
<1>12. DataOK(b, a, l)
  BY <1>1, <1>3, <1>11 DEF DataOK
<1>13. /\ IsContext(d) /\ Besides(b, d) /\ DataOK(d, Append(a, o), l)
       /\ d.outargs = IF \E t \in Known(b) : match_template(t, o) THEN b.outargs
                      ELSE Append(b.outargs, arg)
  <2>1. arg.opts[1] = o
    BY <1>5, <1>6
  <2>2. process_gopt(b, arg, FALSE).res = "ok"
    BY <1>2 DEF d
  <2> QED BY <1>2, <1>3, <1>6, <1>12, <2>1, <2>2, SingleOption
<1>14. /\ d.args = line /\ d.argctr = c.argctr + 1 /\ d.list = <<>> /\ d.nonopt = 0
       /\ d.pass = c.pass /\ d.data.host = c.data.host
  BY <1>3, <1>13 DEF Besides
<1>15. Known(d) = Known(c)
  BY <1>14, KnownSame
<1>16. /\ LineOK(c.outargs) /\ q.next = "any" /\ q.listed = <<>>
       /\ q.single = Others(u, Known(c))
       /\ q.words = IF c.pass = "cache" \/ r.words = <<>> THEN r.words ELSE Tail(r.words)
       /\ \A i \in 1..Len(q.all) : Alone(q.all[i])
  BY <1>1, <1>4, <1>8 DEF OutOK, q
<1>17. Others(Append(u, o), Known(c)) = Left1(o, Known(c), q.single)
  BY <1>16, OthersAppend
<1>18. c.outargs \in Seq(Argument) /\ c.outargs # <<>>
  BY <1>16 DEF LineOK
<1>19. OutOK(d, s)
  <2>1. CASE \E t \in Known(c) : match_template(t, o)
    <3>1. d.outargs = c.outargs
      BY <1>3, <1>11, <1>13, <2>1
    <3>2. Reading(d.outargs) = q
      BY <3>1 DEF q
    <3>3. q.single = Others(s.single, Known(d))
      BY <1>10, <1>15, <1>17, <2>1 DEF Left1
    <3>4. Len(d.outargs) # 0
      BY <1>18, <3>1
    <3> QED BY <1>4, <1>10, <1>14, <1>16, <3>1, <3>2, <3>3, <3>4 DEF OutOK
  <2>2. CASE ~ \E t \in Known(c) : match_template(t, o)
    <3>1. d.outargs = Append(c.outargs, arg)
      BY <1>3, <1>11, <1>13, <2>2
    <3>2. Reading(d.outargs) = Read(q, arg) /\ Len(d.outargs) = Len(c.outargs) + 1
          /\ LineOK(d.outargs)
      BY <1>1, <1>16, <1>18, <3>1, ReadAppend, LineAppend DEF q
    <3>3. q \in Said
      BY <1>18, ReadingsType DEF q
    <3>4. Read(q, arg) = [q EXCEPT !.all = @ \o v, !.single = @ \o v]
      BY <1>5, <1>16 DEF Read
    <3>5. PICK p : p = Reading(d.outargs)
      OBVIOUS
    <3>6. /\ p.next = q.next /\ p.words = q.words /\ p.listed = q.listed
          /\ p.all = q.all \o v /\ p.single = q.single \o v
      BY <3>2, <3>3, <3>4, <3>5 DEF Said
    <3>7. PICK x \in Seq(Option) : x = q.single
      BY <3>3 DEF Said
    <3>8. PICK y \in Seq(Option) : y = q.all
      BY <3>3 DEF Said
    <3>9. x \o v = Append(x, o) /\ y \o v = Append(y, o)
      BY <1>5, <1>6, OneOption
    <3>10. p.single = Others(s.single, Known(d))
      <4>1. Left1(o, Known(c), q.single) = Append(q.single, o)
        BY <2>2 DEF Left1
      <4>2. p.single = Append(q.single, o)
        BY <3>6, <3>7, <3>9, Zenon
      <4> QED BY <1>10, <1>15, <1>17, <4>1, <4>2, Zenon
    <3>11. \A i \in 1..Len(p.all) : Alone(p.all[i])
      <4>1. PICK n \in Nat : n = Len(y)
        OBVIOUS
      <4>2. PICK z : z = Append(y, o)
        OBVIOUS
      <4>3. Len(z) = n + 1 /\ z[n + 1] = o /\ \A i \in 1..n : z[i] = y[i]
        BY <4>1, <4>2, AppendProperties
      <4>4. \A i \in 1..n : Alone(y[i])
        BY <1>16, <3>8, <4>1
      <4>5. ASSUME NEW i \in 1..(n + 1) PROVE Alone(z[i])
        <5>1. i \in 1..n \/ i = n + 1
          OBVIOUS
        <5> QED BY <1>6, <4>3, <4>4, <5>1
      <4>6. p.all = z
        BY <3>6, <3>8, <3>9, <4>2
      <4> QED BY <4>3, <4>5, <4>6
    <3>12. Len(d.outargs) # 0
      BY <1>18, <3>2
    <3> QED BY <1>4, <1>10, <1>14, <1>16, <3>2, <3>5, <3>6, <3>10, <3>11, <3>12 DEF OutOK
  <2> QED BY <2>1, <2>2
<1>20. HostOK(d, s)
  BY <1>1, <1>10, <1>14 DEF HostOK
<1>21. Parsed(d, line)
  BY <1>10, <1>13, <1>14, <1>19, <1>20, ArgDone DEF s
<1>22. Stays(c, d)
  BY <1>1, <1>3, <1>13, <1>14 DEF Stays, Besides
<1> QED BY <1>21, <1>22 DEF d

\* process_one reads one argument, or two.
LEMMA ParsedArg ==
  ASSUME NEW c, NEW line, Parsed(c, line), c.res = "ok", c.list = <<>>,
         c.argctr <= Len(c.args), process_one(c).res = "ok"
  PROVE  Parsed(process_one(c), line) /\ Stays(c, process_one(c))
<1>1. PICK a, l, r : ParsedAs(c, line, a, l, r)
  BY DEF Parsed
<1>2. PICK arg : arg = line[c.argctr]
  OBVIOUS
<1>3. c.args = line /\ IsContext(c)
  BY <1>1 DEF ParsedAs
<1>4. NextArg(c, line, a, l, r, arg)
  BY <1>1, <1>2, <1>3 DEF NextArg
<1>5. arg.form \in {"word", "o", "dash", "--"}
  BY <1>4, NextArgFacts, ArgumentFacts
<1>6. CASE c.nonopt # 0 \/ arg.form = "word"
  BY <1>4, <1>6, WordArg
<1>7. CASE c.nonopt = 0 /\ arg.form = "o" /\ arg.opts # <<>>
  BY <1>4, <1>7, ListArg
<1>8. CASE c.nonopt = 0 /\ arg.form = "o" /\ arg.opts = <<>>
  <2>1. CASE c.argctr = Len(line)
    <3>1. process_one(c) = [[c EXCEPT !.argctr = @ + 1] EXCEPT !.res = "error"]
      BY <1>2, <1>3, <1>8, <2>1 DEF process_one
    <3>2. process_one(c) = [Behind(c, 1, c.list) EXCEPT !.res = "error"]
      BY <1>3, <3>1, StepBehind
    <3>3. process_one(c).res = "error"
      BY <3>2 DEF Behind
    <3> QED BY <3>3
  <2>2. CASE c.argctr # Len(line)
    BY <1>4, <1>8, <2>2, SplitListArg
  <2> QED BY <2>1, <2>2
<1>9. CASE c.nonopt = 0 /\ arg.form = "--"
  BY <1>4, <1>9, DashesArg
<1>10. CASE c.nonopt = 0 /\ arg.form = "dash"
  BY <1>4, <1>10, SingleArg
<1> QED BY <1>5, <1>6, <1>7, <1>8, <1>9, <1>10

\* A line stays one without its last argument.
LEMMA FrontLine ==
  ASSUME NEW line, LineOK(line), Len(line) >= 2
  PROVE  LineOK(Front(line))
<1>1. line \in Seq(Argument) /\ line # <<>> /\ \A i \in 1..Len(line) : ArgOK(line[i])
  BY DEF LineOK
<1>2. PICK s \in Seq(Argument), x \in Argument : line = Append(s, x)
  BY <1>1, SequenceEmptyOrAppend
<1>3. PICK n \in Nat : n = Len(s)
  OBVIOUS
<1>4. Front(line) = s /\ Len(line) = n + 1 /\ \A i \in 1..n : line[i] = s[i]
  BY <1>2, <1>3, FrontOfAppend, AppendProperties
<1>5. n >= 1 /\ \A i \in 1..n : i \in 1..(n + 1)
  BY <1>4
<1>6. s # <<>>
  BY <1>3, <1>5
<1>7. \A i \in 1..n : ArgOK(s[i])
  BY <1>1, <1>4, <1>5
<1> QED BY <1>3, <1>4, <1>6, <1>7 DEF LineOK

\* What the new argv says.
LeftSays(left, c, q) ==
  /\ LineOK(left) /\ Reading(left).all = c.opts \o q.all /\ Reading(left).listed = c.opts
  /\ Reading(left).single = q.single /\ Reading(left).words = q.words

\* FUSE reads the list, and then what the new argv says without it.
LEMMA LeftReads ==
  ASSUME NEW c, NEW r, OutOK(c, r), c.opts \in Seq(Option)
  PROVE  LeftSays(Left(c), c, Reading(c.outargs))
<1> DEFINE q == Reading(c.outargs)
           out == c.outargs
<1>1. /\ LineOK(out) /\ q.listed = <<>> /\ (c.nonopt = 0 \/ c.nonopt \in 2..Len(out))
      /\ (c.nonopt = Len(out) => Reading(Front(out)) = [q EXCEPT !.next = "any"])
  BY DEF OutOK
<1>2. out \in Seq(Argument) /\ out # <<>>
  BY <1>1 DEF LineOK
<1>3. PICK n \in Nat : n = Len(out) /\ n # 0
  BY <1>2
<1>4. q \in Said
  BY <1>2, ReadingsType
<1> HIDE DEF q, out
<1>5. q.all \in Seq(Option)
  BY <1>4 DEF Said
<1>6. CASE c.opts = <<>>
  <2>1. c.opts \o q.all = q.all
    BY <1>5, <1>6
  <2>2. CASE c.nonopt # 0 /\ c.nonopt = Len(out)
    <3>1. Left(c) = Front(out)
      BY <1>6, <2>2 DEF Left, out
    <3>2. LineOK(Front(out))
      BY <1>1, <1>3, <2>2, FrontLine
    <3>3. Reading(Front(out)) = [q EXCEPT !.next = "any"]
      BY <1>1, <2>2
    <3>4. PICK p : p = Reading(Front(out))
      OBVIOUS
    <3>5. /\ p.all = q.all /\ p.listed = <<>> /\ p.single = q.single
          /\ p.words = q.words
      BY <1>1, <1>4, <3>3, <3>4 DEF Said
    <3> QED BY <1>6, <2>1, <3>1, <3>2, <3>4, <3>5 DEF LeftSays, q, out
  <2>3. CASE ~(c.nonopt # 0 /\ c.nonopt = Len(out))
    <3>1. Left(c) = out
      BY <1>6, <2>3 DEF Left, out
    <3> QED BY <1>1, <1>6, <2>1, <3>1 DEF LeftSays, q, out
  <2> QED BY <2>2, <2>3
<1>7. CASE c.opts # <<>>
  <2>1. PICK L \in Seq(Option) : L = c.opts
    OBVIOUS
  <2>2. PICK all : all = WithList(out, L)
    OBVIOUS
  <2>3. /\ all \in Seq(Argument) /\ Len(all) = n + 2
        /\ all[1] = out[1] /\ all[2] = Arg("o", <<>>) /\ all[3] = Arg("word", L)
        /\ \A i \in 2..n : all[i + 2] = out[i]
        /\ Reading(all) = Preceded(L, q)
    <3>1. /\ all \in Seq(Argument) /\ Len(all) = Len(out) + 2
          /\ all[1] = out[1] /\ all[2] = Arg("o", <<>>) /\ all[3] = Arg("word", L)
          /\ \A i \in 2..Len(out) : all[i + 2] = out[i]
          /\ Reading(all) = Preceded(L, Reading(out))
      BY <1>2, <2>2, ReadPreceded
    <3>2. Reading(out) = q
      BY DEF q, out
    <3> QED BY <1>3, <3>1, <3>2, Zenon
  <2>4. c.nonopt # n + 2
    BY <1>1, <1>3
  <2>5. Left(c) = all
    BY <1>7, <2>1, <2>2, <2>3, <2>4 DEF Left, out, WithList
  <2>6. LineOK(all)
    <3>1. ArgOK(Arg("o", <<>>)) /\ ArgOK(Arg("word", L))
      BY DEF ArgOK, Arg, Argument
    <3>2. \A i \in 1..n : ArgOK(out[i])
      BY <1>1, <1>3 DEF LineOK
    <3>3. ASSUME NEW i \in 1..(n + 2) PROVE ArgOK(all[i])
      <4>1. i = 1 \/ i = 2 \/ i = 3 \/ (i - 2 \in 2..n /\ (i - 2) + 2 = i)
        OBVIOUS
      <4>2. 1 \in 1..n
        BY <1>3
      <4>3. CASE i = 1
        BY <2>3, <3>2, <4>2, <4>3
      <4>4. CASE i = 2 \/ i = 3
        BY <2>3, <3>1, <4>4
      <4>5. CASE i - 2 \in 2..n /\ (i - 2) + 2 = i
        <5>1. PICK k \in 2..n : k = i - 2 /\ k + 2 = i
          BY <4>5
        <5>2. all[i] = out[k] /\ k \in 1..n
          BY <2>3, <5>1
        <5> QED BY <3>2, <5>2
      <4> QED BY <4>1, <4>3, <4>4, <4>5
    <3>4. all # <<>>
      BY <2>3
    <3> QED BY <2>3, <3>3, <3>4 DEF LineOK
  <2>7. L \o <<>> = L
    OBVIOUS
  <2>8. /\ Preceded(L, q).all = L \o q.all /\ Preceded(L, q).listed = L
        /\ Preceded(L, q).single = q.single /\ Preceded(L, q).words = q.words
    BY <1>1, <2>7 DEF Preceded
  <2> QED BY <2>1, <2>3, <2>5, <2>6, <2>8 DEF LeftSays, q, out
<1> QED BY <1>6, <1>7

\* A whole line has been parsed: its options have been taken, and the rest is left.
LEMMA LineDone ==
  ASSUME NEW c, NEW line, Parsed(c, line), c.list = <<>>, c.argctr > Len(c.args)
  PROVE  LET given == Reading(line)
             left  == Reading(Left(c))
         IN
         /\ LineOK(Left(c)) /\ IsContext(c)
         /\ given \in Said /\ DataOK(c, given.all, given.listed) /\ HostOK(c, given)
         /\ left.listed = Others(given.listed, Known(c))
         /\ left.single = Others(given.single, Known(c))
         /\ left.words = IF c.pass = "cache" \/ given.words = <<>> THEN given.words
                         ELSE Tail(given.words)
         /\ \A f \in CacheFields : Setting(left.all, f) = Setting(c.opts, f)
<1>1. PICK a, l, r : ParsedAs(c, line, a, l, r)
  BY DEF Parsed
<1>2. /\ IsContext(c) /\ LineOK(line) /\ c.args = line /\ c.argctr \in 2..(Len(line) + 1)
      /\ r = Readings(line)[c.argctr - 1] /\ r \in Said /\ r.all = a \o c.list
      /\ r.listed = l \o c.list /\ DataOK(c, a, l) /\ OutOK(c, r) /\ HostOK(c, r)
  BY <1>1 DEF ParsedAs
<1>3. PICK n \in Nat : n = Len(line)
  BY <1>2 DEF LineOK
<1>4. c.argctr - 1 = n
  BY <1>2, <1>3
<1>5. r = Reading(line)
  BY <1>2, <1>3, <1>4 DEF Reading
<1>6. a \in Seq(Option) /\ l \in Seq(Option) /\ c.opts = Others(l, Known(c))
  BY <1>2 DEF DataOK
<1>7. r.all = a /\ r.listed = l
  BY <1>2, <1>6
<1>8. c.opts \in Seq(Option)
  BY <1>6, OthersType
<1>9. PICK q : q = Reading(c.outargs)
  OBVIOUS
<1>10. LeftSays(Left(c), c, q)
  BY <1>2, <1>8, <1>9, LeftReads
<1>11. /\ q.single = Others(r.single, Known(c))
       /\ q.words = IF c.pass = "cache" \/ r.words = <<>> THEN r.words ELSE Tail(r.words)
       /\ \A i \in 1..Len(q.all) : Alone(q.all[i])
  BY <1>2, <1>9 DEF OutOK
<1>12. PICK y \in Seq(Option) : y = q.all
  <2>1. c.outargs \in Seq(Argument) /\ c.outargs # <<>>
    BY <1>2 DEF OutOK, LineOK
  <2>2. q \in Said
    BY <1>9, <2>1, ReadingsType
  <2> QED BY <2>2 DEF Said
<1>13. ASSUME NEW f \in CacheFields PROVE Setting(c.opts \o q.all, f) = Setting(c.opts, f)
  <2>1. PICK x \in Seq(Option) : x = c.opts
    BY <1>8
  <2>2. \A i \in 1..Len(y) : Silent(y[i], f)
    BY <1>11, <1>12, AloneSilent DEF Fields
  <2>3. Setting(x \o y, f) = Setting(x, f)
    BY <2>2, SettingSilent
  <2> QED BY <1>12, <2>1, <2>3
<1> QED BY <1>2, <1>5, <1>6, <1>7, <1>10, <1>11, <1>13 DEF LeftSays

\* fuse_opt_parse begins.
LEMMA ParseBegins ==
  ASSUME NEW line, LineOK(line), NEW pass \in {"ftpfs", "cache"}, NEW data,
         data = [f \in Fields |-> data[f]],
         \A f \in FieldsOf(Context(line, pass, data)) : data[f] = CacheDefaults(Defaults)[f],
         pass = "ftpfs" => data.verbose # "1" /\ data.host = NoWord
  PROVE  Parsed(Context(line, pass, data), line) /\ Context(line, pass, data).res = "ok"
<1> DEFINE c == Context(line, pass, data)
<1>1. /\ c.args = line /\ c.argctr = 2 /\ c.list = <<>> /\ c.outargs = <<line[1]>>
      /\ c.opts = <<>> /\ c.nonopt = 0 /\ c.pass = pass /\ c.data = data /\ c.res = "ok"
      /\ IsContext(c)
  BY DEF Context, IsContext
<1> HIDE DEF c
<1>2. PICK n \in Nat : n = Len(line) /\ n # 0 /\ line \in Seq(Argument) /\ line # <<>>
  BY DEF LineOK
<1>3. ArgOK(line[1]) /\ line[1] \in Argument
  BY <1>2 DEF LineOK, ArgOK
<1>4. /\ <<line[1]>> \in Seq(Argument) /\ <<line[1]>> # <<>>
      /\ Reading(<<line[1]>>) = Unread
  BY <1>3, ReadName
<1>5. LineOK(<<line[1]>>) /\ Len(<<line[1]>>) = 1
  BY <1>3, <1>4 DEF LineOK
<1>6. Readings(line)[1] = Unread
  BY <1>2, ReadingsFacts
<1>7. /\ Unread \in Said /\ Unread.all = <<>> /\ Unread.listed = <<>> /\ Unread.single = <<>>
      /\ Unread.words = <<>> /\ Unread.next = "any"
  BY DEF Unread, Said
<1>8. OutOK(c, Unread)
  <2>1. Others(<<>>, Known(c)) = <<>>
    BY OthersEmpty
  <2>2. <<line[1]>> = c.outargs /\ 0 # Len(c.outargs)
    BY <1>1, <1>5
  <2>3. Len(Unread.all) = 0
    BY <1>7
  <2> QED BY <1>1, <1>4, <1>5, <1>7, <2>1, <2>2, <2>3 DEF OutOK
<1>9. DataOK(c, <<>>, <<>>)
  <2>1. Others(<<>>, Known(c)) = <<>>
    BY OthersEmpty
  <2>2. \A f \in FieldsOf(c) : c.data[f] = Setting(<<>>, f)
    BY <1>1, SettingEmpty DEF c
  <2>3. ~HasVerbose(<<>>)
    BY DEF HasVerbose
  <2>4. <<>> \in Seq(Option)
    OBVIOUS
  <2> QED BY <1>1, <2>1, <2>2, <2>3, <2>4 DEF DataOK
<1>10. HostOK(c, Unread)
  BY <1>1, <1>7 DEF HostOK
<1>11. /\ 2 \in 2..(n + 1) /\ Unread = Readings(line)[2 - 1]
  <2>1. 2 - 1 = 1
    OBVIOUS
  <2> QED BY <1>2, <1>6, <2>1
<1>12. <<>> \in Seq(Option) /\ <<>> \o <<>> = <<>>
  OBVIOUS
<1>13. ParsedAs(c, line, <<>>, <<>>, Unread)
  BY <1>1, <1>2, <1>7, <1>8, <1>9, <1>10, <1>11, <1>12 DEF ParsedAs
<1> QED BY <1>1, <1>13 DEF Parsed, c

-----------------------------------------------------------------------------
(* The two passes over the command line.                                   *)

\* The first pass has left line of the command line: what neither is an option of
\* struct ftpfs nor the host, with every option of struct cache that counts.
Once(line, given) ==
  /\ LineOK(line)
  /\ Reading(line).listed = Others(given.listed, Ftpfs)
  /\ Reading(line).single = Others(given.single, Ftpfs)
  /\ Reading(line).words = IF given.words = <<>> THEN <<>> ELSE Tail(given.words)
  /\ \A f \in CacheFields : Setting(Reading(line).all, f) = Setting(given.all, f)

\* struct ftpfs is filled.
Filled(data, given) ==
  /\ data = [f \in Fields |-> data[f]]
  /\ \A f \in FtpfsFields : data[f] = Setting(given.all, f)
  /\ data.verbose = "1" <=> HasVerbose(given.all)
  /\ data.host = IF given.words = <<>> THEN NoWord ELSE HostOf(given.words[1])

\* Everything is filled, and line goes to FUSE.
Twice(line, data, given) ==
  /\ \A f \in FtpfsFields \union CacheFields : data[f] = Setting(given.all, f)
  /\ data.verbose = "1" <=> HasVerbose(given.all)
  /\ data.host = HostOf(given.words[1])
  /\ Reading(line).listed = Others(given.listed, AllTemplates)
  /\ Reading(line).single = Others(given.single, AllTemplates)
  /\ Reading(line).words = Tail(given.words)

\* How far the command line has been read.
LineInv ==
  /\ phase \in {"parse", "host", "cache", "user"} => Reading(cmdline) \in Said
  /\ phase = "parse" /\ ctx.res = "ok" => ctx.pass = "ftpfs" /\ Parsed(ctx, cmdline)
  /\ phase = "host" => Once(ctx.args, Reading(cmdline)) /\ Filled(ctx.data, Reading(cmdline))
  /\ phase = "cache" /\ ctx.res = "ok" =>
       /\ ctx.pass = "cache" /\ Parsed(ctx, ctx.args)
       /\ Once(ctx.args, Reading(cmdline)) /\ Filled(ctx.data, Reading(cmdline))
       /\ ctx.data.host # NoWord
  /\ phase = "user" => Twice(ctx.args, ctx.data, Reading(cmdline))

\* A command line can be read.
LEMMA CommandLineOK ==
  ASSUME NEW line \in CommandLines
  PROVE  LineOK(line)
<1>1. IsLine(line)
  BY CommandLinesAssumption
<1>2. line \in Seq(Argument) /\ line # <<>> /\ DOMAIN line = 1..Len(line)
      /\ \A i \in 1..Len(line) : line[i] \in Argument
  BY <1>1 DEF IsLine
<1>3. ASSUME NEW i \in 1..Len(line) PROVE ArgOK(line[i])
  BY <1>1, <1>2, <1>3 DEF IsLine, ArgOK, Alone
<1> QED BY <1>2, <1>3 DEF LineOK

\* The first pass begins with the command line as it is given.
LEMMA LineInit ==
  ASSUME MountInit
  PROVE  LineInv
<1>1. /\ phase = "parse" /\ cmdline \in CommandLines
      /\ ctx = Context(cmdline, "ftpfs", Defaults)
  BY DEF MountInit
<1>2. LineOK(cmdline)
  BY <1>1, CommandLineOK
<1>3. Reading(cmdline) \in Said
  BY <1>2, ReadingsType DEF LineOK
<1>4. /\ Defaults = [f \in Fields |-> Defaults[f]]
      /\ Defaults.verbose # "1" /\ Defaults.host = NoWord
  BY DefaultFields DEF Defaults
<1>5. /\ Context(cmdline, "ftpfs", Defaults).pass = "ftpfs"
      /\ FieldsOf(Context(cmdline, "ftpfs", Defaults)) = FtpfsFields
  BY DEF Context, FieldsOf
<1>6. \A f \in FtpfsFields : Defaults[f] = CacheDefaults(Defaults)[f]
  BY DEF FtpfsFields, CacheDefaults, Defaults
<1>7. Parsed(ctx, cmdline)
  <2>1. PICK data : data = Defaults
    OBVIOUS
  <2>2. Parsed(Context(cmdline, "ftpfs", data), cmdline)
    BY <1>2, <1>4, <1>5, <1>6, <2>1, ParseBegins
  <2> QED BY <1>1, <2>1, <2>2
<1> QED BY <1>1, <1>3, <1>5, <1>7 DEF LineInv

\* An argument or an option is parsed.
LEMMA LineParse ==
  ASSUME LineInv, ParseOne \/ ParseOption
  PROVE  LineInv'
<1>1. /\ phase \in {"parse", "cache"} /\ phase' = phase /\ cmdline' = cmdline
      /\ ctx.res = "ok"
      /\ \/ /\ ctx.list = <<>> /\ ctx.argctr <= Len(ctx.args) /\ ctx' = process_one(ctx)
         \/ ctx.list # <<>> /\ ctx' = NextOption(ctx)
  BY DEF ParseOne, ParseOption
<1>2. Reading(cmdline)' \in Said
  BY <1>1 DEF LineInv
<1>3. ASSUME NEW line, Parsed(ctx, line), ctx'.res = "ok"
      PROVE  Parsed(ctx', line) /\ Stays(ctx, ctx')
  BY <1>1, <1>3, ParsedArg, ParsedOption
<1>4. CASE phase = "parse"
  <2>1. ctx.pass = "ftpfs" /\ Parsed(ctx, cmdline)
    BY <1>1, <1>4 DEF LineInv
  <2>2. ctx'.res = "ok" => ctx'.pass = "ftpfs" /\ Parsed(ctx', cmdline)
    BY <1>3, <2>1 DEF Stays
  <2> QED BY <1>1, <1>2, <1>4, <2>2 DEF LineInv
<1>5. CASE phase = "cache"
  <2>1. PICK line, given : line = ctx.args /\ given = Reading(cmdline)
    OBVIOUS
  <2>2. /\ ctx.pass = "cache" /\ Parsed(ctx, line) /\ Once(line, given)
        /\ Filled(ctx.data, given) /\ ctx.data.host # NoWord
    BY <1>1, <1>5, <2>1 DEF LineInv
  <2>3. ASSUME ctx'.res = "ok"
        PROVE  /\ ctx'.pass = "cache" /\ ctx'.args = line /\ Parsed(ctx', line)
               /\ Filled(ctx'.data, given) /\ ctx'.data.host # NoWord
    <3>1. Parsed(ctx', line) /\ Stays(ctx, ctx')
      BY <1>3, <2>2, <2>3
    <3>2. /\ ctx'.pass = "cache" /\ ctx'.args = line
          /\ \A g \in Fields \ CacheFields : ctx'.data[g] = ctx.data[g]
      BY <2>1, <2>2, <3>1 DEF Stays
    <3>3. PICK a, l, r : ParsedAs(ctx', line, a, l, r)
      BY <3>1 DEF Parsed
    <3>4. ctx'.data = [f \in Fields |-> ctx'.data[f]]
      BY <3>3 DEF ParsedAs, IsContext
    <3>5. \A g \in FtpfsFields \union {"verbose", "host"} : ctx'.data[g] = ctx.data[g]
      BY <3>2 DEF Fields, FtpfsFields, CacheFields
    <3>6. ctx'.data.verbose = ctx.data.verbose /\ ctx'.data.host = ctx.data.host
      BY <3>5
    <3>7. Filled(ctx'.data, given)
      BY <2>2, <3>4, <3>5, <3>6 DEF Filled
    <3> QED BY <2>2, <3>1, <3>2, <3>6, <3>7
  <2>4. Reading(cmdline') = given
    BY <1>1, <2>1
  <2> QED BY <1>1, <1>2, <1>5, <2>2, <2>3, <2>4 DEF LineInv
<1> QED BY <1>1, <1>4, <1>5

\* The first pass ends.
LEMMA LineFirst ==
  ASSUME LineInv, ParseEnds("parse", "host")
  PROVE  LineInv'
<1>1. /\ phase = "parse" /\ phase' = "host" /\ cmdline' = cmdline /\ ctx.res = "ok"
      /\ ctx.list = <<>> /\ ctx.argctr > Len(ctx.args)
      /\ ctx' = [ctx EXCEPT !.args = Left(ctx)]
  BY DEF ParseEnds
<1>2. ctx.pass = "ftpfs" /\ Parsed(ctx, cmdline) /\ Reading(cmdline) \in Said
  BY <1>1 DEF LineInv
<1>3. PICK given : given = Reading(cmdline)
  OBVIOUS
<1>4. PICK left : left = Left(ctx)
  OBVIOUS
<1>5. /\ LineOK(left) /\ IsContext(ctx)
      /\ given \in Said /\ DataOK(ctx, given.all, given.listed) /\ HostOK(ctx, given)
      /\ Reading(left).listed = Others(given.listed, Known(ctx))
      /\ Reading(left).single = Others(given.single, Known(ctx))
      /\ Reading(left).words =
           IF ctx.pass = "cache" \/ given.words = <<>> THEN given.words
           ELSE Tail(given.words)
      /\ \A f \in CacheFields : Setting(Reading(left).all, f) = Setting(ctx.opts, f)
  BY <1>1, <1>2, <1>3, <1>4, LineDone
<1>6. ctx'.args = left /\ ctx'.data = ctx.data
  BY <1>1, <1>4, <1>5 DEF IsContext
<1>7. Known(ctx) = Ftpfs /\ FieldsOf(ctx) = FtpfsFields
  BY <1>2 DEF Known, Table, Ftpfs, FieldsOf
<1>8. Once(left, given)
  BY <1>2, <1>5, <1>7 DEF Once, DataOK
<1>9. Filled(ctx.data, given)
  BY <1>2, <1>5, <1>7 DEF Filled, DataOK, HostOK, IsContext
<1> QED BY <1>1, <1>2, <1>3, <1>6, <1>8, <1>9 DEF LineInv

\* The second pass begins with what the first has left.
LEMMA LineAgain ==
  ASSUME LineInv, InitEasy
  PROVE  LineInv'
<1>1. CASE phase' = "exited" /\ UNCHANGED cmdline
  BY <1>1 DEF LineInv
<1>2. CASE /\ phase = "host" /\ ctx.data.host # NoWord /\ phase' = "cache"
           /\ cmdline' = cmdline
           /\ ctx' = Context(ctx.args, "cache", CacheDefaults(
                [ctx.data EXCEPT !.iocharset = IF @ = None THEN "UTF8" ELSE @]))
  <2>1. PICK line, given : line = ctx.args /\ given = Reading(cmdline)
    OBVIOUS
  <2>2. PICK old : old = ctx.data
    OBVIOUS
  <2>3. Once(line, given) /\ Filled(old, given) /\ given \in Said
    BY <1>2, <2>1, <2>2 DEF LineInv
  <2>4. PICK set : set = [old EXCEPT !.iocharset = IF @ = None THEN "UTF8" ELSE @]
    OBVIOUS
  <2>5. PICK data : data = CacheDefaults(set)
    OBVIOUS
  <2>6. set = [f \in Fields |-> set[f]]
        /\ \A f \in Fields \ {"iocharset"} : set[f] = old[f]
    BY <2>3, <2>4 DEF Filled
  <2>7. data = [f \in Fields |-> data[f]]
        /\ \A f \in Fields \ CacheFields : data[f] = set[f]
    BY <2>5, <2>6 DEF CacheDefaults, CacheFields
  <2>8. \A f \in CacheFields : data[f] = CacheDefaults(Defaults)[f]
    <3>1. /\ data.on = "1" /\ data.stat_timeout = "10" /\ data.dir_timeout = "10"
          /\ data.link_timeout = "10"
      BY <2>5, <2>6 DEF CacheDefaults, Fields, CacheFields
    <3>2. PICK def : def = CacheDefaults(Defaults)
      OBVIOUS
    <3>3. /\ def.on = "1" /\ def.stat_timeout = "10" /\ def.dir_timeout = "10"
          /\ def.link_timeout = "10"
      BY <3>2 DEF CacheDefaults, Defaults
    <3> QED BY <3>1, <3>2, <3>3 DEF CacheFields
  <2>9. \A f \in FtpfsFields \union {"verbose", "host"} : data[f] = old[f]
    BY <2>6, <2>7 DEF Fields, FtpfsFields, CacheFields
  <2>10. ctx' = Context(line, "cache", data)
    BY <1>2, <2>1, <2>2, <2>4, <2>5
  <2>11. FieldsOf(Context(line, "cache", data)) = CacheFields
    BY DEF Context, FieldsOf
  <2>12. Parsed(Context(line, "cache", data), line)
    <3>1. LineOK(line)
      BY <2>3 DEF Once
    <3> QED BY <2>7, <2>8, <2>11, <3>1, ParseBegins
  <2>13. ctx'.pass = "cache" /\ ctx'.args = line /\ ctx'.data = data
    BY <2>10 DEF Context
  <2>14. data.verbose = old.verbose /\ data.host = old.host
    BY <2>9
  <2>15. Filled(data, given)
    BY <2>3, <2>7, <2>9, <2>14 DEF Filled
  <2>16. data.host # NoWord
    BY <1>2, <2>2, <2>14
  <2>17. Reading(cmdline') = given
    BY <1>2, <2>1
  <2>18. Parsed(ctx', line)
    BY <2>10, <2>12
  <2> QED BY <1>2, <2>3, <2>13, <2>15, <2>16, <2>17, <2>18 DEF LineInv
<1> QED BY <1>1, <1>2 DEF InitEasy, Exit, opts

\* The second pass ends.
LEMMA LineSecond ==
  ASSUME LineInv, ParseEnds("cache", "user")
  PROVE  LineInv'
<1>1. /\ phase = "cache" /\ phase' = "user" /\ cmdline' = cmdline /\ ctx.res = "ok"
      /\ ctx.list = <<>> /\ ctx.argctr > Len(ctx.args)
      /\ ctx' = [ctx EXCEPT !.args = Left(ctx)]
  BY DEF ParseEnds
<1>2. PICK line, given : line = ctx.args /\ given = Reading(cmdline)
  OBVIOUS
<1>3. /\ ctx.pass = "cache" /\ Parsed(ctx, line) /\ given \in Said
      /\ Once(line, given) /\ Filled(ctx.data, given) /\ ctx.data.host # NoWord
  BY <1>1, <1>2 DEF LineInv
<1>4. PICK mid : mid = Reading(line)
  OBVIOUS
<1>5. PICK left : left = Left(ctx)
  OBVIOUS
<1>6. /\ IsContext(ctx)
      /\ mid \in Said /\ DataOK(ctx, mid.all, mid.listed)
      /\ Reading(left).listed = Others(mid.listed, Known(ctx))
      /\ Reading(left).single = Others(mid.single, Known(ctx))
      /\ Reading(left).words =
           IF ctx.pass = "cache" \/ mid.words = <<>> THEN mid.words
           ELSE Tail(mid.words)
  BY <1>1, <1>3, <1>4, <1>5, LineDone
<1>7. ctx'.args = left /\ ctx'.data = ctx.data
  BY <1>1, <1>5, <1>6 DEF IsContext
<1>8. Known(ctx) = InCache /\ FieldsOf(ctx) = CacheFields
  BY <1>3 DEF Known, Table, InCache, FieldsOf
<1>9. given.words # <<>> /\ ctx.data.host = HostOf(given.words[1])
  BY <1>3 DEF Filled
<1>10. /\ mid.listed = Others(given.listed, Ftpfs) /\ mid.single = Others(given.single, Ftpfs)
       /\ mid.words = Tail(given.words)
       /\ \A f \in CacheFields : Setting(mid.all, f) = Setting(given.all, f)
  BY <1>3, <1>4, <1>9 DEF Once
<1>11. /\ Reading(left).listed = Others(given.listed, AllTemplates)
       /\ Reading(left).single = Others(given.single, AllTemplates)
       /\ Reading(left).words = Tail(given.words)
  <2>1. PICK s \in Seq(Option) : s = given.listed
    BY <1>3 DEF Said
  <2>2. PICK t \in Seq(Option) : t = given.single
    BY <1>3 DEF Said
  <2>3. AllTemplates = Ftpfs \union InCache
    BY DEF AllTemplates, Ftpfs, InCache
  <2>4. Others(Others(s, Ftpfs), InCache) = Others(s, AllTemplates)
    BY <2>3, OthersTwice
  <2>5. Others(Others(t, Ftpfs), InCache) = Others(t, AllTemplates)
    BY <2>3, OthersTwice
  <2> QED BY <1>3, <1>6, <1>8, <1>10, <2>1, <2>2, <2>4, <2>5
<1>12. \A f \in CacheFields : ctx.data[f] = Setting(given.all, f)
  BY <1>6, <1>8, <1>10 DEF DataOK
<1>13. \A f \in FtpfsFields \union CacheFields : ctx.data[f] = Setting(given.all, f)
  BY <1>3, <1>12 DEF Filled
<1>14. ctx.data.verbose = "1" <=> HasVerbose(given.all)
  BY <1>3 DEF Filled
<1>15. Twice(left, ctx.data, given)
  BY <1>9, <1>11, <1>13, <1>14 DEF Twice
<1>16. Reading(cmdline') = given
  BY <1>1, <1>2
<1> QED BY <1>1, <1>3, <1>7, <1>15, <1>16 DEF LineInv

\* Every step of the program keeps the reading of the command line right.
LEMMA LineStep ==
  ASSUME LineInv, [MountNext]_mountVars
  PROVE  LineInv'
<1>1. CASE ParseOne \/ ParseOption
  BY <1>1, LineParse
<1>2. CASE ParseEnds("parse", "host")
  BY <1>2, LineFirst
<1>3. CASE InitEasy
  BY <1>3, LineAgain
<1>4. CASE ParseEnds("cache", "user")
  BY <1>4, LineSecond
<1>5. CASE phase' \notin {"parse", "host", "cache", "user"}
  BY <1>5 DEF LineInv
<1>6. CASE UNCHANGED mainVars
  BY <1>6 DEF mainVars, LineInv
<1>7. ParseFails \/ prompt_passwd("user", "proxy_user")
        \/ prompt_passwd("proxy_user", "symlinks") \/ SymlinkPrefix \/ Connect \/ InitMulti
        \/ FuseMain \/ Unmount \/ Shutdown
        => phase' \notin {"parse", "host", "cache", "user"}
  BY DEF ParseFails, prompt_passwd, SymlinkPrefix, Connect, InitMulti, FuseMain,
     Unmount,
         Shutdown, Continue, Exit
<1>8. Serving \/ Over \/ UNCHANGED mountVars => UNCHANGED mainVars
  BY DEF Serving, Over, mountVars
<1> QED BY <1>1, <1>2, <1>3, <1>4, <1>5, <1>6, <1>7, <1>8 DEF MountNext, StartUp

\* At every point of the two passes, what has been read of the command line is in
\* the structures or in the new argv.
THEOREM LineInvariant == MountSpec => []LineInv
<1>1. MountInit => LineInv
  BY LineInit
<1>2. LineInv /\ [MountNext]_mountVars => LineInv'
  BY LineStep
<1> QED BY <1>1, <1>2, PTL DEF MountSpec

-----------------------------------------------------------------------------
(* The tables and the manual page.                                         *)

\* The entries of SettingsTaken.
KnownEntries == (Manual \ {DebugAlone}) \union {DebugLevel}

\* A template read as an entry of the manual page.
EntryOf(t) == Entry(t.name, t.conv # None, t.field, t.value)

\* What an entry gives its setting.
ByEntry(e, o) == IF e.value = None THEN o.param ELSE e.value

\* The settings are the fields of the two passes.
LEMMA UnsetFields ==
  /\ DOMAIN Unset = FtpfsFields \union CacheFields
  /\ \A f \in DOMAIN Unset : Unset[f] = CacheDefaults(Defaults)[f]
<1>1. DOMAIN Unset = FtpfsFields \union CacheFields
  BY DEF Unset, FtpfsFields, CacheFields
<1>2. PICK d : d = CacheDefaults(Defaults)
  OBVIOUS
<1>3. /\ d.debug = "0" /\ d.transform_symlinks = "0" /\ d.disable_epsv = "1"
      /\ d.user = None /\ d.proxy_user = None
  BY <1>2 DEF CacheDefaults, Defaults
<1>4. d.on = "1" /\ d.stat_timeout = "10" /\ d.dir_timeout = "10" /\ d.link_timeout = "10"
  BY <1>2 DEF CacheDefaults, Defaults
<1>5. ASSUME NEW f \in FtpfsFields PROVE Unset[f] = d[f]
  BY <1>3 DEF Unset, FtpfsFields
<1>6. ASSUME NEW f \in CacheFields PROVE Unset[f] = d[f]
  BY <1>4 DEF Unset, CacheFields
<1> QED BY <1>1, <1>2, <1>5, <1>6

\* The entries, one by one.
FtpfsEntries ==
  { Entry("ftpfs_debug", TRUE, "debug", None),
    Entry("transform_symlinks", FALSE, "transform_symlinks", "1"),
    Entry("disable_epsv", FALSE, "disable_epsv", "1"),
    Entry("enable_epsv", FALSE, "disable_epsv", "0"),
    Entry("user", TRUE, "user", None),
    Entry("proxy_user", TRUE, "proxy_user", None) }

CacheEntries ==
  { Entry("cache=yes", FALSE, "on", "1"),
    Entry("cache=no", FALSE, "on", "0"),
    Entry("cache_timeout", TRUE, "stat_timeout", None),
    Entry("cache_timeout", TRUE, "dir_timeout", None),
    Entry("cache_timeout", TRUE, "link_timeout", None),
    Entry("cache_stat_timeout", TRUE, "stat_timeout", None),
    Entry("cache_dir_timeout", TRUE, "dir_timeout", None),
    Entry("cache_link_timeout", TRUE, "link_timeout", None) }

LEMMA KnownTable == KnownEntries = FtpfsEntries \union CacheEntries
<1>1. {Entry("cache_timeout", TRUE, timeout, None) :
         timeout \in {"stat_timeout", "dir_timeout", "link_timeout"}} =
      { Entry("cache_timeout", TRUE, "stat_timeout", None),
        Entry("cache_timeout", TRUE, "dir_timeout", None),
        Entry("cache_timeout", TRUE, "link_timeout", None) }
  OBVIOUS
<1>2. Manual \union {DebugLevel} = FtpfsEntries \union CacheEntries \union {DebugAlone}
  BY <1>1, Zenon DEF Manual, DebugLevel, FtpfsEntries, CacheEntries
<1>3. /\ \A e \in FtpfsEntries : e.name = "ftpfs_debug" => e.takes = TRUE
      /\ \A e \in CacheEntries : e.name # "ftpfs_debug"
  BY DEF FtpfsEntries, CacheEntries, Entry
<1>4. DebugAlone.name = "ftpfs_debug" /\ DebugAlone.takes = FALSE
  BY DEF DebugAlone, Entry
<1>5. DebugLevel # DebugAlone
  BY DEF DebugLevel, DebugAlone, Entry
<1>6. DebugAlone \notin FtpfsEntries \union CacheEntries
  BY <1>3, <1>4
<1> QED BY <1>2, <1>5, <1>6 DEF KnownEntries

\* What a template is as an entry, with a parameter and without.
LEMMA EntryOfTemplate ==
  /\ \A name, field, value :
       EntryOf(Template(name, None, field, value)) = Entry(name, FALSE, field, value)
  /\ \A name, field, value, conv : conv = "u" \/ conv = "s" =>
       EntryOf(Template(name, conv, field, value)) = Entry(name, TRUE, field, value)
<1>1. ASSUME NEW name, NEW conv, NEW field, NEW value
      PROVE  /\ conv = None => EntryOf(Template(name, conv, field, value)) =
                                 Entry(name, FALSE, field, value)
             /\ conv # None => EntryOf(Template(name, conv, field, value)) =
                                 Entry(name, TRUE, field, value)
  <2>1. EntryOf(Template(name, conv, field, value)) = Entry(name, conv # None, field, value)
    BY DEF EntryOf, Template
  <2>2. CASE conv = None
    <3>1. (conv # None) = FALSE
      BY <2>2
    <3> QED BY <2>1, <2>2, <3>1, Zenon
  <2>3. CASE conv # None
    <3>1. (conv # None) = TRUE
      BY <2>3
    <3> QED BY <2>1, <2>3, <3>1, Zenon
  <2> QED BY <2>2, <2>3
<1>2. "u" # None /\ "s" # None
  BY DEF None
<1> QED BY <1>1, <1>2

\* The templates of the first table as entries.
LEMMA FtpfsDocumented ==
  /\ \A t \in Ftpfs : t.field \in FtpfsFields \union CacheFields => EntryOf(t) \in FtpfsEntries
  /\ \A e \in FtpfsEntries : \E t \in Ftpfs : e = EntryOf(t)
<1>1. /\ EntryOf(Template("ftpfs_debug", "u", "debug", None)) =
           Entry("ftpfs_debug", TRUE, "debug", None)
      /\ EntryOf(Template("transform_symlinks", None, "transform_symlinks", "1")) =
           Entry("transform_symlinks", FALSE, "transform_symlinks", "1")
      /\ EntryOf(Template("disable_epsv", None, "disable_epsv", "1")) =
           Entry("disable_epsv", FALSE, "disable_epsv", "1")
      /\ EntryOf(Template("enable_epsv", None, "disable_epsv", "0")) =
           Entry("enable_epsv", FALSE, "disable_epsv", "0")
      /\ EntryOf(Template("user", "s", "user", None)) = Entry("user", TRUE, "user", None)
      /\ EntryOf(Template("proxy_user", "s", "proxy_user", None)) =
           Entry("proxy_user", TRUE, "proxy_user", None)
  BY EntryOfTemplate
<1>2. /\ Template("iocharset", "s", "iocharset", None).field = "iocharset"
      /\ Template("-h", None, "key", "help").field = "key"
      /\ Template("-v", None, "key", "verbose").field = "key"
      /\ Template("-V", None, "key", "version").field = "key"
  BY DEF Template
<1>3. "iocharset" \notin FtpfsFields \union CacheFields /\ "key" \notin FtpfsFields \union CacheFields
  BY DEF FtpfsFields, CacheFields
<1>4. ASSUME NEW t \in Ftpfs, t.field \in FtpfsFields \union CacheFields
      PROVE  EntryOf(t) \in FtpfsEntries
  BY <1>1, <1>2, <1>3, <1>4, FtpfsTable DEF FtpfsEntries
<1>5. ASSUME NEW e \in FtpfsEntries PROVE \E t \in Ftpfs : e = EntryOf(t)
  BY <1>1, FtpfsTable, Zenon DEF FtpfsEntries
<1> QED BY <1>4, <1>5

\* The templates of the second table as entries.
LEMMA CacheDocumented ==
  /\ \A t \in InCache : EntryOf(t) \in CacheEntries
  /\ \A e \in CacheEntries : \E t \in InCache : e = EntryOf(t)
<1>1. /\ EntryOf(Template("cache=yes", None, "on", "1")) = Entry("cache=yes", FALSE, "on", "1")
      /\ EntryOf(Template("cache=no", None, "on", "0")) = Entry("cache=no", FALSE, "on", "0")
      /\ \A f : EntryOf(Template("cache_timeout", "u", f, None)) =
                  Entry("cache_timeout", TRUE, f, None)
      /\ EntryOf(Template("cache_stat_timeout", "u", "stat_timeout", None)) =
           Entry("cache_stat_timeout", TRUE, "stat_timeout", None)
      /\ EntryOf(Template("cache_dir_timeout", "u", "dir_timeout", None)) =
           Entry("cache_dir_timeout", TRUE, "dir_timeout", None)
      /\ EntryOf(Template("cache_link_timeout", "u", "link_timeout", None)) =
           Entry("cache_link_timeout", TRUE, "link_timeout", None)
  BY EntryOfTemplate
<1>2. ASSUME NEW t \in InCache PROVE EntryOf(t) \in CacheEntries
  BY <1>1, CacheTable, Zenon DEF CacheEntries
<1>3. ASSUME NEW e \in CacheEntries PROVE \E t \in InCache : e = EntryOf(t)
  BY <1>1, CacheTable, Zenon DEF CacheEntries
<1> QED BY <1>2, <1>3

\* The page has each template that sets a field of the two structures.
LEMMA TemplateDocumented ==
  ASSUME NEW t \in AllTemplates, t.field \in FtpfsFields \union CacheFields
  PROVE  EntryOf(t) \in KnownEntries
BY KnownTable, FtpfsDocumented, CacheDocumented DEF AllTemplates, Ftpfs, InCache

\* Every entry is such a template.
LEMMA DocumentedTemplate ==
  ASSUME NEW e \in KnownEntries
  PROVE  \E t \in AllTemplates : e = EntryOf(t)
BY KnownTable, FtpfsDocumented, CacheDocumented DEF AllTemplates, Ftpfs, InCache

\* A template has a value of its own or takes the parameter.
LEMMA TemplateValue ==
  ASSUME NEW t \in AllTemplates, t.field # "key"
  PROVE  t.value = None <=> t.conv # None
<1>1. CASE t \in Ftpfs
  BY <1>1, FtpfsTable DEF Template, None
<1>2. CASE t \in InCache
  BY <1>2, CacheTable DEF Template, None
<1> QED BY <1>1, <1>2 DEF AllTemplates, Ftpfs, InCache

\* An option has an entry for a setting when a template sets the field, and both
\* give it the same value.
LEMMA EntryGives ==
  ASSUME NEW o, NEW f \in FtpfsFields \union CacheFields
  PROVE  /\ EntriesFor(KnownEntries, o, f) = {} <=> Silent(o, f)
         /\ \A e \in EntriesFor(KnownEntries, o, f) : ByEntry(e, o) = Given(o, f)
<1>1. f \in Fields /\ f # "key"
  BY DEF Fields, FtpfsFields, CacheFields
<1>2. ASSUME NEW t
      PROVE  /\ EntryOf(t).name = t.name /\ EntryOf(t).takes = (t.conv # None)
             /\ EntryOf(t).field = t.field /\ EntryOf(t).value = t.value
  BY DEF EntryOf, Entry
<1>3. ASSUME NEW t \in Matching(o), t.field = f
      PROVE  EntryOf(t) \in EntriesFor(KnownEntries, o, f)
  <2>1. t \in AllTemplates /\ match_template(t, o)
    BY DEF Matching
  <2>2. EntryOf(t) \in KnownEntries
    BY <1>3, <2>1, TemplateDocumented
  <2> QED BY <1>2, <1>3, <2>1, <2>2 DEF EntriesFor, match_template
<1>4. ASSUME NEW e \in EntriesFor(KnownEntries, o, f)
      PROVE  ~Silent(o, f) /\ ByEntry(e, o) = Given(o, f)
  <2>1. /\ e \in KnownEntries /\ e.name = o.name
        /\ e.takes = (o.param # None) /\ e.field = f
    BY DEF EntriesFor
  <2>2. PICK t \in AllTemplates : e = EntryOf(t)
    BY <2>1, DocumentedTemplate
  <2>3. t.name = o.name /\ (t.conv # None) = (o.param # None) /\ t.field = f /\ e.value = t.value
    BY <1>2, <2>1, <2>2
  <2>4. match_template(t, o)
    BY <2>3 DEF match_template
  <2>5. ~Silent(o, f) /\ Given(o, f) = Val(t, o)
    BY <1>1, <2>3, <2>4, GivenIs
  <2>6. t.value = None <=> t.conv # None
    BY <1>1, <2>3, TemplateValue
  <2>7. Val(t, o) = IF t.conv = None THEN t.value ELSE o.param
    BY <1>1, <2>3 DEF Val
  <2> QED BY <2>3, <2>5, <2>6, <2>7 DEF ByEntry
<1> QED BY <1>3, <1>4 DEF Silent

\* What the options mean by the page is what they say by the tables.
LEMMA MeansSetting ==
  ASSUME NEW options \in Seq(Option), NEW f \in FtpfsFields \union CacheFields
  PROVE  Means(KnownEntries, options, f) = Setting(options, f)
<1> DEFINE E(o) == EntriesFor(KnownEntries, o, f)
           S == {i \in DOMAIN options : E(options[i]) # {}}
           i == LastOf(S)
           e == CHOOSE d \in E(options[i]) : TRUE
<1>1. Means(KnownEntries, options, f) = IF S = {} THEN Unset[f] ELSE ByEntry(e, options[i])
  BY DEF Means, LastOf, ByEntry
<1>2. S = Setters(options, f)
  BY EntryGives DEF Setters, Silent
<1>3. Unset[f] = CacheDefaults(Defaults)[f]
  BY UnsetFields
<1>4. S # {} => i \in S
  <2>1. Len(options) \in Nat /\ S \in SUBSET (1..Len(options))
    OBVIOUS
  <2> HIDE DEF S
  <2> QED BY <2>1, LastFacts
<1>5. CASE S = {}
  BY <1>1, <1>2, <1>3, <1>5, SettingIs
<1>6. CASE S # {}
  <2>1. E(options[i]) # {}
    <3> HIDE DEF i
    <3> QED BY <1>4, <1>6
  <2>2. e \in E(options[i])
    BY <2>1
  <2>3. ByEntry(e, options[i]) = Given(options[i], f)
    <3> HIDE DEF e, i
    <3> QED BY <2>2, EntryGives
  <2> HIDE DEF e, E
  <2> QED BY <1>1, <1>2, <1>6, <2>3, SettingIs
<1> QED BY <1>5, <1>6

\* When the command line has been parsed, every option of the manual page in it has
\* taken effect as the page says (ftpfs_debug with its level), the last of two for
\* the same setting, wherever it was given: alone, in a list or in the argument
\* behind "-o"; and the first word is the host.
THEOREM SettingsAreTaken == MountSpec => []SettingsTaken
<1>1. LineInv => SettingsTaken
  <2> SUFFICES ASSUME LineInv, phase = "user" PROVE SettingsTaken
    BY DEF SettingsTaken
  <2>1. PICK given : given = Reading(cmdline)
    OBVIOUS
  <2>2. Twice(ctx.args, ctx.data, given)
    BY <2>1 DEF LineInv
  <2>3. ASSUME NEW f \in DOMAIN Unset PROVE ctx.data[f] = Means(KnownEntries, given.all, f)
    <3>1. f \in FtpfsFields \union CacheFields
      BY UnsetFields
    <3>2. ctx.data[f] = Setting(given.all, f)
      BY <2>2, <3>1 DEF Twice
    <3>3. given.all \in Seq(Option)
      BY <2>1 DEF LineInv, Said
    <3> QED BY <3>1, <3>2, <3>3, MeansSetting
  <2>4. HasVerbose(given.all) <=> \E i \in DOMAIN given.all :
                                    given.all[i] = [name |-> "-v", param |-> None]
    BY DEF HasVerbose, Verbose
  <2> QED BY <2>1, <2>2, <2>3, <2>4 DEF SettingsTaken, Twice, opts, KnownEntries
<1> QED BY <1>1, LineInvariant, PTL

\* What FUSE reads in the argv it gets are the options that neither table has, in
\* their order, and the words behind the host, even where the lists have been put
\* together or a "--" at the end has been dropped.
THEOREM RestGoesToFuse == MountSpec => []RestToFuse
<1>1. LineInv => RestToFuse
  BY DEF LineInv, RestToFuse, Twice
<1> QED BY <1>1, LineInvariant, PTL

=============================================================================
