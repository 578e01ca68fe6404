--------------------------- MODULE ListingProofs ---------------------------
(***************************************************************************)
(* Whatever characters a path has, the server is asked about the file it   *)
(* names; the year that parse_dir guesses is the right one; and what it    *)
(* reads from a listing is true of the file that it takes it for.          *)
(***************************************************************************)
EXTENDS Listing, PathsProofs

\* The request is one of those assumed.
LEMMA RequestFacts ==
  ASSUME request \in Requests
  PROVE  /\ host \in Seq(Byte) /\ IsPath(path) /\ files \in Seq(File)
         /\ request.eol \in Seq(Byte) /\ request.lost \in Nat /\ today \in Date
         /\ \A k \in DOMAIN files :
              Ordinal(today) - Ordinal(files[k].modified) >= -ClockAhead
<1>1. <<LF>> \in Seq(Byte) /\ <<CR, LF>> \in Seq(Byte)
  BY DEF LF, CR, Byte
<1> QED BY <1>1, RequestsAssumption DEF host, path, files, today

\* What else is assumed.
LEMMA ServerFacts ==
  ASSUME request \in Requests
  PROVE  /\ host # <<>> /\ host[Len(host)] = Slash
         /\ request.op = "getattr" => IsKnown(DirName(path))
         /\ request.op = "getdir"  => IsKnown(Tail(path))
         /\ \A k \in DOMAIN files : files[k].format = "win" => files[k].type = "-"
         /\ \A j, k \in DOMAIN files :
              files[j].dir = files[k].dir /\ files[j].name = files[k].name => j = k
         /\ request.eol \in {<<LF>>, <<CR, LF>>}
BY RequestsAssumption DEF host, path, files

-----------------------------------------------------------------------------
(* The name of the file on its way to the server.                          *)

\* A slash or nothing.
LEMMA SlashUnlessType ==
  ASSUME NEW empty
  PROVE  SlashUnless(empty) \in Seq(Byte)
<1>1. <<Slash>> \in Seq(Byte) /\ <<>> \in Seq(Byte)
  BY DEF Slash, Byte
<1> QED BY <1>1 DEF SlashUnless

\* A string of bytes after another.
LEMMA ConcatType ==
  ASSUME NEW a \in Seq(Byte), NEW b \in Seq(Byte)
  PROVE  a \o b \in Seq(Byte)
BY ConcatProperties

\* What the server makes of the three kinds of URL.
LEMMA UrlsDecoded ==
  ASSUME request \in Requests
  PROVE  /\ Unescaped(get_full_path(host, path)) = host \o Server(Tail(path))
         /\ Unescaped(get_fulldir_path(host, path))
              = host \o Server(Tail(path)) \o SlashUnless(Tail(path) = <<>>)
         /\ Unescaped(get_dir_path(host, path))
              = host \o Server(DirName(path)) \o SlashUnless(DirName(path) = <<>>)
<1> DEFINE t == Server(Tail(path))
           d == Server(DirName(path))
           u == SlashUnless(Tail(path) = <<>>)
           v == SlashUnless(DirName(path) = <<>>)
           h == host
<1>1. h \in Seq(Byte)
  BY RequestFacts
<1>2. t \in Seq(Byte) /\ d \in Seq(Byte)
  BY RequestFacts, PathSplit, ServerType
<1>3. u \in Seq(Byte) /\ v \in Seq(Byte)
  BY SlashUnlessType
<1>4. /\ get_full_path(host, path) = url_encode(h \o t)
      /\ get_fulldir_path(host, path) = url_encode(h \o t \o u)
      /\ get_dir_path(host, path) = url_encode(h \o d \o v)
  BY DEF get_full_path, get_fulldir_path, get_dir_path
<1> HIDE DEF t, d, u, v, h
<1>5. h \o t \in Seq(Byte) /\ h \o d \in Seq(Byte)
  BY <1>1, <1>2, ConcatType
<1>6. h \o t \o u \in Seq(Byte) /\ h \o d \o v \in Seq(Byte)
  BY <1>3, <1>5, ConcatType
<1>7. /\ Unescaped(url_encode(h \o t)) = h \o t
      /\ Unescaped(url_encode(h \o t \o u)) = h \o t \o u
      /\ Unescaped(url_encode(h \o d \o v)) = h \o d \o v
  BY <1>5, <1>6, RoundTrip
<1> QED BY <1>4, <1>7 DEF t, d, u, v, h

\* A command names the file when the name needs no encoding: after its
\* directory comes the name.
LEMMA CommandNames ==
  ASSUME request \in Requests, IsPlain(Server(FileName(path)))
  PROVE  Unescaped(get_dir_path(host, path)) \o get_file_name(path)
           = host \o Server(Tail(path))
<1> DEFINE n == Server(FileName(path))
           d == Server(DirName(path))
           v == SlashUnless(DirName(path) = <<>>)
           h == host
<1>1. h \in Seq(Byte) /\ IsPath(path)
  BY RequestFacts
<1>2. n \in Seq(Byte) /\ d \in Seq(Byte)
  BY <1>1, PathSplit, ServerType
<1>3. v \in Seq(Byte)
  BY SlashUnlessType
<1>4. get_file_name(path) = n
  BY <1>2, PlainEncoding DEF get_file_name, IsPlain
<1>5. Server(Tail(path)) = d \o v \o n
  BY <1>1, PathSplit
<1>6. Unescaped(get_dir_path(host, path)) = h \o d \o v
  BY UrlsDecoded
<1> HIDE DEF n, d, v, h
<1>7. d \o v \in Seq(Byte)
  BY <1>2, <1>3, ConcatType
<1>8. (h \o d) \o v = h \o (d \o v)
  BY <1>1, <1>2, <1>3, Associative, ZenonT(60)
<1>9. (h \o (d \o v)) \o n = h \o ((d \o v) \o n)
  BY <1>1, <1>2, <1>7, Associative, ZenonT(60)
<1> QED BY <1>4, <1>5, <1>6, <1>8, <1>9 DEF h

\* The request does not change; once it is sent, what it reached is right.
ReachInv == request \in Requests /\ ReachesFile

\* Sending is the only step that matters: what follows changes neither side.
LEMMA ReachStep ==
  ASSUME ReachInv, [Next]_vars
  PROVE  ReachInv'
<1>1. request' = request /\ request \in Requests
  BY DEF ReachInv, Next, vars, SendList, SendOpen, SendCommand, SendRename, NextLine,
         Finish, Done
<1>2. host' = host /\ path' = path
  BY <1>1 DEF host, path
<1>3. CASE SendList
  <2>1. request.op \in {"getattr", "getdir"}
    BY <1>3 DEF SendList
  <2>2. CASE request.op = "getattr"
    <3>1. reached' = Unescaped(get_dir_path(host, path))
      BY <1>3, <2>2 DEF SendList
    <3>2. reached' = host \o Server(DirName(path)) \o SlashUnless(DirName(path) = <<>>)
      BY <1>1, <3>1, UrlsDecoded
    <3> QED BY <1>1, <1>2, <2>2, <3>2 DEF ReachInv, ReachesFile
  <2>3. CASE request.op = "getdir"
    <3>1. reached' = Unescaped(get_fulldir_path(host, path))
      BY <1>3, <2>3 DEF SendList
    <3>2. reached' = host \o Server(Tail(path)) \o SlashUnless(Tail(path) = <<>>)
      BY <1>1, <3>1, UrlsDecoded
    <3> QED BY <1>1, <1>2, <2>3, <3>2 DEF ReachInv, ReachesFile
  <2> QED BY <2>1, <2>2, <2>3
<1>4. CASE SendOpen
  <2>1. request.op = "open" /\ reached' = Unescaped(get_full_path(host, path))
    BY <1>4 DEF SendOpen
  <2>2. reached' = host \o Server(Tail(path))
    BY <1>1, <2>1, UrlsDecoded
  <2> QED BY <1>1, <1>2, <2>1, <2>2 DEF ReachInv, ReachesFile
<1>5. CASE SendCommand
  <2>1. /\ request.op = "command"
        /\ reached' = Unescaped(get_dir_path(host, path)) \o get_file_name(path)
    BY <1>5 DEF SendCommand
  <2>2. reached' = host \o Server(Tail(path)) \/ ~IsPlain(Server(FileName(path)))
    BY <1>1, <2>1, CommandNames
  <2> QED BY <1>1, <1>2, <2>1, <2>2 DEF ReachInv, ReachesFile
<1>6. CASE SendRename
  <2>1. request.op = "rename" /\ reached' = host \o Server(Tail(path))
    BY <1>6 DEF SendRename
  <2> QED BY <1>1, <1>2, <2>1 DEF ReachInv, ReachesFile
<1>7. CASE NextLine \/ Finish \/ Done \/ UNCHANGED vars
  <2>1. pc # "send" \/ pc' = "send"
    BY <1>7 DEF NextLine, Finish, Done, vars
  <2>2. reached' = reached
    BY <1>7 DEF NextLine, Finish, Done, vars
  <2> QED BY <1>1, <1>2, <2>1, <2>2 DEF ReachInv, ReachesFile
<1> QED BY <1>3, <1>4, <1>5, <1>6, <1>7 DEF Next

\* For every path and option codepage, and every host whose name needs no encoding,
\* the server is asked about the file, or the directory, that the path names.
THEOREM RequestsReachFile == Spec => []ReachesFile
<1>1. Init => ReachInv
  BY DEF Init, ReachInv, ReachesFile
<1>2. ReachInv /\ [Next]_vars => ReachInv'
  BY ReachStep
<1>3. ReachInv => ReachesFile
  BY DEF ReachInv
<1> QED BY <1>1, <1>2, <1>3, PTL DEF Spec

-----------------------------------------------------------------------------
(* The year of a date that has none.                                       *)

\* A month begins about 30 days after the one before.
LEMMA MonthBegins ==
  ASSUME NEW m \in 1..12
  PROVE  /\ CumulativeDays[m] \in Int
         /\ 30 * m - 31 <= CumulativeDays[m] /\ CumulativeDays[m] <= 30 * m - 26
<1>1. \/ m = 1 \/ m = 2 \/ m = 3 \/ m = 4 \/ m = 5 \/ m = 6
      \/ m = 7 \/ m = 8 \/ m = 9 \/ m = 10 \/ m = 11 \/ m = 12
  OBVIOUS
<1> QED BY <1>1 DEF CumulativeDays

\* The number n of a day d in month m of year y, to a few days; q leap years
\* came before it.
Numbers(y, m, d, q, n) ==
  /\ y \in Nat /\ m \in 1..12 /\ d \in 1..31 /\ q \in Int /\ n \in Int
  /\ 365 * y + q + 30 * m - 31 + d <= n
  /\ n <= 365 * y + q + 30 * m - 25 + d

Numbered(date, y, m, d, q, n) ==
  /\ Numbers(y, m, d, q, n) /\ q = (y + 3) \div 4
  /\ date.y = y /\ date.m = m /\ date.d = d /\ Ordinal(date) = n

\* Every date has such a number.
LEMMA OrdinalBounds ==
  ASSUME NEW date \in Date
  PROVE  \E y, m, d, q, n : Numbered(date, y, m, d, q, n)
<1>1. date.y \in Nat /\ date.m \in 1..12 /\ date.d \in 1..31
  BY DEF Date
<1>2. PICK c \in Int : /\ c = CumulativeDays[date.m]
                       /\ 30 * date.m - 31 <= c /\ c <= 30 * date.m - 26
  BY <1>1, MonthBegins
<1>3. PICK q \in Int : q = (date.y + 3) \div 4
  BY <1>1
<1>4. PICK l \in 0..1 : l = IF IsLeap(date.y) /\ date.m > 2 THEN 1 ELSE 0
  OBVIOUS
<1>5. Ordinal(date) = 365 * date.y + q + c + date.d + l
  <2>1. Ordinal(date) = 365 * date.y + ((date.y + 3) \div 4)
                          + CumulativeDays[date.m] + date.d
                          + IF IsLeap(date.y) /\ date.m > 2 THEN 1 ELSE 0
    BY DEF Ordinal
  <2> QED BY <1>2, <1>3, <1>4, <2>1, Zenon
<1>6. PICK y \in Nat : y = date.y
  BY <1>1
<1>7. PICK m \in 1..12 : m = date.m
  BY <1>1
<1>8. PICK d \in 1..31 : d = date.d
  BY <1>1
<1>9. PICK n \in Int : n = 365 * y + q + c + d + l
  OBVIOUS
<1>10. 365 * y + q + 30 * m - 31 + d <= n /\ n <= 365 * y + q + 30 * m - 25 + d
  BY <1>2, <1>7, <1>9
<1>11. Ordinal(date) = n
  BY <1>5, <1>6, <1>8, <1>9, Zenon
<1>12. Numbered(date, y, m, d, q, n)
  BY <1>3, <1>6, <1>7, <1>8, <1>10, <1>11 DEF Numbered, Numbers
<1> QED BY <1>12

\* The arithmetic of it, for dates of year y, month m and day d, of number n.
LEMMA GuessArithmetic ==
  ASSUME NEW y1, NEW m1, NEW d1, NEW q1, NEW n1, Numbers(y1, m1, d1, q1, n1),
         NEW y2, NEW m2, NEW d2, NEW q2, NEW n2, Numbers(y2, m2, d2, q2, n2),
         y2 <= y1 => q2 <= q1, y2 = y1 => q2 = q1,
         n1 - n2 <= 184, n1 - n2 >= -120
  PROVE  \/ y2 = IF m1 + 5 < m2 THEN y1 - 1 ELSE y1
         \/ y2 < y1 /\ m2 = m1 + 5
         \/ y2 > y1
<1>1. CASE y2 = y1
  BY <1>1 DEF Numbers
<1>2. CASE y2 = y1 - 1
  BY <1>2 DEF Numbers
<1>3. CASE y2 < y1 - 1
  BY <1>3 DEF Numbers
<1> QED BY <1>1, <1>2, <1>3 DEF Numbers

\* A date that is at most six months old, and not months ahead, has the year
\* that is guessed from its month, but for the exceptions of YearRight.
LEMMA GuessRight ==
  ASSUME NEW t \in Date, NEW m \in Date,
         Ordinal(t) - Ordinal(m) <= SixMonths,
         Ordinal(t) - Ordinal(m) >= -ClockAhead
  PROVE  \/ m.y = IF t.m + 5 < m.m THEN t.y - 1 ELSE t.y
         \/ m.y < t.y /\ m.m = t.m + 5
         \/ m.y > t.y
<1>1. PICK y1, m1, d1, q1, n1 : Numbered(t, y1, m1, d1, q1, n1)
  BY OrdinalBounds
<1>2. PICK y2, m2, d2, q2, n2 : Numbered(m, y2, m2, d2, q2, n2)
  BY OrdinalBounds
<1>3. n1 - n2 <= 184 /\ n1 - n2 >= -120
  BY <1>1, <1>2, ListingAssumption DEF ClockAhead, Numbered, Numbers
<1>4. (y2 <= y1 => q2 <= q1) /\ (y2 = y1 => q2 = q1)
  BY <1>1, <1>2 DEF Numbered, Numbers
<1>5. \/ y2 = IF m1 + 5 < m2 THEN y1 - 1 ELSE y1
      \/ y2 < y1 /\ m2 = m1 + 5
      \/ y2 > y1
  BY <1>1, <1>2, <1>3, <1>4, GuessArithmetic DEF Numbered
<1> QED BY <1>1, <1>2, <1>5 DEF Numbered

-----------------------------------------------------------------------------
(* What is in the text of a listing.                                       *)

\* A byte, or what stands before the name of a file.
Mark == Byte \union {-k : k \in DOMAIN files}

\* A string of bytes is one of marks.
LEMMA ByteIsMark ==
  ASSUME NEW s \in Seq(Byte)
  PROVE  s \in Seq(Mark)
BY SeqMonotonic DEF Mark

\* Marks that follow each other.
LEMMA MarksConcat ==
  ASSUME NEW a \in Seq(Mark), NEW b \in Seq(Mark)
  PROVE  a \o b \in Seq(Mark)
BY ConcatProperties

\* A concatenation of strings of marks has marks.
LEMMA FlatType ==
  ASSUME NEW X, NEW S \in Seq(Seq(X))
  PROVE  FlattenSeq(S) \in Seq(X)
<1>1. PICK f \in [0..Len(S) -> Seq(X)] : Flattens(S, f)
  BY FlatFacts
<1>2. Len(S) \in 0..Len(S)
  OBVIOUS
<1> QED BY <1>1, <1>2 DEF Flattens

\* The beginning of a string.
LEMMA PartType ==
  ASSUME NEW X, NEW s \in Seq(X), NEW m \in Int, NEW n \in Int, 1 <= m, n <= Len(s)
  PROVE  SubSeq(s, m, n) \in Seq(X)
<1>1. Len(s) \in Nat /\ \A i \in 1..Len(s) : s[i] \in X
  BY StringFacts
<1>2. \A i \in m..n : s[i] \in X
  BY <1>1
<1> QED BY <1>2, SubSeqProperties

\* What a line shows of a file.
LEMMA ShownType ==
  ASSUME request \in Requests, NEW k \in DOMAIN files
  PROVE  /\ files[k].name \in FileNames /\ files[k].target \in LinkTargets
         /\ files[k].dir \in Seq(Byte)
         /\ files[k].name \in Seq(Byte) /\ files[k].target \in Seq(Byte)
         /\ Marker \in Seq(Byte) /\ Marker \o files[k].target \in Seq(Byte)
         /\ Shown(files[k]) \in Seq(Byte)
<1>1. files[k] \in File
  BY RequestFacts
<1>2. /\ files[k].name \in FileNames /\ files[k].target \in LinkTargets
      /\ files[k].dir \in Seq(Byte)
  BY <1>1 DEF File
<1>3. files[k].name \in Seq(Byte) /\ files[k].target \in Seq(Byte)
  BY <1>2 DEF FileNames, LinkTargets
<1>4. Marker \in Seq(Byte) /\ <<>> \in Seq(Byte)
  BY DEF Marker, Byte
<1>5. Marker \o files[k].target \in Seq(Byte)
  BY <1>3, <1>4, ConcatType
<1>6. PICK l \in Seq(Byte) :
        l = IF files[k].type = "l" THEN Marker \o files[k].target ELSE <<>>
  BY <1>4, <1>5
<1>7. files[k].name \o l \in Seq(Byte)
  BY <1>3, ConcatType
<1> QED BY <1>2, <1>3, <1>4, <1>5, <1>6, <1>7 DEF Shown

\* The line of a file.
LEMMA LineType ==
  ASSUME request \in Requests, NEW k \in DOMAIN files
  PROVE  Line(k) \in Seq(Mark)
<1>1. Shown(files[k]) \in Seq(Byte) /\ request.eol \in Seq(Byte)
  BY ShownType, RequestFacts
<1>2. <<-k>> \in Seq(Mark)
  <2>1. -k \in Mark
    BY DEF Mark
  <2> QED BY <2>1
<1>3. PICK a \in Seq(Mark) : a = Shown(files[k])
  BY <1>1, ByteIsMark
<1>4. PICK b \in Seq(Mark) : b = request.eol
  BY <1>1, ByteIsMark
<1>5. PICK c \in Seq(Mark) : c = <<-k>>
  BY <1>2, Zenon
<1>6. (c \o a) \o b \in Seq(Mark)
  <2>1. c \o a \in Seq(Mark)
    BY MarksConcat
  <2> QED BY <2>1, MarksConcat
<1> QED BY <1>3, <1>4, <1>5, <1>6 DEF Line

\* A listing, whole or cut.
LEMMA ListingType ==
  ASSUME request \in Requests, NEW where
  PROVE  ListingOf(where) \in Seq(Mark)
<1> DEFINE IsIn(k) == host \o files[k].dir \o SlashUnless(files[k].dir = <<>>) = where
           S == [k \in DOMAIN files |-> IF IsIn(k) THEN Line(k) ELSE <<>>]
           lines == FlattenSeq(S)
<1>1. DOMAIN files = 1..Len(files) /\ Len(files) \in Nat
  <2>1. files \in Seq(File)
    BY RequestFacts
  <2> QED BY <2>1, StringFacts
<1>2. S \in Seq(Seq(Mark))
  <2>1. \A k \in DOMAIN files : Line(k) \in Seq(Mark)
    BY LineType
  <2>2. <<>> \in Seq(Mark)
    BY EmptySeq
  <2>3. \A k \in DOMAIN files : S[k] \in Seq(Mark)
    BY <2>1, <2>2
  <2>4. S = [k \in 1..Len(files) |-> S[k]] /\ DOMAIN S = 1..Len(files)
    BY <1>1
  <2> HIDE DEF S
  <2>5. S \in [1..Len(files) -> Seq(Mark)]
    BY <1>1, <2>3, <2>4
  <2> QED BY <1>1, <2>5, SeqDef
<1>3. ListingOf(where) = SubSeq(lines, 1, Len(lines) - request.lost)
  BY DEF ListingOf
<1> HIDE DEF S
<1>4. lines \in Seq(Mark)
  BY <1>2, FlatType
<1> HIDE DEF lines
<1>5. Len(lines) \in Nat
  BY <1>4, StringFacts
<1>6. request.lost \in Nat
  BY RequestFacts
<1>7. PICK n \in Int : n = Len(lines) - request.lost /\ n <= Len(lines)
  BY <1>5, <1>6
<1>8. SubSeq(lines, 1, n) \in Seq(Mark)
  <2>1. 1 \in Int /\ 1 <= 1
    OBVIOUS
  <2> QED BY <1>4, <1>7, <2>1, PartType
<1> QED BY <1>3, <1>7, <1>8

\* The conversion to iocharset keeps what stands before a name.
LEMMA LocalType ==
  ASSUME NEW s \in Seq(Mark), DOMAIN files \subseteq Nat
  PROVE  Local(s) \in Seq(Mark)
<1> DEFINE S == [i \in DOMAIN s |-> IF s[i] > 127 THEN Utf8(s[i]) ELSE <<s[i]>>]
<1>1. ASSUME NEW c \in Mark PROVE Wide(c) \in Seq(Mark)
  <2>1. CASE c > 127
    <3>1. c \in Byte
      BY <2>1 DEF Mark
    <3>2. 192 + (c \div 64) \in Byte /\ 128 + (c % 64) \in Byte
      BY <3>1 DEF Byte
    <3>3. Utf8(c) \in Seq(Byte)
      BY <3>2 DEF Utf8
    <3> QED BY <2>1, <3>3, ByteIsMark DEF Wide
  <2>2. CASE ~(c > 127)
    BY <2>2 DEF Wide
  <2> QED BY <2>1, <2>2
<1>2. DOMAIN s = 1..Len(s) /\ Len(s) \in Nat /\ \A i \in 1..Len(s) : s[i] \in Mark
  BY StringFacts
<1>3. \A i \in 1..Len(s) : S[i] \in Seq(Mark)
  <2>1. \A i \in 1..Len(s) : S[i] = Wide(s[i])
    BY <1>2 DEF Wide
  <2> HIDE DEF S
  <2> QED BY <1>1, <1>2, <2>1
<1>4. S \in Seq(Seq(Mark))
  <2>1. S = [i \in 1..Len(s) |-> S[i]] /\ DOMAIN S = 1..Len(s)
    BY <1>2
  <2> HIDE DEF S
  <2>2. S \in [1..Len(s) -> Seq(Mark)]
    BY <1>3, <2>1
  <2> QED BY <1>2, <2>2, SeqDef
<1>5. ToIocharset(s) = FlattenSeq(S)
  BY DEF ToIocharset
<1> HIDE DEF S
<1>6. ToIocharset(s) \in Seq(Mark)
  BY <1>4, <1>5, FlatType
<1> QED BY <1>6 DEF Local

-----------------------------------------------------------------------------
(* The dates in the cache.                                                 *)

\* The year of a file's line, or one made of its name.
DatedAs(year, f) == year = ListedYear(f) \/ (year = NoYear /\ f.format = "win")

\* What was stored is about a file of the server, with the year that the line
\* of the file leads to.
DatesInv ==
  \A s \in stored :
    s.part = "attr" => s.file \in DOMAIN files /\ DatedAs(s.year, files[s.file])

YearInv ==
  /\ request \in Requests
  /\ list \in Seq(Mark)
  /\ start \in Nat \ {0}
  /\ DatesInv

\* A line ends in the listing, not before it starts.
LEMMA LineEndFacts ==
  ASSUME YearInv, LineFeeds # {}
  PROVE  LineEnd \in Nat \ {0} /\ start <= LineEnd /\ LineEnd <= Len(list)
<1>1. Len(list) \in Nat /\ DOMAIN list = 1..Len(list)
  BY StringFacts DEF YearInv
<1>2. LineFeeds \in SUBSET Nat
  BY <1>1 DEF LineFeeds
<1>3. \E i \in LineFeeds : \A j \in LineFeeds : i <= j
  BY <1>2, NatMin
<1>4. First(LineFeeds) \in LineFeeds
  BY <1>3 DEF First
<1>5. PICK end \in 1..Len(list) : end = First(LineFeeds) /\ end >= start
  BY <1>1, <1>4 DEF LineFeeds
<1>6. LineEnd = IF end > start /\ list[end - 1] = CR THEN end - 1 ELSE end
  BY <1>5 DEF LineEnd
<1>7. start \in Nat \ {0}
  BY DEF YearInv
<1> QED BY <1>1, <1>5, <1>6, <1>7

\* The line that is parsed is that of a file.
LEMMA LineFacts ==
  ASSUME YearInv, LineFeeds # {}, NEW line,
         line = Local(SubSeq(list, start, LineEnd - 1)), IsParsed(line)
  PROVE  -line[1] \in DOMAIN files
<1>1. DOMAIN files \subseteq Nat
  <2>1. files \in Seq(File)
    BY RequestFacts DEF YearInv
  <2> QED BY <2>1, StringFacts
<1>2. SubSeq(list, start, LineEnd - 1) \in Seq(Mark)
  <2>1. /\ start \in Int /\ 1 <= start /\ LineEnd - 1 \in Int
        /\ LineEnd - 1 <= Len(list)
    <3>1. Len(list) \in Nat
      BY StringFacts DEF YearInv
    <3> QED BY <3>1, LineEndFacts DEF YearInv
  <2>2. list \in Seq(Mark)
    BY DEF YearInv
  <2> QED BY <2>1, <2>2, PartType
<1>3. line \in Seq(Mark)
  BY <1>1, <1>2, LocalType
<1>4. line # <<>> /\ line[1] < 0
  BY DEF IsParsed
<1>5. line[1] \in Mark
  <2>1. 1 \in 1..Len(line)
    BY <1>3, <1>4, EmptySeq
  <2> QED BY <1>3, <2>1, StringFacts
<1>6. line[1] \notin Byte
  <2>1. \A c \in Byte : ~(c < 0)
    BY DEF Byte
  <2> QED BY <1>4, <2>1
<1>7. PICK k \in DOMAIN files : line[1] = -k
  BY <1>5, <1>6 DEF Mark
<1>8. k \in Nat
  BY <1>1
<1> QED BY <1>7, <1>8

\* Every step keeps the listing a listing of files, and the dates theirs.
LEMMA YearStep ==
  ASSUME YearInv, [Next]_vars
  PROVE  YearInv'
<1>1. request' = request /\ request \in Requests
  BY DEF YearInv, Next, vars, SendList, SendOpen, SendCommand, SendRename, NextLine,
         Finish, Done
<1>2. files' = files /\ today' = today /\ Mark' = Mark
  BY <1>1 DEF files, today, Mark
<1>3. \A y, f : DatedAs(y, f)' <=> DatedAs(y, f)
  BY <1>1 DEF DatedAs, ListedYear, ListedWithTime, Age, GuessedYear, today
<1>4. CASE SendList
  <2>1. /\ start' = start /\ stored' = stored
        /\ \E where : list' = ListingOf(where)
    BY <1>4 DEF SendList
  <2>2. list' \in Seq(Mark)
    BY <1>1, <2>1, ListingType
  <2> QED BY <1>1, <1>2, <1>3, <2>1, <2>2 DEF YearInv, DatesInv
<1>5. CASE NextLine
  <2> DEFINE line == Local(SubSeq(list, start, LineEnd - 1))
             name == ParsedName(line)
             k == -line[1]
  <2>1. /\ LineFeeds # {} /\ list' = list
        /\ start' = IF list[LineEnd] = CR THEN LineEnd + 2 ELSE LineEnd + 1
    BY <1>5 DEF NextLine
  <2>2. start' \in Nat \ {0}
    BY <2>1, LineEndFacts
  <2>3. \/ stored' = stored
        \/ /\ IsParsed(line)
           /\ stored' = stored \union Link(name, k, ParsedLink(line))
                               \union {Attr(name, k, ParsedYear(line))}
    BY <1>5 DEF NextLine
  <2>4. IsParsed(line) => k \in DOMAIN files
    BY <2>1, LineFacts
  <2> HIDE DEF line, name, k
  <2>5. ASSUME NEW s \in stored', s.part = "attr"
        PROVE  s.file \in DOMAIN files /\ DatedAs(s.year, files[s.file])
    <3>1. CASE s \in stored
      BY <2>5, <3>1 DEF YearInv, DatesInv
    <3>2. CASE s \notin stored
      <4>1. /\ IsParsed(line)
            /\ \/ s \in Link(name, k, ParsedLink(line))
               \/ s = Attr(name, k, ParsedYear(line))
        BY <2>3, <3>2
      <4>2. s \notin Link(name, k, ParsedLink(line))
        BY <2>5 DEF Link
      <4>3. s.file = k /\ s.year = ParsedYear(line)
        BY <4>1, <4>2 DEF Attr
      <4>4. DatedAs(ParsedYear(line), files[k])
        BY DEF ParsedYear, DatedAs, k
      <4> QED BY <2>4, <4>1, <4>3, <4>4
    <3> QED BY <3>1, <3>2
  <2>6. DatesInv'
    BY <1>2, <1>3, <2>5 DEF DatesInv
  <2> QED BY <1>1, <1>2, <2>1, <2>2, <2>6 DEF YearInv
<1>6. CASE SendOpen \/ SendCommand \/ SendRename \/ Finish \/ Done \/ UNCHANGED vars
  <2>1. list' = list /\ start' = start /\ stored' = stored
    BY <1>6 DEF SendOpen, SendCommand, SendRename, Finish, Done, vars
  <2> QED BY <1>1, <1>2, <1>3, <2>1 DEF YearInv, DatesInv
<1> QED BY <1>4, <1>5, <1>6 DEF Next

\* For every pair of dates, the year that is guessed is the right one, but for
\* the exceptions that YearRight names.
THEOREM YearsRight == Spec => []YearRight
<1>1. Init => YearInv
  <2> SUFFICES ASSUME Init PROVE YearInv
    OBVIOUS
  <2>1. list \in Seq(Mark)
    BY EmptySeq DEF Init
  <2> QED BY <2>1 DEF Init, YearInv, DatesInv
<1>2. YearInv /\ [Next]_vars => YearInv'
  BY YearStep
<1>3. YearInv => YearRight
  <2> SUFFICES ASSUME YearInv, NEW s \in stored, s.part = "attr"
               PROVE  \/ s.year = files[s.file].modified.y
                      \/ /\ files[s.file].modified.y < today.y
                         /\ files[s.file].modified.m = today.m + 5
                      \/ files[s.file].modified.y > today.y
                      \/ s.year = NoYear /\ files[s.file].format = "win"
    BY DEF YearRight
  <2>1. s.file \in DOMAIN files /\ DatedAs(s.year, files[s.file])
    BY DEF YearInv, DatesInv
  <2> DEFINE f == files[s.file]
             m == f.modified
  <2>2. f \in File /\ today \in Date /\ Ordinal(today) - Ordinal(m) >= -ClockAhead
    BY <2>1, RequestFacts DEF YearInv
  <2>3. m \in Date
    BY <2>2 DEF File
  <2>6. CASE s.year # ListedYear(f)
    BY <2>1, <2>6 DEF DatedAs
  <2>4. CASE s.year = ListedYear(f) /\ ~ListedWithTime(f)
    BY <2>4 DEF ListedYear
  <2>5. CASE s.year = ListedYear(f) /\ ListedWithTime(f)
    <3>1. Ordinal(today) - Ordinal(m) <= SixMonths
      BY <2>5 DEF ListedWithTime, Age
    <3>2. s.year = IF today.m + 5 < m.m THEN today.y - 1 ELSE today.y
      BY <2>5 DEF ListedYear, GuessedYear
    <3>3. \/ m.y = IF today.m + 5 < m.m THEN today.y - 1 ELSE today.y
          \/ m.y < today.y /\ m.m = today.m + 5
          \/ m.y > today.y
      <4> HIDE DEF m
      <4> QED BY <2>2, <2>3, <3>1, GuessRight
    <3> QED BY <3>2, <3>3
  <2> QED BY <2>4, <2>5, <2>6
<1> QED BY <1>1, <1>2, <1>3, PTL DEF Spec

-----------------------------------------------------------------------------
(* The name on a line.                                                     *)

\* The smallest of a set of numbers is found.
LEMMA FirstFacts ==
  ASSUME NEW S \in SUBSET Nat, S # {}
  PROVE  First(S) \in S /\ \A j \in S : First(S) <= j
<1>1. \E i \in S : \A j \in S : i <= j
  BY NatMin
<1> QED BY <1>1 DEF First

\* It is the number that is smaller than no other.
LEMMA FirstIs ==
  ASSUME NEW S \in SUBSET Nat, NEW i \in S, \A j \in S : ~(j < i)
  PROVE  First(S) = i
<1>1. First(S) \in S /\ First(S) <= i
  BY FirstFacts
<1>2. First(S) \in Nat /\ i \in Nat /\ ~(First(S) < i)
  BY <1>1
<1> QED BY <1>1, <1>2

\* A part of a string.
LEMMA PartFacts ==
  ASSUME NEW X, NEW s \in Seq(X), NEW k \in Nat, NEW l \in Nat, k + l <= Len(s)
  PROVE  /\ SubSeq(s, k + 1, k + l) \in Seq(X) /\ Len(SubSeq(s, k + 1, k + l)) = l
         /\ \A j \in 1..l : SubSeq(s, k + 1, k + l)[j] = s[k + j]
<1>1. PICK n \in Nat : n = Len(s) /\ \A j \in 1..n : s[j] \in X
  BY StringFacts
<1>2. PICK x \in Int : x = k + 1
  OBVIOUS
<1>3. PICK y \in Int : y = k + l
  OBVIOUS
<1>4. ASSUME NEW j \in x..y PROVE s[j] \in X
  <2>1. j \in 1..n
    BY <1>1, <1>2, <1>3
  <2> QED BY <1>1, <2>1
<1>5. /\ SubSeq(s, x, y) \in Seq(X)
      /\ Len(SubSeq(s, x, y)) = IF x <= y THEN y - x + 1 ELSE 0
      /\ \A j \in 1..(y - x + 1) : SubSeq(s, x, y)[j] = s[x + j - 1]
  BY <1>4, SubSeqProperties
<1>6. y - x + 1 = l /\ (IF x <= y THEN y - x + 1 ELSE 0) = l
  BY <1>2, <1>3
<1>7. ASSUME NEW j \in 1..l PROVE SubSeq(s, x, y)[j] = s[k + j]
  <2>1. x + j - 1 = k + j
    BY <1>2
  <2> QED BY <1>5, <1>6, <2>1
<1> QED BY <1>2, <1>3, <1>5, <1>6, <1>7

\* What three strings hold when they follow each other.
LEMMA ThreeParts ==
  ASSUME NEW X, NEW a \in Seq(X), NEW m \in Seq(X), NEW b \in Seq(X),
         NEW s, s = a \o (m \o b)
  PROVE  /\ s \in Seq(X) /\ Len(a) \in Nat /\ Len(m) \in Nat /\ Len(b) \in Nat
         /\ Len(s) = Len(a) + Len(m) + Len(b)
         /\ \A j \in 1..Len(a) : s[j] = a[j]
         /\ \A j \in 1..Len(m) : s[Len(a) + j] = m[j]
         /\ \A j \in 1..Len(b) : s[Len(a) + Len(m) + j] = b[j]
<1>1. PICK q : q = m \o b
  OBVIOUS
<1>2. PICK k \in Nat : k = Len(a)
  BY StringFacts
<1>3. PICK l \in Nat : l = Len(m)
  BY StringFacts
<1>4. PICK n \in Nat : n = Len(b)
  BY StringFacts
<1>5. /\ q \in Seq(X) /\ Len(q) = l + n
      /\ \A j \in 1..l : q[j] = m[j]
      /\ \A j \in 1..n : q[l + j] = b[j]
  BY <1>1, <1>3, <1>4, Concat
<1>6. /\ s \in Seq(X) /\ Len(s) = k + Len(q)
      /\ \A j \in 1..k : s[j] = a[j]
      /\ \A j \in 1..Len(q) : s[k + j] = q[j]
  <2>1. s = a \o q /\ q \in Seq(X)
    BY <1>1, <1>5
  <2>2. /\ s \in Seq(X) /\ Len(s) = Len(a) + Len(q)
        /\ \A j \in 1..Len(a) : s[j] = a[j]
        /\ \A j \in 1..Len(q) : s[Len(a) + j] = q[j]
    BY <2>1, Concat
  <2> QED BY <1>2, <2>2
<1>7. ASSUME NEW j \in 1..l PROVE s[k + j] = m[j]
  <2>1. j \in 1..Len(q)
    BY <1>5
  <2> QED BY <1>5, <1>6, <2>1
<1>8. ASSUME NEW j \in 1..n PROVE s[k + l + j] = b[j]
  <2>1. l + j \in 1..Len(q) /\ k + l + j = k + (l + j)
    BY <1>5
  <2> QED BY <1>5, <1>6, <2>1
<1> QED BY <1>2, <1>3, <1>4, <1>5, <1>6, <1>7, <1>8

\* A string that is in another parts it.
LEMMA PlaceParts ==
  ASSUME NEW s \in Seq(Byte), NEW m \in Seq(Byte), NEW i \in Places(s, m)
  PROVE  Has(s, m)
<1>1. PICK n \in Nat : n = Len(s) /\ \A j \in 1..n : s[j] \in Byte
  BY StringFacts
<1>2. PICK l \in Nat : l = Len(m)
  BY StringFacts
<1>3. i \in 1..(n - l + 1) /\ SubSeq(s, i, i + l - 1) = m
  BY <1>1, <1>2 DEF Places
<1>4. PICK a : a = SubSeq(s, 1, i - 1)
  OBVIOUS
<1>5. PICK b : b = SubSeq(s, i + l, n)
  OBVIOUS
<1>6. a \in Seq(Byte)
  <2>1. 1 \in Int /\ i - 1 \in Int /\ \A j \in 1..(i - 1) : s[j] \in Byte
    BY <1>1, <1>3
  <2> QED BY <1>4, <2>1, SubSeqProperties
<1>7. b \in Seq(Byte)
  <2>1. i + l \in Int /\ n \in Int /\ \A j \in (i + l)..n : s[j] \in Byte
    BY <1>1, <1>3
  <2> QED BY <1>5, <2>1, SubSeqProperties
<1>8. m \o b = SubSeq(s, i, n)
  <2>1. /\ i \in 1..(Len(s) + 1) /\ i + l - 1 \in (i - 1)..Len(s)
        /\ n \in (i + l - 1)..Len(s) /\ (i + l - 1) + 1 = i + l
    BY <1>1, <1>3
  <2>2. SubSeq(s, i, i + l - 1) \o SubSeq(s, (i + l - 1) + 1, n) = SubSeq(s, i, n)
    BY <2>1, ConcatAdjacentSubSeq
  <2> QED BY <1>3, <1>5, <2>1, <2>2
<1>9. a \o SubSeq(s, i, n) = s
  <2>1. /\ 1 \in 1..(Len(s) + 1) /\ i - 1 \in (1 - 1)..Len(s)
        /\ n \in (i - 1)..Len(s) /\ (i - 1) + 1 = i
    BY <1>1, <1>3
  <2>2. SubSeq(s, 1, i - 1) \o SubSeq(s, (i - 1) + 1, n) = SubSeq(s, 1, n)
    BY <2>1, ConcatAdjacentSubSeq
  <2> QED BY <1>1, <1>4, <2>1, <2>2, SubSeqFull
<1> QED BY <1>6, <1>7, <1>8, <1>9 DEF Has

\* The string m is in s at place i.
IsAt(s, m, i) == \A j \in 1..Len(m) : s[(i - 1) + j] = m[j]

\* It is so where Places says it is.
LEMMA PlaceIs ==
  ASSUME NEW X, NEW s \in Seq(X), NEW m \in Seq(X), NEW l \in Nat, l = Len(m),
         NEW n \in Nat, n = Len(s), NEW i \in 1..(n - l + 1)
  PROVE  i \in Places(s, m) <=> IsAt(s, m, i)
<1>1. i - 1 \in Nat /\ (i - 1) + l <= Len(s) /\ (i - 1) + 1 = i
  OBVIOUS
<1>2. PICK t : t = SubSeq(s, i, i + l - 1)
  OBVIOUS
<1>3. t \in Seq(X) /\ Len(t) = l /\ \A j \in 1..l : t[j] = s[(i - 1) + j]
  <2>1. i + l - 1 = (i - 1) + l
    OBVIOUS
  <2> QED BY <1>1, <1>2, <2>1, PartFacts
<1>4. i \in Places(s, m) <=> t = m
  BY <1>2 DEF Places
<1>5. ASSUME \A j \in 1..l : t[j] = m[j] PROVE t = m
  BY <1>3, <1>5, SeqEqual
<1> QED BY <1>3, <1>4, <1>5 DEF IsAt

\* And the other way round.
LEMMA PartsPlace ==
  ASSUME NEW X, NEW a \in Seq(X), NEW m \in Seq(X), NEW b \in Seq(X),
         NEW s, s = a \o (m \o b)
  PROVE  Len(a) + 1 \in Places(s, m)
<1>1. PICK k \in Nat : k = Len(a)
  BY StringFacts
<1>2. PICK l \in Nat : l = Len(m)
  BY StringFacts
<1>3. PICK n \in Nat : n = Len(b)
  BY StringFacts
<1>4. s \in Seq(X) /\ Len(s) = k + l + n /\ \A j \in 1..l : s[k + j] = m[j]
  BY <1>1, <1>2, <1>3, ThreeParts
<1>5. PICK i \in Nat : i = k + 1 /\ i - 1 = k
  OBVIOUS
<1>6. PICK w \in Nat : w = k + l + n /\ i \in 1..(w - l + 1)
  BY <1>5
<1>7. IsAt(s, m, i)
  BY <1>2, <1>4, <1>5 DEF IsAt
<1>8. i \in Places(s, m)
  BY <1>2, <1>4, <1>6, <1>7, PlaceIs
<1> QED BY <1>1, <1>5, <1>8

\* The marker is made of four characters of ASCII.
LEMMA MarkerFacts ==
  /\ Marker \in Seq(Byte) /\ Marker \in Seq(Ascii) /\ Marker # <<>> /\ Len(Marker) = 4
  /\ Marker[1] = 32 /\ Marker[2] = 45 /\ Marker[3] = 62 /\ Marker[4] = 32
<1>1. 32 \in Ascii /\ 45 \in Ascii /\ 62 \in Ascii
  BY DEF Ascii
<1>2. 32 \in Byte /\ 45 \in Byte /\ 62 \in Byte
  BY DEF Byte
<1> QED BY <1>1, <1>2 DEF Marker

\* A name has a marker when what FUSE shows of it has.
LEMMA MarkerLocal ==
  ASSUME NEW s \in Seq(Byte), ~HasMarker(s)
  PROVE  Places(Local(s), Marker) = {}
<1> SUFFICES ASSUME NEW i \in Places(Local(s), Marker) PROVE FALSE
  OBVIOUS
<1>1. Local(s) \in Seq(Byte) /\ Marker \in Seq(Byte)
  BY LocalBytes, MarkerFacts
<1>2. PICK z \in Seq(Byte) : z = Local(s)
  BY <1>1
<1>3. Has(z, Marker)
  BY <1>1, <1>2, PlaceParts
<1>5. Has(s, Marker)
  BY <1>2, <1>3, MarkerFacts, LocalParts
<1>7. PICK u \in Seq(Byte), v \in Seq(Byte) : s = u \o (Marker \o v)
  BY <1>5 DEF Has
<1>4. Len(u) + 1 \in Places(s, Marker)
  BY <1>1, <1>7, PartsPlace
<1> QED BY <1>4 DEF HasMarker

\* The first character of a name.
LEMMA LocalFirst ==
  ASSUME NEW s \in Seq(Byte), s # <<>>
  PROVE  /\ Local(s) \in Seq(Byte) /\ Local(s) # <<>>
         /\ \A c \in Ascii : Local(s)[1] = c <=> s[1] = c
<1>1. 1 \in 1..Len(s)
  BY EmptySeq
<1>2. PICK c \in Byte : c = s[1]
  BY <1>1, StringFacts
<1>3. PICK r \in Seq(Byte) : s = <<c>> \o r
  <2>1. s = <<s[1]>> \o From(s, 1 + 1) /\ From(s, 1) = s
    BY <1>1, FromFacts
  <2>2. From(s, 1 + 1) \in Seq(Byte)
    <3>1. 1 + 1 \in Int /\ Len(s) \in Int /\ \A i \in (1 + 1)..Len(s) : s[i] \in Byte
      BY StringFacts
    <3> QED BY <3>1, SubSeqProperties DEF From
  <2> QED BY <1>2, <2>1, <2>2
<1>4. c \in Int /\ r \in Seq(Int) /\ <<c>> \in Seq(Int)
  BY BytesInt DEF Byte
<1>5. PICK w : w = IF codepage THEN Wide(c) ELSE <<c>>
  OBVIOUS
<1>11. w \in Seq(Byte) /\ w # <<>> /\ (c <= 127 => w[1] = c) /\ (c > 127 => w[1] > 127)
  <2>1. CASE ~codepage \/ c <= 127
    <3>1. w = <<c>>
      BY <1>4, <1>5, <2>1, WideType
    <3>2. w[1] = c /\ w # <<>> /\ w \in Seq(Byte)
      BY <3>1
    <3> QED BY <1>4, <3>2
  <2>2. CASE codepage /\ c > 127
    <3>1. c \in 128..255
      BY <2>2 DEF Byte
    <3>2. w \in Seq(Byte) /\ w # <<>> /\ w[1] \in {194, 195}
      BY <1>4, <1>5, <2>2, <3>1, WideType
    <3>3. w[1] > 127
      BY <3>2
    <3> QED BY <1>4, <2>2, <3>2, <3>3
  <2> QED BY <1>4, <2>1, <2>2
<1>6. Local(s) = w \o Local(r)
  BY <1>3, <1>4, <1>5, LocalConcat
<1>7. Local(s) \in Seq(Byte) /\ Local(r) \in Seq(Byte)
  BY LocalBytes
<1>8. 1 \in 1..Len(w)
  BY <1>11, EmptySeq
<1>9. Local(s)[1] = w[1] /\ Local(s) # <<>>
  <2>1. /\ \A j \in 1..Len(w) : Local(s)[j] = w[j]
        /\ Len(Local(s)) = Len(w) + Len(Local(r)) /\ Len(Local(r)) \in Nat
    BY <1>6, <1>7, <1>11, Concat
  <2>2. Len(Local(s)) # 0
    BY <1>8, <2>1
  <2> QED BY <1>8, <2>1, <2>2, EmptySeq
<1>10. \A x \in Ascii : w[1] = x <=> c = x
  BY <1>4, <1>11 DEF Ascii
<1> QED BY <1>2, <1>7, <1>9, <1>10

\* The text t shows the name n of a link, and its target g.
ShowsLink(t, n, g) == t = n \o (Marker \o g)

\* The name of a link has no marker, not even with the blank of the one behind it.
Unmarked(n) == Places(n \o <<32>>, Marker) = {}

\* The marker of a link is the first one then.
LEMMA LinkParts ==
  ASSUME NEW n \in Seq(Byte), NEW g \in Seq(Byte), NEW t, ShowsLink(t, n, g),
         Unmarked(n)
  PROVE  /\ Places(t, Marker) # {}
         /\ SubSeq(t, 1, First(Places(t, Marker)) - 1) = n
         /\ SubSeq(t, First(Places(t, Marker)) + Len(Marker), Len(t)) = g
<1> USE DEF Unmarked
<1>1. PICK k \in Nat : k = Len(n)
  BY StringFacts
<1>2. PICK l \in Nat : l = Len(g)
  BY StringFacts
<1>3. /\ t \in Seq(Byte) /\ Len(t) = k + 4 + l
      /\ \A j \in 1..k : t[j] = n[j]
      /\ \A j \in 1..4 : t[k + j] = Marker[j]
      /\ \A j \in 1..l : t[k + 4 + j] = g[j]
  <2>1. /\ t \in Seq(Byte) /\ Len(t) = Len(n) + Len(Marker) + Len(g)
        /\ \A j \in 1..Len(n) : t[j] = n[j]
        /\ \A j \in 1..Len(Marker) : t[Len(n) + j] = Marker[j]
        /\ \A j \in 1..Len(g) : t[Len(n) + Len(Marker) + j] = g[j]
    <3>1. Marker \in Seq(Byte)
      BY MarkerFacts
    <3>2. t = n \o (Marker \o g)
      BY DEF ShowsLink
    <3> QED BY <3>1, <3>2, ThreeParts
  <2>2. Len(Marker) = 4
    BY MarkerFacts
  <2> QED BY <1>1, <1>2, <2>1, <2>2
<1>4. k + 1 \in Places(t, Marker)
  <2>1. Marker \in Seq(Byte) /\ t = n \o (Marker \o g)
    BY MarkerFacts DEF ShowsLink
  <2> QED BY <1>1, <2>1, PartsPlace
<1>5. Places(t, Marker) \in SUBSET Nat
  <2>1. Places(t, Marker) \subseteq 1..(Len(t) - Len(Marker) + 1)
    BY DEF Places
  <2>2. Len(t) - Len(Marker) + 1 \in Int
    BY <1>3, MarkerFacts
  <2> QED BY <2>1, <2>2
<1>6. ASSUME NEW i \in Places(t, Marker), i < k + 1 PROVE FALSE
  <2>1. i \in 1..(k + l + 1) /\ i <= k
    <3>1. i \in 1..((k + 4 + l) - 4 + 1)
      BY <1>3, MarkerFacts DEF Places
    <3> QED BY <1>6, <3>1
  <2>2. \A j \in 1..4 : t[(i - 1) + j] = Marker[j]
    <3>1. PICK c \in Nat : c = Len(Marker)
      BY MarkerFacts
    <3>2. PICK w \in Nat : w = Len(t)
      BY <1>3
    <3>3. i \in 1..(w - c + 1)
      BY <3>1, <3>2 DEF Places
    <3>4. t \in Seq(Byte) /\ Marker \in Seq(Byte)
      BY <1>3, MarkerFacts
    <3>5. IsAt(t, Marker, i)
      BY <3>1, <3>2, <3>3, <3>4, PlaceIs
    <3>6. Len(Marker) = 4
      BY MarkerFacts
    <3> QED BY <3>5, <3>6 DEF IsAt
  <2>3. t[k + 1] = 32
    <3>1. 1 \in 1..4
      OBVIOUS
    <3> QED BY <1>3, <3>1, MarkerFacts
  <2>4. i # k
    <3>1. i = k => t[k + 1] = 45
      <4>1. 2 \in 1..4 /\ (i - 1) + 2 = i + 1
        BY <2>1
      <4>2. t[i + 1] = Marker[2]
        BY <2>2, <4>1, Zenon
      <4> QED BY <4>2, MarkerFacts
    <3> QED BY <2>3, <3>1
  <2>5. i # k - 1
    <3>1. i = k - 1 => t[k + 1] = 62
      <4>1. 3 \in 1..4 /\ (i - 1) + 3 = i + 2 /\ (i = k - 1 => i + 2 = k + 1)
        BY <2>1
      <4>2. t[i + 2] = Marker[3]
        BY <2>2, <4>1, Zenon
      <4> QED BY <4>1, <4>2, MarkerFacts
    <3> QED BY <2>3, <3>1
  <2>6. i \in 1..(k - 2)
    BY <2>1, <2>4, <2>5
  <2>7. PICK u : u = n \o <<32>>
    OBVIOUS
  <2>8. u \in Seq(Byte) /\ Len(u) = k + 1 /\ \A j \in 1..(k + 1) : u[j] = t[j]
    <3>1. <<32>> \in Seq(Byte) /\ Len(<<32>>) = 1 /\ <<32>>[1] = 32
      BY DEF Byte
    <3>2. /\ u \in Seq(Byte) /\ Len(u) = Len(n) + 1
          /\ \A j \in 1..Len(n) : u[j] = n[j]
          /\ \A j \in 1..1 : u[Len(n) + j] = <<32>>[j]
      BY <2>7, <3>1, Concat
    <3>3. u[k + 1] = 32
      <4>1. 1 \in 1..1
        OBVIOUS
      <4> QED BY <1>1, <3>1, <3>2, <4>1
    <3>4. ASSUME NEW j \in 1..(k + 1) PROVE u[j] = t[j]
      <4>1. j \in 1..k \/ j = k + 1
        OBVIOUS
      <4> QED BY <1>1, <1>3, <2>3, <3>2, <3>3, <4>1
    <3> QED BY <1>1, <3>2, <3>4
  <2>9. ASSUME NEW j \in 1..4 PROVE u[(i - 1) + j] = Marker[j]
    <3>1. (i - 1) + j \in 1..(k + 1)
      BY <2>6
    <3> QED BY <2>2, <2>8, <3>1
  <2>10. i \in Places(u, Marker)
    <3>1. 4 \in Nat /\ k + 1 \in Nat /\ i \in 1..((k + 1) - 4 + 1)
      BY <2>6
    <3>2. IsAt(u, Marker, i)
      BY <2>9, MarkerFacts DEF IsAt
    <3> QED BY <2>8, <3>1, <3>2, MarkerFacts, PlaceIs
  <2> QED BY <2>7, <2>10
<1>7. First(Places(t, Marker)) = k + 1
  BY <1>4, <1>5, <1>6, FirstIs
<1>8. SubSeq(t, 1, k) = n
  <2>1. PICK z \in Nat : z = 0 /\ z + 1 = 1 /\ z + k = k /\ z + k <= Len(t)
    BY <1>3
  <2>2. PICK v : v = SubSeq(t, z + 1, z + k)
    OBVIOUS
  <2>3. v \in Seq(Byte) /\ Len(v) = k /\ \A j \in 1..k : v[j] = t[z + j]
    BY <1>3, <2>1, <2>2, PartFacts
  <2>4. ASSUME NEW j \in 1..k PROVE v[j] = n[j]
    <3>1. z + j = j
      BY <2>1
    <3> QED BY <1>3, <2>3, <3>1
  <2>5. v = n
    BY <1>1, <2>3, <2>4, SeqEqual
  <2> QED BY <2>1, <2>2, <2>5
<1>9. SubSeq(t, (k + 1) + 4, Len(t)) = g
  <2>1. PICK z \in Nat : /\ z = k + 4 /\ z + l <= Len(t) /\ z + l = Len(t)
                         /\ z + 1 = (k + 1) + 4
    BY <1>3
  <2>2. PICK v : v = SubSeq(t, z + 1, z + l)
    OBVIOUS
  <2>3. v \in Seq(Byte) /\ Len(v) = l /\ \A j \in 1..l : v[j] = t[z + j]
    <3>1. z + l <= Len(t) /\ t \in Seq(Byte)
      BY <1>3, <2>1
    <3> QED BY <2>2, <3>1, PartFacts
  <2>4. \A j \in 1..l : v[j] = g[j]
    BY <1>3, <2>1, <2>3
  <2>5. v = g
    BY <1>2, <2>3, <2>4, SeqEqual
  <2> QED BY <2>1, <2>2, <2>5
<1> QED BY <1>4, <1>7, <1>8, <1>9, MarkerFacts

\* What the line of file k begins with, and the text after it.
LEMMA LineParts ==
  ASSUME request \in Requests, NEW k \in DOMAIN files, NEW t \in Seq(Byte),
         NEW line, line = <<-k>> \o t
  PROVE  line # <<>> /\ line[1] < 0 /\ -line[1] = k /\ Tail(line) = t
<1>1. k \in Nat \ {0}
  <2>1. files \in Seq(File)
    BY RequestFacts
  <2> QED BY <2>1, StringFacts
<1>2. PICK x \in Int : x = -k /\ x < 0 /\ -x = k
  BY <1>1
<1>3. t \in Seq(Int) /\ <<x>> \in Seq(Int) /\ Len(<<x>>) = 1 /\ <<x>>[1] = x
  BY BytesInt
<1>4. PICK n \in Nat : n = Len(t)
  BY StringFacts
<1>5. /\ line \in Seq(Int) /\ Len(line) = 1 + n
      /\ \A j \in 1..1 : line[j] = <<x>>[j]
      /\ \A j \in 1..n : line[1 + j] = t[j]
  <2>1. line = <<x>> \o t
    BY <1>2
  <2> QED BY <1>3, <1>4, <2>1, Concat
<1>6. line # <<>> /\ line[1] = x
  <2>1. 1 \in 1..1 /\ Len(line) # 0
    BY <1>5
  <2> QED BY <1>3, <1>5, <2>1, EmptySeq
<1>7. Tail(line) = t
  <2>1. /\ Tail(line) \in Seq(Int) /\ Len(Tail(line)) = Len(line) - 1
        /\ \A i \in 1..Len(Tail(line)) : Tail(line)[i] = line[i + 1]
    BY <1>5, <1>6, HeadTailProperties
  <2>2. Len(Tail(line)) = n
    BY <1>5, <2>1
  <2>3. ASSUME NEW i \in 1..n PROVE Tail(line)[i] = t[i]
    <3>1. i + 1 = 1 + i
      OBVIOUS
    <3> QED BY <1>5, <2>1, <2>2, <3>1
  <2> QED BY <1>3, <1>4, <2>1, <2>2, <2>3, SeqEqual
<1> QED BY <1>2, <1>6, <1>7

\* A whole line of a file tells its name, and its target.
Tells(k, line) ==
  /\ line # <<>> /\ line[1] < 0 /\ -line[1] = k
  /\ IsParsed(line) <=> files[k].format \in {"unix", "win"}
  /\ ParsedName(line) = Local(files[k].name)
  /\ ParsedLink(line) = IF files[k].type = "l" THEN Local(files[k].target) ELSE <<>>

\* Such is every line in a known format whose name can be told.
LEMMA LineTells ==
  ASSUME request \in Requests, NEW k \in DOMAIN files, NEW line,
         line = <<-k>> \o Local(Shown(files[k])), ~Mangled(files[k]),
         files[k].format \in {"unix", "win"}
  PROVE  Tells(k, line)
<1> DEFINE f == files[k]
<1>1. /\ f.name \in Seq(Byte) /\ f.name # <<>> /\ f.target \in Seq(Byte)
      /\ Shown(f) \in Seq(Byte) /\ f.type \in {"-", "l"}
  <2>1. f.type \in {"-", "l"}
    <3>1. files[k] \in File
      BY RequestFacts
    <3> QED BY <3>1 DEF File
  <2> QED BY <2>1, ShownType DEF FileNames
<1>2. PICK n \in Seq(Byte) : n = Local(f.name)
  BY <1>1, LocalBytes
<1>3. PICK g \in Seq(Byte) : g = Local(f.target)
  BY <1>1, LocalBytes
<1>4. PICK t \in Seq(Byte) : t = Local(Shown(f))
  BY <1>1, LocalBytes
<1>5. line # <<>> /\ line[1] < 0 /\ -line[1] = k /\ Tail(line) = t
  BY <1>4, LineParts
<1>6. n # <<>>
  BY <1>1, <1>2, LocalFirst
<1>7. CASE f.type = "-"
  <2>1. t = n
    <3>1. Shown(f) = f.name
      BY <1>1, <1>7, ConcatEmptySeq DEF Shown
    <3> QED BY <1>2, <1>4, <3>1
  <2>6. f.format = "win" => ~TakenByUnix(line)
    <3>1. f.format = "win" => UnixName(n) = <<>>
      BY <1>2 DEF Mangled
    <3> QED BY <1>5, <2>1, <3>1 DEF TakenByUnix
  <2>2. Text(line) = n
    <3>1. CASE f.format = "unix"
      BY <1>5, <2>1, <3>1 DEF Text
    <3>2. CASE f.format = "win"
      <4> DEFINE S == {i \in DOMAIN t : t[i] \notin Blanks}
      <4>1. Text(line) = IF S = {} THEN <<>> ELSE SubSeq(t, First(S), Len(t))
        BY <1>5, <2>6, <3>2 DEF Text
      <4>2. 1 \in 1..Len(t) /\ DOMAIN t = 1..Len(t)
        BY <1>6, <2>1, EmptySeq, StringFacts
      <4>3. t[1] \notin Blanks
        <5>1. f.name[1] \notin Blanks
          BY <3>2 DEF Mangled
        <5>2. 9 \in Ascii /\ 32 \in Ascii
          BY DEF Ascii
        <5>3. /\ Local(f.name)[1] = 9 <=> f.name[1] = 9
              /\ Local(f.name)[1] = 32 <=> f.name[1] = 32
          BY <1>1, <5>2, LocalFirst
        <5> QED BY <1>2, <2>1, <5>1, <5>3 DEF Blanks
      <4>4. 1 \in S /\ S \in SUBSET Nat /\ \A j \in S : ~(j < 1)
        BY <4>2, <4>3
      <4> HIDE DEF S
      <4>5. First(S) = 1
        BY <4>4, FirstIs
      <4>6. SubSeq(t, 1, Len(t)) = t
        BY SubSeqFull
      <4> QED BY <2>1, <4>1, <4>4, <4>5, <4>6
    <3> QED BY <3>1, <3>2
  <2>3. Markers(line) = {}
    <3>1. Places(n, Marker) = {}
      BY <1>1, <1>2, MarkerLocal DEF Mangled
    <3> QED BY <2>2, <3>1 DEF Markers
  <2>4. ParsedName(line) = n /\ ParsedLink(line) = <<>>
    BY <2>2, <2>3 DEF ParsedName, ParsedLink
  <2>5. IsParsed(line)
    BY <1>5, <1>6, <2>2 DEF IsParsed
  <2> QED BY <1>2, <1>5, <1>7, <2>4, <2>5 DEF Tells
<1>8. CASE f.type = "l"
  <2>1. f.format = "unix"
    BY <1>8, ServerFacts
  <2>2. t = n \o (Marker \o g)
    <3>1. Marker \in Seq(Byte) /\ Marker \o f.target \in Seq(Byte)
      BY ShownType
    <3>2. /\ f.name \in Seq(Int) /\ f.target \in Seq(Int) /\ Marker \in Seq(Int)
          /\ Marker \o f.target \in Seq(Int)
      BY <1>1, <3>1, BytesInt
    <3>3. Local(Marker \o f.target) = Local(Marker) \o Local(f.target)
      BY <3>2, LocalConcat
    <3>4. Local(f.name \o (Marker \o f.target))
            = Local(f.name) \o Local(Marker \o f.target)
      BY <3>2, LocalConcat
    <3>5. Local(Marker) = Marker
      BY MarkerFacts, LocalAscii
    <3>6. Shown(f) = f.name \o (Marker \o f.target)
      BY <1>8 DEF Shown
    <3> QED BY <1>2, <1>3, <1>4, <3>3, <3>4, <3>5, <3>6
  <2>3. Places(n \o <<32>>, Marker) = {}
    <3>1. <<32>> \in Seq(Byte)
      BY DEF Byte
    <3>2. f.name \o <<32>> \in Seq(Byte)
      BY <1>1, <3>1, ConcatType
    <3>3. ~HasMarker(f.name \o <<32>>)
      BY <1>8 DEF Mangled
    <3>4. Places(Local(f.name \o <<32>>), Marker) = {}
      BY <3>2, <3>3, MarkerLocal
    <3>5. Local(f.name \o <<32>>) = n \o <<32>>
      <4>1. 32 \in Int /\ f.name \in Seq(Int)
        BY <1>1, BytesInt
      <4>2. Wide(32) = <<32>>
        BY DEF Wide
      <4> QED BY <1>2, <4>1, <4>2, LocalAppend
    <3> QED BY <3>4, <3>5
  <2>4. Text(line) = t
    BY <1>5, <2>1 DEF Text
  <2>5. Markers(line) = Places(t, Marker)
    BY <1>5, <2>1, <2>4 DEF Markers, TakenByUnix
  <2>6. /\ Places(t, Marker) # {}
        /\ SubSeq(t, 1, First(Places(t, Marker)) - 1) = n
        /\ SubSeq(t, First(Places(t, Marker)) + Len(Marker), Len(t)) = g
    BY <2>2, <2>3, LinkParts DEF ShowsLink, Unmarked
  <2>7. ParsedName(line) = n /\ ParsedLink(line) = g
    BY <2>4, <2>5, <2>6 DEF ParsedName, ParsedLink
  <2>8. t # <<>>
    <3>1. Places(<<>>, Marker) = {}
      <4>1. Len(<<>>) - Len(Marker) + 1 = 0 - 4 + 1
        BY MarkerFacts
      <4>2. 1..(0 - 4 + 1) = {}
        OBVIOUS
      <4> QED BY <4>1, <4>2 DEF Places
    <3> QED BY <2>6, <3>1
  <2>9. IsParsed(line)
    BY <1>5, <2>4, <2>8 DEF IsParsed
  <2> QED BY <1>2, <1>3, <1>5, <1>8, <2>7, <2>9 DEF Tells
<1> QED BY <1>1, <1>7, <1>8

-----------------------------------------------------------------------------
(* The directory that is listed, and the paths of what is in it.           *)

\* The directory that a listing is asked for, and the URL of a directory of the
\* server before it is encoded.
Asked == IF request.op = "getattr" THEN DirName(path) ELSE Tail(path)
UrlOf(d) == host \o d \o SlashUnless(d = <<>>)
InDir(k) == UrlOf(files[k].dir) = reached

IsListing == request.op \in {"getattr", "getdir"}

\* The server's name of the directory is one that FUSE has got from it.
LEMMA AskedFacts ==
  ASSUME request \in Requests, IsListing
  PROVE  /\ Asked \in Seq(Byte) /\ Server(Asked) \in Seq(Byte)
         /\ Local(Server(Asked)) = Asked
         /\ Server(Asked) = <<>> <=> Asked = <<>>
<1>1. Asked \in Seq(Byte)
  BY RequestFacts, PathSplit DEF Asked
<1>2. Local(Server(Asked)) = Asked
  BY ServerFacts DEF Asked, IsListing, IsKnown
<1>3. Server(Asked) \in Seq(Byte)
  BY <1>1, ServerType
<1>4. Server(<<>>) = <<>>
  BY CodepageShort DEF Server
<1>5. Local(<<>>) = <<>>
  BY LocalConcat
<1> QED BY <1>1, <1>2, <1>3, <1>4, <1>5

\* Different directories have different URLs.
LEMMA UrlFacts ==
  ASSUME request \in Requests
  PROVE  /\ \A d \in Seq(Byte) : UrlOf(d) \in Seq(Byte)
         /\ \A d \in Seq(Byte) : UrlOf(d) = host \o (d \o SlashUnless(d = <<>>))
         /\ \A c, d \in Seq(Byte) : UrlOf(c) = UrlOf(d) => c = d
<1>1. host \in Seq(Byte)
  BY RequestFacts
<1>2. ASSUME NEW d \in Seq(Byte)
      PROVE  /\ UrlOf(d) \in Seq(Byte) /\ d \o SlashUnless(d = <<>>) \in Seq(Byte)
             /\ UrlOf(d) = host \o (d \o SlashUnless(d = <<>>))
  <2>1. PICK v \in Seq(Byte) : v = SlashUnless(d = <<>>)
    BY SlashUnlessType
  <2>2. PICK h \in Seq(Byte) : h = host
    BY <1>1
  <2>3. (h \o d) \o v = h \o (d \o v) /\ d \o v \in Seq(Byte)
    BY ConcatAssociative, ConcatType
  <2>4. h \o (d \o v) \in Seq(Byte)
    BY <2>3, ConcatType
  <2> QED BY <2>1, <2>2, <2>3, <2>4 DEF UrlOf
<1>3. ASSUME NEW c \in Seq(Byte), NEW d \in Seq(Byte), UrlOf(c) = UrlOf(d) PROVE c = d
  <2>1. PICK u \in Seq(Byte) : u = c \o SlashUnless(c = <<>>)
    BY <1>2
  <2>2. PICK v \in Seq(Byte) : v = d \o SlashUnless(d = <<>>)
    BY <1>2
  <2>3. u = v
    <3>1. host \o u = host \o v
      <4>1. UrlOf(c) = host \o u /\ UrlOf(d) = host \o v
        BY <1>2, <2>1, <2>2
      <4> QED BY <1>3, <4>1
    <3> QED BY <1>1, <3>1, ConcatSimplifications
  <2>4. PICK t \in Seq(Byte) : t = <<Slash>> /\ t # <<>>
    <3>1. <<Slash>> \in Seq(Byte) /\ <<Slash>> # <<>>
      BY DEF Slash, Byte
    <3> QED BY <3>1, Zenon
  <2>5. \A e \in Seq(Byte) : e \o t # <<>>
    BY <2>4, ConcatSimplifications
  <2>6. <<>> \o <<>> = <<>>
    BY EmptySeq, ConcatEmptySeq
  <2>7. (c = <<>> => u = <<>>) /\ (c # <<>> => u = c \o t)
    BY <2>1, <2>4, <2>6 DEF SlashUnless
  <2>8. (d = <<>> => v = <<>>) /\ (d # <<>> => v = d \o t)
    BY <2>2, <2>4, <2>6 DEF SlashUnless
  <2>9. CASE c = <<>> \/ d = <<>>
    BY <2>3, <2>5, <2>7, <2>8, <2>9
  <2>10. CASE c # <<>> /\ d # <<>>
    <3>1. c \o t = d \o t
      BY <2>3, <2>7, <2>8, <2>10
    <3> QED BY <3>1, ConcatSimplifications
  <2> QED BY <2>9, <2>10
<1> QED BY <1>2, <1>3

\* What is listed is what is in the directory that was asked for.
LEMMA InDirIs ==
  ASSUME request \in Requests, IsListing, reached = UrlOf(Server(Asked)),
         NEW k \in DOMAIN files
  PROVE  /\ InDir(k) <=> files[k].dir = Server(Asked)
         /\ InDir(k) <=> Local(files[k].dir) = Asked
<1>1. files[k].dir \in Seq(Byte)
  BY ShownType
<1>2. Server(Asked) \in Seq(Byte) /\ Local(Server(Asked)) = Asked
  BY AskedFacts
<1>3. InDir(k) <=> files[k].dir = Server(Asked)
  BY <1>1, <1>2, UrlFacts DEF InDir
<1>4. Local(files[k].dir) = Asked <=> files[k].dir = Server(Asked)
  BY <1>1, <1>2, LocalInjective
<1> QED BY <1>3, <1>4

\* The path of a file, in two parts.
LEMMA PathOfParts ==
  ASSUME request \in Requests, NEW k \in DOMAIN files
  PROVE  /\ Local(files[k].dir) \in Seq(Byte) /\ Local(files[k].name) \in Seq(Byte)
         /\ NoSlash(Local(files[k].name))
         /\ PathOf(files[k])
              = Base(Local(files[k].dir)) \o (<<Slash>> \o Local(files[k].name))
<1>1. PICK d \in Seq(Byte) : d = files[k].dir
  BY ShownType
<1>2. PICK n \in Seq(Byte) : n = files[k].name /\ n \in FileNames
  BY ShownType
<1>3. Local(d) \in Seq(Byte) /\ Local(n) \in Seq(Byte)
  BY LocalBytes
<1>4. Local(d) = <<>> <=> d = <<>>
  BY LocalFirst, LocalConcat
<1>5. ASSUME NEW i \in DOMAIN Local(n), Local(n)[i] = Slash PROVE FALSE
  <2>1. i \in 1..Len(Local(n))
    BY <1>3, StringFacts
  <2>2. Slash \in Ascii /\ Slash \in Byte
    BY DEF Slash, Ascii, Byte
  <2>3. <<Slash>> \in Seq(Ascii) /\ <<Slash>> # <<>>
    BY <2>2
  <2>4. Has(Local(n), <<Slash>>)
    <3>1. \E a, b \in Seq(Byte) : /\ Local(n) = a \o (<<Local(n)[i]>> \o b)
                                  /\ Len(a) = i - 1
      BY <1>3, <2>1, AroundPlace, Zenon
    <3> QED BY <1>5, <3>1 DEF Has
  <2>5. Has(n, <<Slash>>)
    BY <2>3, <2>4, LocalParts
  <2>6. PICK u \in Seq(Byte), v \in Seq(Byte) : n = u \o (<<Slash>> \o v)
    BY <2>5 DEF Has
  <2>7. /\ Len(u) \in Nat /\ Len(v) \in Nat /\ Len(n) = Len(u) + 1 + Len(v)
        /\ n[Len(u) + 1] = Slash
    BY <2>2, <2>6, AtPlace
  <2>8. Len(u) + 1 \in DOMAIN n
    <3>1. Len(u) + 1 \in 1..Len(n)
      BY <2>7
    <3> QED BY <3>1, StringFacts
  <2> QED BY <1>2, <2>7, <2>8 DEF FileNames
<1>6. <<Slash>> \o Local(d) \o SlashUnless(Local(d) = <<>>) \o Local(n)
        = Base(Local(d)) \o (<<Slash>> \o Local(n))
  BY <1>3, BaseForm
<1>7. PathOf(files[k]) = <<Slash>> \o Local(d) \o SlashUnless(Local(d) = <<>>) \o Local(n)
  BY <1>1, <1>2, <1>4 DEF PathOf
<1> QED BY <1>1, <1>2, <1>3, <1>5, <1>6, <1>7 DEF NoSlash

\* The path of a file tells its directory and its name.
LEMMA PathOfTells ==
  ASSUME request \in Requests, NEW k \in DOMAIN files,
         NEW e \in Seq(Byte), NEW n \in Seq(Byte), NoSlash(n)
  PROVE  Base(e) \o (<<Slash>> \o n) = PathOf(files[k]) <=>
           e = Local(files[k].dir) /\ n = Local(files[k].name)
<1>1. PICK d \in Seq(Byte) : d = Local(files[k].dir)
  BY PathOfParts
<1>2. PICK m \in Seq(Byte) : m = Local(files[k].name) /\ NoSlash(m)
  BY PathOfParts
<1>3. PathOf(files[k]) = Base(d) \o (<<Slash>> \o m)
  BY <1>1, <1>2, PathOfParts
<1>4. Base(d) \in Seq(Byte) /\ Base(e) \in Seq(Byte) /\ (Base(e) = Base(d) => e = d)
  BY BaseFacts
<1>5. ASSUME Base(e) \o (<<Slash>> \o n) = Base(d) \o (<<Slash>> \o m)
      PROVE  e = d /\ n = m
  <2>1. Base(e) = Base(d) /\ n = m
    <3>1. PICK a \in Seq(Byte) : a = Base(e)
      BY <1>4
    <3>2. PICK c \in Seq(Byte) : c = Base(d)
      BY <1>4
    <3>3. Below(a, n) = Below(c, m)
      BY <1>5, <3>1, <3>2 DEF Below
    <3>4. a = c /\ n = m
      <4>1. NoSlash(m)
        BY <1>2
      <4> QED BY <3>3, <4>1, SlashSplit
    <3> QED BY <3>1, <3>2, <3>4
  <2> QED BY <1>4, <2>1
<1> QED BY <1>1, <1>2, <1>3, <1>5

\* A file is the one that is asked for when its directory and its name are.
LEMMA PathOfIs ==
  ASSUME request \in Requests, NEW k \in DOMAIN files
  PROVE  PathOf(files[k]) = path <=> /\ Local(files[k].dir) = DirName(path)
                                     /\ Local(files[k].name) = FileName(path)
<1>1. IsPath(path)
  BY RequestFacts
<1>2. DirName(path) \in Seq(Byte) /\ FileName(path) \in Seq(Byte)
  BY <1>1, PathSplit
<1>3. /\ path = Base(DirName(path)) \o (<<Slash>> \o FileName(path))
      /\ NoSlash(FileName(path))
  BY <1>1, PathParts
<1>4. Base(DirName(path)) \o (<<Slash>> \o FileName(path)) = PathOf(files[k]) <=>
        DirName(path) = Local(files[k].dir) /\ FileName(path) = Local(files[k].name)
  BY <1>2, <1>3, PathOfTells
<1> QED BY <1>3, <1>4, Zenon

-----------------------------------------------------------------------------
(* The keys of the cache.                                                  *)

\* A plain string is one of ASCII: it is encoded, and shown, as itself.
LEMMA PlainFacts ==
  ASSUME NEW s \in Seq(Byte), IsPlain(s)
  PROVE  url_encode(s) = s /\ Local(s) = s
<1>1. url_encode(s) = s
  BY PlainEncoding DEF IsPlain
<1>2. \A c \in Byte : Kept(c) => c \in Ascii
  BY DEF Kept, isalnum, Slash, Ascii
<1>3. DOMAIN s = 1..Len(s) /\ Len(s) \in Nat /\ \A i \in 1..Len(s) : s[i] \in Byte
  BY StringFacts
<1>4. \A i \in 1..Len(s) : s[i] \in Ascii
  BY <1>2, <1>3 DEF IsPlain
<1>5. s \in Seq(Ascii)
  <2>1. s \in [1..Len(s) -> Ascii]
    BY <1>3, <1>4, LenProperties
  <2> QED BY <1>3, <2>1, SeqDef
<1> QED BY <1>1, <1>5, LocalAscii

\* Both halves of a plain string are plain.
LEMMA PlainHalves ==
  ASSUME NEW a \in Seq(Byte), NEW b \in Seq(Byte), IsPlain(a \o b)
  PROVE  IsPlain(a) /\ IsPlain(b)
<1>1. PICK s : s = a \o b
  OBVIOUS
<1>2. PICK m \in Nat : m = Len(a) /\ DOMAIN a = 1..m
  BY StringFacts
<1>3. PICK n \in Nat : n = Len(b) /\ DOMAIN b = 1..n
  BY StringFacts
<1>4. /\ s \in Seq(Byte) /\ Len(s) = m + n /\ \A j \in 1..m : s[j] = a[j]
      /\ \A j \in 1..n : s[m + j] = b[j]
  BY <1>1, <1>2, <1>3, Concat
<1>5. DOMAIN s = 1..(m + n)
  BY <1>4, StringFacts
<1>6. \A j \in 1..(m + n) : Kept(s[j])
  BY <1>1, <1>5 DEF IsPlain
<1>7. ASSUME NEW j \in 1..m PROVE Kept(a[j])
  <2>1. j \in 1..(m + n)
    OBVIOUS
  <2> QED BY <1>4, <1>6, <2>1
<1>8. ASSUME NEW j \in 1..n PROVE Kept(b[j])
  <2>1. m + j \in 1..(m + n)
    OBVIOUS
  <2> QED BY <1>4, <1>6, <2>1
<1> QED BY <1>2, <1>3, <1>7, <1>8 DEF IsPlain

\* What follows the host in a URL, with the slash at the host's end.
LEMMA AfterHost ==
  ASSUME request \in Requests, NEW r \in Seq(Byte)
  PROVE  KeyDir(host \o r) = <<Slash>> \o r
<1>1. PICK h \in Seq(Byte) : h = host /\ h # <<>> /\ h[Len(h)] = Slash
  BY RequestFacts, ServerFacts
<1>2. PICK k \in Nat : Len(h) = k + 1
  <2>1. Len(h) \in Nat \ {0}
    BY <1>1, EmptySeq
  <2>2. Len(h) - 1 \in Nat /\ Len(h) = (Len(h) - 1) + 1
    BY <2>1
  <2> QED BY <2>2
<1>3. PICK n \in Nat : n = Len(r)
  BY StringFacts
<1>4. PICK u : u = h \o r
  OBVIOUS
<1>5. /\ u \in Seq(Byte) /\ Len(u) = (k + 1) + n
      /\ \A j \in 1..(k + 1) : u[j] = h[j]
      /\ \A j \in 1..n : u[(k + 1) + j] = r[j]
  <2>1. /\ u \in Seq(Byte) /\ Len(u) = Len(h) + Len(r)
        /\ \A j \in 1..Len(h) : u[j] = h[j]
        /\ \A j \in 1..Len(r) : u[Len(h) + j] = r[j]
    BY <1>4, Concat
  <2> QED BY <1>2, <1>3, <2>1
<1>6. u[k + 1] = Slash
  <2>1. k + 1 \in 1..(k + 1)
    OBVIOUS
  <2> QED BY <1>1, <1>2, <1>5, <2>1
<1>7. PICK l \in Nat : l = 1 + n
  OBVIOUS
<1>8. PICK v : v = SubSeq(u, k + 1, k + l)
  OBVIOUS
<1>9. v \in Seq(Byte) /\ Len(v) = l /\ \A j \in 1..l : v[j] = u[k + j]
  <2>1. k + l <= Len(u) /\ u \in Seq(Byte)
    BY <1>5, <1>7
  <2> QED BY <1>8, <2>1, PartFacts
<1>10. PICK w : w = <<Slash>> \o r
  OBVIOUS
<1>11. /\ w \in Seq(Byte) /\ Len(w) = 1 + n /\ w[1] = Slash
       /\ \A j \in 1..n : w[1 + j] = r[j]
  <2>1. <<Slash>> \in Seq(Byte) /\ Len(<<Slash>>) = 1 /\ <<Slash>>[1] = Slash
    BY DEF Slash, Byte
  <2>2. /\ w \in Seq(Byte) /\ Len(w) = 1 + n
        /\ \A j \in 1..1 : w[j] = <<Slash>>[j]
        /\ \A j \in 1..n : w[1 + j] = r[j]
    BY <1>3, <1>10, <2>1, Concat
  <2>3. 1 \in 1..1
    OBVIOUS
  <2> QED BY <2>1, <2>2, <2>3
<1>12. ASSUME NEW j \in 1..l PROVE v[j] = w[j]
  <2>1. CASE j = 1
    BY <1>6, <1>9, <1>11, <2>1
  <2>2. CASE j # 1
    <3>1. PICK i \in 1..n : j = 1 + i
      <4>1. j - 1 \in 1..n /\ j = 1 + (j - 1)
        BY <1>7, <2>2
      <4> QED BY <4>1
    <3>2. k + j = (k + 1) + i
      BY <3>1
    <3> QED BY <1>5, <1>9, <1>11, <3>1, <3>2
  <2> QED BY <2>1, <2>2
<1>13. v = w
  BY <1>7, <1>9, <1>11, <1>12, SeqEqual
<1>14. KeyDir(u) = v
  <2>1. k + l = Len(u)
    BY <1>5, <1>7
  <2> QED BY <1>1, <1>2, <1>8, <2>1 DEF KeyDir
<1> QED BY <1>1, <1>4, <1>10, <1>13, <1>14

\* The key that parse_dir makes of a name in directory d, when the host needs
\* no encoding.
LEMMA EncodedKey ==
  ASSUME request \in Requests, IsPlain(host), NEW d \in Seq(Byte), NEW n \in Seq(Byte)
  PROVE  KeyDir(url_encode(UrlOf(d))) \o n = Base(url_encode(d)) \o (<<Slash>> \o n)
<1>1. PICK h \in Seq(Byte) : h = host /\ IsPlain(h)
  BY RequestFacts
<1>2. PICK v \in Seq(Byte) : v = SlashUnless(d = <<>>) /\ url_encode(v) = v
  <2>1. Kept(Slash) /\ <<Slash>> \in Seq(Byte) /\ <<>> \in Seq(Byte)
    BY DEF Kept, Slash, Byte
  <2>2. IsPlain(<<Slash>>) /\ IsPlain(<<>>)
    BY <2>1 DEF IsPlain
  <2>3. url_encode(<<Slash>>) = <<Slash>> /\ url_encode(<<>>) = <<>>
    BY <2>1, <2>2, PlainFacts
  <2> QED BY <2>1, <2>3 DEF SlashUnless
<1>3. PICK e \in Seq(Byte) : e = url_encode(d)
  BY EncodeConcat
<1>4. e = <<>> <=> d = <<>>
  <2>1. <<>> \in Seq(Byte) /\ IsPlain(<<>>)
    BY EmptySeq DEF IsPlain
  <2>2. url_encode(<<>>) = <<>>
    BY <2>1, PlainFacts
  <2>3. Unescaped(url_encode(d)) = d /\ Unescaped(url_encode(<<>>)) = <<>>
    BY <2>1, RoundTrip
  <2> QED BY <1>3, <2>2, <2>3
<1>5. url_encode(UrlOf(d)) = h \o (e \o v)
  <2>1. d \o v \in Seq(Byte) /\ UrlOf(d) = h \o (d \o v)
    BY <1>1, <1>2, UrlFacts, ConcatType
  <2>2. url_encode(d \o v) = e \o v
    <3>1. url_encode(d \o v) = url_encode(d) \o url_encode(v)
      BY EncodeConcat, Zenon
    <3> QED BY <1>2, <1>3, <3>1
  <2>3. url_encode(h) = h
    BY <1>1, PlainFacts
  <2>4. url_encode(h \o (d \o v)) = url_encode(h) \o url_encode(d \o v)
    BY <2>1, EncodeConcat, Zenon
  <2> QED BY <2>1, <2>2, <2>3, <2>4
<1>6. e \o v \in Seq(Byte)
  BY ConcatType
<1>7. KeyDir(url_encode(UrlOf(d))) = <<Slash>> \o (e \o v)
  BY <1>1, <1>5, <1>6, AfterHost
<1>8. <<Slash>> \o (e \o v) = (<<Slash>> \o e) \o v
  <2>1. <<Slash>> \in Seq(Byte)
    BY DEF Slash, Byte
  <2> QED BY <2>1, Associative
<1>9. <<Slash>> \o e \o SlashUnless(e = <<>>) \o n = Base(e) \o (<<Slash>> \o n)
  BY BaseForm
<1>10. v = SlashUnless(e = <<>>)
  BY <1>2, <1>4
<1> QED BY <1>3, <1>7, <1>8, <1>9, <1>10

\* The key that ftpfs_getdir makes of a name.
LEMMA FillKey ==
  ASSUME request \in Requests, NEW n \in Seq(Byte)
  PROVE  (IF Len(path) = 1 THEN <<>> ELSE path) \o <<Slash>> \o n
           = Base(Tail(path)) \o (<<Slash>> \o n)
<1>1. IsPath(path)
  BY RequestFacts
<1>2. path = <<Slash>> \o Tail(path) /\ (Len(path) = 1 <=> Tail(path) = <<>>)
  BY <1>1, PathParts
<1>3. Tail(path) \in Seq(Byte)
  BY <1>1, PathSplit
<1>4. (IF Len(path) = 1 THEN <<>> ELSE path) = Base(Tail(path))
  BY <1>2 DEF Base
<1>5. Base(Tail(path)) \in Seq(Byte)
  BY <1>3, BaseFacts
<1>6. PICK b \in Seq(Byte) : b = Base(Tail(path))
  BY <1>5
<1>7. b \o <<Slash>> \o n = b \o (<<Slash>> \o n)
  <2>1. <<Slash>> \in Seq(Byte)
    BY DEF Slash, Byte
  <2> QED BY <2>1, ConcatAssociative
<1> QED BY <1>4, <1>6, <1>7

\* An entry of the cache is about a file that was listed and, unless no line can
\* tell its name, it is what the server has.
EntryTrue(s) ==
  LET f == files[s.file] IN
  /\ s.file \in DOMAIN files /\ InDir(s.file)
  /\ \/ Mangled(f)
     \/ \E year : s = Attr(Local(f.name), s.file, year)
     \/ f.type = "l" /\ s \in Link(Local(f.name), s.file, Local(f.target))

\* The directory as the listing names it, and the part of its URL that is used
\* for keys.
Listed ==
  /\ request \in Requests /\ IsListing
  /\ reached = UrlOf(Server(Asked)) /\ dir = KeyDir(url_encode(reached))

\* An entry was made by cache_dirfill, or by parse_dir.
Filled(s) == request.op = "getdir" /\ s.part = "attr"

\* The key of an entry: the directory in it is encoded when parse_dir made it.
LEMMA EntryKey ==
  ASSUME Listed, NEW s, EntryTrue(s), NEW f, f = files[s.file], ~Mangled(f)
  PROVE  /\ Filled(s) => s.key = Base(Local(f.dir)) \o (<<Slash>> \o Local(f.name))
         /\ ~Filled(s) /\ IsPlain(host) =>
              s.key = Base(url_encode(f.dir)) \o (<<Slash>> \o Local(f.name))
<1>1. request \in Requests /\ s.file \in DOMAIN files /\ InDir(s.file)
  BY DEF Listed, EntryTrue
<1>2. PICK n \in Seq(Byte) : n = Local(f.name)
  BY <1>1, PathOfParts
<1>3. PICK d \in Seq(Byte) : d = f.dir
  BY <1>1, ShownType
<1>4. (\E year : s = Attr(n, s.file, year)) \/ s \in Link(n, s.file, Local(f.target))
  BY <1>2 DEF EntryTrue
<1>5. ASSUME Filled(s) PROVE s.key = Base(Local(d)) \o (<<Slash>> \o n)
  <2>1. s.key = AttrKey(n)
    <3>1. \E year : s = Attr(n, s.file, year)
      BY <1>4, <1>5 DEF Filled, Link
    <3> QED BY <3>1 DEF Attr
  <2>2. AttrKey(n) = Base(Tail(path)) \o (<<Slash>> \o n)
    BY <1>1, <1>5, FillKey DEF AttrKey, Filled
  <2>3. Local(d) = Tail(path)
    BY <1>1, <1>3, <1>5, InDirIs DEF Listed, Filled, Asked
  <2> QED BY <2>1, <2>2, <2>3
<1>6. ASSUME ~Filled(s), IsPlain(host)
      PROVE  s.key = Base(url_encode(d)) \o (<<Slash>> \o n)
  <2>1. s.key = dir \o n
    <3>1. CASE \E year : s = Attr(n, s.file, year)
      <4>1. s.key = AttrKey(n) /\ s.part = "attr"
        BY <3>1 DEF Attr
      <4> QED BY <1>6, <4>1 DEF AttrKey, Filled
    <3>2. CASE s \in Link(n, s.file, Local(f.target))
      BY <3>2 DEF Link
    <3> QED BY <1>4, <3>1, <3>2
  <2>2. reached = UrlOf(d)
    BY <1>1, <1>3 DEF InDir
  <2>3. dir = KeyDir(url_encode(UrlOf(d)))
    BY <2>2 DEF Listed
  <2> QED BY <1>1, <1>6, <2>1, <2>3, EncodedKey
<1> QED BY <1>2, <1>3, <1>5, <1>6

\* An entry that answers for file k, although it is about another one.
LEMMA EntryOther ==
  ASSUME Listed, NEW s, EntryTrue(s), ~Mangled(files[s.file]), IsPlain(host),
         NEW k \in DOMAIN files, k # s.file, s.key = PathOf(files[k])
  PROVE  Percent \in {files[k].dir[i] : i \in DOMAIN files[k].dir}
<1>1. request \in Requests /\ s.file \in DOMAIN files
  BY DEF Listed, EntryTrue
<1>2. PICK f : f = files[s.file]
  OBVIOUS
<1>3. PICK n \in Seq(Byte) : n = Local(f.name) /\ NoSlash(n)
  BY <1>1, <1>2, PathOfParts
<1>4. PICK d \in Seq(Byte) : d = f.dir
  BY <1>1, <1>2, ShownType
<1>5. PICK c \in Seq(Byte) : c = files[k].dir
  BY <1>1, ShownType
<1>6. Local(d) \in Seq(Byte) /\ url_encode(d) \in Seq(Byte)
  BY LocalBytes, EncodeConcat
<1>7. PICK e \in Seq(Byte) : /\ e = IF Filled(s) THEN Local(d) ELSE url_encode(d)
                             /\ s.key = Base(e) \o (<<Slash>> \o n)
  <2>1. /\ Filled(s) => s.key = Base(Local(f.dir)) \o (<<Slash>> \o Local(f.name))
        /\ ~Filled(s) => s.key = Base(url_encode(f.dir)) \o (<<Slash>> \o Local(f.name))
    BY <1>2, EntryKey
  <2>2. CASE Filled(s)
    BY <1>3, <1>4, <1>6, <2>1, <2>2
  <2>3. CASE ~Filled(s)
    BY <1>3, <1>4, <1>6, <2>1, <2>3
  <2> QED BY <2>2, <2>3
<1>8. e = Local(c) /\ n = Local(files[k].name)
  <2>1. Base(e) \o (<<Slash>> \o n) = PathOf(files[k])
    BY <1>7
  <2>2. NoSlash(n)
    BY <1>3
  <2> QED BY <1>1, <1>5, <2>1, <2>2, PathOfTells
<1>9. f.name = files[k].name
  <2>1. f.name \in Seq(Byte) /\ files[k].name \in Seq(Byte)
    BY <1>1, <1>2, ShownType
  <2> QED BY <1>3, <1>8, <2>1, LocalInjective
<1>10. d # c
  BY <1>1, <1>2, <1>4, <1>5, <1>9, ServerFacts
<1>11. e = url_encode(d) /\ ~IsPlain(d)
  <2>1. Local(c) # Local(d)
    BY <1>10, LocalInjective
  <2> QED BY <1>7, <1>8, <2>1, PlainFacts
<1>12. Has(Local(c), <<Percent>>)
  <2>1. PICK i \in DOMAIN d : ~Kept(d[i])
    BY <1>11 DEF IsPlain
  <2>2. Has(url_encode(d), <<Percent>>)
    BY <2>1, EncodePercent
  <2> QED BY <1>8, <1>11, <2>2
<1>13. Percent \in Ascii /\ Percent \in Byte
  BY DEF Percent, Ascii, Byte
<1>14. Has(c, <<Percent>>)
  <2>1. <<Percent>> \in Seq(Ascii) /\ <<Percent>> # <<>>
    BY <1>13
  <2> QED BY <1>12, <2>1, LocalParts
<1>15. PICK u \in Seq(Byte), v \in Seq(Byte) : c = u \o (<<Percent>> \o v)
  BY <1>14 DEF Has
<1>16. /\ Len(u) \in Nat /\ Len(v) \in Nat /\ Len(c) = Len(u) + 1 + Len(v)
       /\ c[Len(u) + 1] = Percent
  BY <1>13, <1>15, AtPlace
<1>17. Len(u) + 1 \in DOMAIN c
  <2>1. Len(u) + 1 \in 1..Len(c)
    BY <1>16
  <2> QED BY <2>1, StringFacts
<1> QED BY <1>5, <1>16, <1>17

\* The target of a link, as it is stored.
LEMMA EntryLink ==
  ASSUME Listed, NEW s, EntryTrue(s), NEW f, f = files[s.file], ~Mangled(f),
         s.part = "link"
  PROVE  /\ f.type = "l"
         /\ s.link = (IF f.target[1] = Slash THEN symlink_prefix ELSE <<>>)
                       \o Local(f.target)
<1>1. request \in Requests /\ s.file \in DOMAIN files
  BY DEF Listed, EntryTrue
<1>2. PICK t \in Seq(Byte) : t = f.target
  BY <1>1, ShownType
<1>3. f.type = "l" /\ s \in Link(Local(f.name), s.file, Local(t))
  <2>1. \A year : s # Attr(Local(f.name), s.file, year)
    BY DEF Attr
  <2> QED BY <1>2, <2>1 DEF EntryTrue
<1>4. Local(t) # <<>> /\ s.link = RealLink(Local(t))
  BY <1>3 DEF Link
<1>5. t # <<>>
  BY <1>4, LocalConcat
<1>6. Slash \in Ascii
  BY DEF Slash, Ascii
<1>7. Local(t) \in Seq(Byte) /\ (Local(t)[1] = Slash <=> t[1] = Slash)
  BY <1>5, <1>6, LocalFirst
<1>8. <<>> \o Local(t) = Local(t)
  BY <1>7, ConcatEmptySeq
<1> QED BY <1>2, <1>3, <1>4, <1>7, <1>8 DEF RealLink

\* So every true entry is stored under its path, but for the exceptions.
LEMMA EntriesKeys ==
  ASSUME Listed, \A s \in stored : EntryTrue(s)
  PROVE  KeysTrue
<1> SUFFICES ASSUME NEW s \in stored, ~Mangled(files[s.file])
             PROVE  LET f == files[s.file] IN
                    /\ IsPlain(host \o f.dir) \/ (request.op = "getdir" /\ s.part = "attr")
                         => s.key = PathOf(f)
                    /\ \A k \in DOMAIN files \ {s.file} :
                         s.key = PathOf(files[k]) =>
                           \/ ~IsPlain(host)
                           \/ Percent \in {files[k].dir[i] : i \in DOMAIN files[k].dir}
                    /\ s.part = "link" =>
                         /\ f.type = "l"
                         /\ s.link = (IF f.target[1] = Slash THEN symlink_prefix ELSE <<>>)
                                       \o Local(f.target)
  BY DEF KeysTrue
<1>1. PICK f : f = files[s.file]
  OBVIOUS
<1>2. EntryTrue(s) /\ ~Mangled(f)
  BY <1>1
<1>3. request \in Requests /\ s.file \in DOMAIN files
  BY <1>2 DEF Listed, EntryTrue
<1>4. ASSUME IsPlain(host \o f.dir) \/ Filled(s) PROVE s.key = PathOf(f)
  <2>1. PathOf(f) = Base(Local(f.dir)) \o (<<Slash>> \o Local(f.name))
    BY <1>1, <1>3, PathOfParts
  <2>2. CASE Filled(s)
    BY <1>1, <1>2, <2>1, <2>2, EntryKey
  <2>3. CASE ~Filled(s)
    <3>1. host \in Seq(Byte) /\ f.dir \in Seq(Byte)
      BY <1>1, <1>3, RequestFacts, ShownType
    <3>2. IsPlain(host) /\ IsPlain(f.dir)
      BY <1>4, <2>3, <3>1, PlainHalves
    <3>3. url_encode(f.dir) = Local(f.dir)
      BY <3>1, <3>2, PlainFacts
    <3> QED BY <1>1, <1>2, <2>1, <2>3, <3>2, <3>3, EntryKey
  <2> QED BY <2>2, <2>3
<1>5. ASSUME NEW k \in DOMAIN files \ {s.file}, s.key = PathOf(files[k]), IsPlain(host)
      PROVE  Percent \in {files[k].dir[i] : i \in DOMAIN files[k].dir}
  BY <1>1, <1>2, <1>5, EntryOther
<1>6. ASSUME s.part = "link"
      PROVE  /\ f.type = "l"
             /\ s.link = (IF f.target[1] = Slash THEN symlink_prefix ELSE <<>>)
                           \o Local(f.target)
  BY <1>1, <1>2, <1>6, EntryLink
<1> QED BY <1>1, <1>4, <1>5, <1>6 DEF Filled

-----------------------------------------------------------------------------
(* The lines of a listing, and where they are in it.                       *)

Lines == [k \in DOMAIN files |-> IF InDir(k) THEN Line(k) ELSE <<>>]
Whole == FlattenSeq(Lines)

\* The line of file k ends at p[k], and it begins where the one before it ends.
Lies(p, k) ==
  /\ p[k - 1] \in Nat /\ p[k] = p[k - 1] + Len(Lines[k]) /\ p[k] <= Len(Whole)
  /\ \A j \in 1..Len(Lines[k]) : Whole[p[k - 1] + j] = Lines[k][j]

\* So it is for every file.
Layout(p) ==
  /\ p \in [0..Len(files) -> Nat]
  /\ p[0] = 0 /\ p[Len(files)] = Len(Whole)
  /\ \A k \in 1..Len(files) : Lies(p, k)

\* There are as many files as the server has.
LEMMA FilesFacts ==
  ASSUME request \in Requests
  PROVE  Len(files) \in Nat /\ DOMAIN files = 1..Len(files)
<1>1. files \in Seq(File)
  BY RequestFacts
<1> QED BY <1>1, StringFacts

\* What is listed of the files.
LEMMA LinesType ==
  ASSUME request \in Requests
  PROVE  /\ Lines \in Seq(Seq(Mark)) /\ Len(Lines) = Len(files)
         /\ Whole \in Seq(Mark)
         /\ \A k \in DOMAIN files : Lines[k] = IF InDir(k) THEN Line(k) ELSE <<>>
<1>1. PICK n \in Nat : n = Len(files) /\ DOMAIN files = 1..n
  BY FilesFacts
<1>2. \A k \in DOMAIN files : Lines[k] = IF InDir(k) THEN Line(k) ELSE <<>>
  BY DEF Lines
<1>3. \A k \in 1..n : Lines[k] \in Seq(Mark)
  <2>1. <<>> \in Seq(Mark)
    BY EmptySeq
  <2> QED BY <1>1, <1>2, <2>1, LineType
<1>4. Lines = [k \in 1..n |-> Lines[k]] /\ DOMAIN Lines = 1..n
  BY <1>1 DEF Lines
<1>5. Lines \in [1..n -> Seq(Mark)]
  BY <1>3, <1>4
<1>6. Lines \in Seq(Seq(Mark)) /\ Len(Lines) = n
  BY <1>5, SeqDef, LenProperties
<1> QED BY <1>1, <1>2, <1>6, FlatType DEF Whole

\* Every listing has a layout.
LEMMA LayoutExists ==
  ASSUME request \in Requests
  PROVE  \E p : Layout(p)
<1>1. PICK n \in Nat : n = Len(files)
  BY FilesFacts
<1>2. PICK S \in Seq(Seq(Mark)) : S = Lines /\ Len(S) = n
  BY <1>1, LinesType
<1>3. PICK f \in [0..n -> Seq(Mark)] : Flattens(S, f)
  BY <1>2, FlatFacts
<1>4. \A k \in 1..n : Placed(S, f, k)
  BY <1>2, <1>3, FlatPlaces
<1>5. \A k \in 0..n : Len(f[k]) \in Nat
  BY <1>3, StringFacts
<1>6. PICK p : p = [k \in 0..n |-> Len(f[k])]
  OBVIOUS
<1>7. p \in [0..n -> Nat] /\ \A k \in 0..n : p[k] = Len(f[k])
  BY <1>5, <1>6
<1>8. p[0] = 0 /\ p[n] = Len(Whole)
  <2>1. 0 \in 0..n /\ n \in 0..n /\ Len(<<>>) = 0
    OBVIOUS
  <2> QED BY <1>2, <1>3, <1>7, <2>1 DEF Flattens, Whole
<1>9. ASSUME NEW k \in 1..n PROVE Lies(p, k)
  <2>1. k - 1 \in 0..n /\ k \in 0..n
    OBVIOUS
  <2>2. p[k - 1] = Len(f[k - 1]) /\ p[k] = Len(f[k]) /\ p[k - 1] \in Nat
    BY <1>7, <2>1
  <2>3. Placed(S, f, k)
    BY <1>4
  <2> QED BY <1>2, <2>2, <2>3 DEF Lies, Placed, Whole
<1> QED BY <1>1, <1>7, <1>8, <1>9 DEF Layout

\* A listing is the beginning of the whole, and all of it if nothing is lost.
LEMMA ListFacts ==
  ASSUME request \in Requests, list = ListingOf(reached)
  PROVE  /\ list \in Seq(Mark) /\ Len(list) \in Nat /\ DOMAIN list = 1..Len(list)
         /\ Len(Whole) \in Nat /\ Len(list) <= Len(Whole)
         /\ \A j \in 1..Len(list) : list[j] = Whole[j]
         /\ request.lost = 0 => Len(list) = Len(Whole)
<1>1. PICK w \in Seq(Mark) : w = Whole
  BY LinesType
<1>2. PICK n \in Nat : n = Len(w) /\ \A j \in 1..n : w[j] \in Mark
  BY StringFacts
<1>3. PICK m \in Int : m = n - request.lost /\ m <= n /\ (request.lost = 0 => m = n)
  BY RequestFacts
<1>4. list = SubSeq(w, 1, m)
  BY <1>1, <1>2, <1>3 DEF ListingOf, Whole, Lines, InDir, UrlOf
<1>5. list \in Seq(Mark)
  <2>1. 1 \in Int /\ 1 <= 1 /\ m <= Len(w)
    BY <1>2, <1>3
  <2> QED BY <1>4, <2>1, PartType
<1>6. Len(list) = (IF m < 1 THEN 0 ELSE m) /\ \A j \in 1..m : list[j] = w[j]
  <2>1. \A j \in 1..m : w[j] \in Mark
    BY <1>2, <1>3
  <2> QED BY <1>4, <2>1, SubSeqProperties
<1>7. Len(list) \in Nat /\ DOMAIN list = 1..Len(list)
  BY <1>5, StringFacts
<1> QED BY <1>1, <1>2, <1>3, <1>5, <1>6, <1>7

\* The places of a line are in order.
LEMMA LayoutOrder ==
  ASSUME request \in Requests, NEW p, Layout(p),
         NEW m \in 0..Len(files), NEW n \in 0..Len(files), m <= n
  PROVE  p[m] \in Nat /\ p[n] \in Nat /\ p[m] <= p[n]
<1>1. PICK N \in Nat : N = Len(files)
  BY FilesFacts
<1>2. p \in [0..N -> Nat]
  BY <1>1 DEF Layout
<1> DEFINE G == {i \in 0..N : i < m \/ p[m] <= p[i]}
<1>3. m \in 0..N /\ n \in 0..N /\ p[m] \in Nat /\ p[n] \in Nat
  BY <1>1, <1>2
<1>4. 0 \in G
  <2>1. m = 0 => p[m] <= p[0]
    BY <1>3
  <2> QED BY <1>3, <2>1
<1>5. ASSUME NEW i \in 1..N, i - 1 \in G PROVE i \in G
  <2>1. i - 1 \in 0..N /\ i \in 0..N
    OBVIOUS
  <2>2. p[i - 1] \in Nat /\ p[i] \in Nat
    BY <1>2, <2>1
  <2>3. Len(Lines[i]) \in Nat
    <3>1. Lines[i] \in Seq(Mark)
      BY <1>1, LinesType
    <3> QED BY <3>1, StringFacts
  <2>4. p[i] = p[i - 1] + Len(Lines[i])
    BY <1>1 DEF Layout, Lies
  <2>5. CASE i = m
    BY <1>3, <2>1, <2>5
  <2>6. CASE i # m
    <3>1. i < m \/ p[m] <= p[i]
      BY <1>3, <1>5, <2>1, <2>2, <2>3, <2>4, <2>6
    <3> QED BY <2>1, <3>1
  <2> QED BY <2>5, <2>6
<1> HIDE DEF G
<1>6. \A i \in 0..N : i \in G
  BY <1>4, <1>5, UpTo
<1>7. n \in G
  BY <1>3, <1>6
<1> QED BY <1>3, <1>7 DEF G

\* What is not listed takes no place.
LEMMA LayoutEmpty ==
  ASSUME request \in Requests, NEW p, Layout(p),
         NEW m \in 0..Len(files), NEW n \in 0..Len(files), m <= n,
         \A i \in (m + 1)..n : ~InDir(i)
  PROVE  p[n] = p[m]
<1>1. PICK N \in Nat : N = Len(files) /\ DOMAIN files = 1..N
  BY FilesFacts
<1>2. p \in [0..N -> Nat]
  BY <1>1 DEF Layout
<1> DEFINE G == {i \in 0..N : i < m \/ i > n \/ p[i] = p[m]}
<1>3. m \in 0..N /\ n \in 0..N
  BY <1>1
<1>4. 0 \in G
  BY <1>3
<1>5. ASSUME NEW i \in 1..N, i - 1 \in G PROVE i \in G
  <2>1. i - 1 \in 0..N /\ i \in 0..N
    OBVIOUS
  <2>2. p[i - 1] \in Nat /\ p[i] \in Nat
    BY <1>2, <2>1
  <2>3. CASE i \in (m + 1)..n
    <3>1. Lines[i] = <<>>
      BY <1>1, <2>3, LinesType
    <3>2. p[i] = p[i - 1] + 0
      <4>1. p[i] = p[i - 1] + Len(Lines[i])
        BY <1>1 DEF Layout, Lies
      <4>2. Len(<<>>) = 0
        OBVIOUS
      <4> QED BY <3>1, <4>1, <4>2, Zenon
    <3>3. p[i - 1] = p[m]
      BY <1>3, <1>5, <2>3
    <3> QED BY <2>1, <2>2, <3>2, <3>3
  <2>4. CASE i \notin (m + 1)..n
    <3>1. i < m \/ i > n \/ i = m
      BY <1>3, <2>1, <2>4
    <3> QED BY <2>1, <3>1
  <2> QED BY <2>3, <2>4
<1> HIDE DEF G
<1>6. \A i \in 0..N : i \in G
  BY <1>4, <1>5, UpTo
<1>7. n \in G
  BY <1>3, <1>6
<1> QED BY <1>3, <1>7 DEF G

\* The length of the line end.
EolLen == IF request.eol = <<LF>> THEN 1 ELSE 2

\* Nothing that a line shows is a line feed.
LEMMA ShownFacts ==
  ASSUME request \in Requests, NEW k \in DOMAIN files
  PROVE  /\ Len(Shown(files[k])) \in Nat \ {0}
         /\ \A j \in 1..Len(Shown(files[k])) : Shown(files[k])[j] # LF
<1>1. PICK n \in Seq(Byte) : n = files[k].name /\ n \in FileNames
  BY ShownType
<1>2. PICK t \in Seq(Byte) : t = files[k].target /\ t \in LinkTargets
  BY ShownType
<1>3. PICK a \in Nat : a = Len(n) /\ DOMAIN n = 1..a
  BY StringFacts
<1>4. PICK b \in Nat : b = Len(t) /\ DOMAIN t = 1..b
  BY StringFacts
<1>5. a # 0 /\ \A j \in 1..a : n[j] # LF
  BY <1>1, <1>3, EmptySeq DEF FileNames
<1>6. \A j \in 1..b : t[j] # LF
  BY <1>2, <1>4 DEF LinkTargets
<1>7. CASE files[k].type = "l"
  <2>1. PICK m \in Seq(Byte) : m = Marker /\ Len(m) = 4 /\ \A j \in 1..4 : m[j] # LF
    <3>1. Marker \in Seq(Byte) /\ Len(Marker) = 4
      BY ShownType, MarkerFacts
    <3>2. \A j \in 1..4 : Marker[j] # LF
      BY DEF Marker, LF
    <3> QED BY <3>1, <3>2
  <2>2. PICK g \in Seq(Byte) : g = m \o t
    BY ConcatType
  <2>3. /\ Len(g) = 4 + b /\ \A j \in 1..4 : g[j] = m[j]
        /\ \A j \in 1..b : g[4 + j] = t[j]
    <3>1. Len(m) = 4 /\ Len(t) = b
      BY <1>4, <2>1
    <3>2. /\ Len(g) = Len(m) + Len(t) /\ \A j \in 1..Len(m) : g[j] = m[j]
          /\ \A j \in 1..Len(t) : g[Len(m) + j] = t[j]
      BY <2>2, Concat
    <3> QED BY <3>1, <3>2, Zenon
  <2>4. ASSUME NEW j \in 1..(4 + b) PROVE g[j] # LF
    <3>1. CASE j \in 1..4
      BY <2>1, <2>3, <3>1
    <3>2. CASE j \notin 1..4
      <4>1. PICK i \in 1..b : j = 4 + i
        <5>1. j - 4 \in 1..b /\ j = 4 + (j - 4)
          BY <3>2
        <5> QED BY <5>1
      <4> QED BY <1>6, <2>3, <4>1
    <3> QED BY <3>1, <3>2
  <2>5. PICK c \in Nat : c = 4 + b
    OBVIOUS
  <2>6. PICK s \in Seq(Byte) : s = n \o g
    BY ConcatType
  <2>7. /\ Len(s) = a + c /\ \A j \in 1..a : s[j] = n[j]
        /\ \A j \in 1..c : s[a + j] = g[j]
    <3>1. Len(g) = c /\ Len(n) = a
      BY <1>3, <2>3, <2>5
    <3>2. /\ Len(s) = Len(n) + Len(g) /\ \A j \in 1..Len(n) : s[j] = n[j]
          /\ \A j \in 1..Len(g) : s[Len(n) + j] = g[j]
      BY <2>6, Concat
    <3> QED BY <3>1, <3>2, Zenon
  <2>8. ASSUME NEW j \in 1..(a + c) PROVE s[j] # LF
    <3>1. CASE j \in 1..a
      BY <1>5, <2>7, <3>1
    <3>2. CASE j \notin 1..a
      <4>1. PICK i \in 1..c : j = a + i
        <5>1. j - a \in 1..c /\ j = a + (j - a)
          BY <3>2
        <5> QED BY <5>1
      <4> QED BY <2>4, <2>5, <2>7, <4>1
    <3> QED BY <3>1, <3>2
  <2>9. Shown(files[k]) = s
    BY <1>1, <1>2, <1>7, <2>1, <2>2, <2>6 DEF Shown
  <2>10. a + c \in Nat \ {0}
    BY <1>5
  <2> QED BY <2>7, <2>8, <2>9, <2>10
<1>8. CASE files[k].type # "l"
  <2>1. Shown(files[k]) = n
    BY <1>1, <1>8, ConcatEmptySeq DEF Shown
  <2> QED BY <1>3, <1>5, <2>1
<1> QED BY <1>7, <1>8

\* What is where in the line of a file.
LineHas(k, b, e) ==
  /\ b = Len(Shown(files[k])) /\ b \in Nat \ {0} /\ e = EolLen /\ e \in {1, 2}
  /\ Len(Line(k)) = 1 + b + e
  /\ Line(k)[1] = -k
  /\ \A j \in 1..b : Line(k)[1 + j] = Shown(files[k])[j]
  /\ Line(k)[1 + b + e] = LF
  /\ e = 2 => Line(k)[2 + b] = CR

\* A line is made so.
LEMMA LineIs ==
  ASSUME request \in Requests, NEW k \in DOMAIN files
  PROVE  LineHas(k, Len(Shown(files[k])), EolLen)
<1>1. PICK s \in Seq(Int) : s = Shown(files[k])
  BY ShownType, BytesInt
<1>2. PICK b \in Nat \ {0} : b = Len(s)
  BY <1>1, ShownFacts
<1>3. PICK x \in Int : x = -k
  BY FilesFacts
<1>4. PICK h \in Seq(Int) : h = <<x>> /\ Len(h) = 1 /\ h[1] = x
  <2>1. <<x>> \in Seq(Int) /\ Len(<<x>>) = 1 /\ <<x>>[1] = x
    OBVIOUS
  <2> QED BY <2>1, Zenon
<1>5. PICK e \in {1, 2} : e = EolLen
  BY DEF EolLen
<1>6. PICK l \in Seq(Int) : /\ l = request.eol /\ Len(l) = e /\ l[e] = LF
                            /\ e = 2 => l[1] = CR
  <2>1. CASE request.eol = <<LF>>
    <3>1. <<LF>> \in Seq(Int) /\ Len(<<LF>>) = 1 /\ <<LF>>[1] = LF
      BY DEF LF
    <3>2. e = 1
      BY <1>5, <2>1 DEF EolLen
    <3>3. e # 2
      BY <3>2
    <3> QED BY <2>1, <3>1, <3>2, <3>3, Zenon
  <2>2. CASE request.eol = <<CR, LF>>
    <3>1. <<CR, LF>> # <<LF>>
      BY DEF LF, CR
    <3>2. /\ <<CR, LF>> \in Seq(Int) /\ Len(<<CR, LF>>) = 2
          /\ <<CR, LF>>[1] = CR /\ <<CR, LF>>[2] = LF
      BY DEF LF, CR
    <3>3. e = 2
      BY <1>5, <2>2, <3>1 DEF EolLen
    <3> QED BY <2>2, <3>2, <3>3, Zenon
  <2> QED BY <2>1, <2>2, ServerFacts
<1>7. PICK u \in Seq(Int) : u = h \o s
  BY ConcatProperties
<1>8. /\ Len(u) = 1 + b /\ \A j \in 1..1 : u[j] = h[j]
      /\ \A j \in 1..b : u[1 + j] = s[j]
  BY <1>2, <1>4, <1>7, Concat
<1>9. PICK c \in Nat : c = 1 + b
  OBVIOUS
<1>10. PICK v \in Seq(Int) : v = u \o l
  BY ConcatProperties
<1>11. /\ Len(v) = c + e /\ \A j \in 1..c : v[j] = u[j]
       /\ \A j \in 1..e : v[c + j] = l[j]
  <2>1. Len(u) = c /\ Len(l) = e /\ e \in Nat
    BY <1>6, <1>8, <1>9
  <2>2. /\ Len(v) = Len(u) + Len(l) /\ \A j \in 1..Len(u) : v[j] = u[j]
        /\ \A j \in 1..Len(l) : v[Len(u) + j] = l[j]
    BY <1>10, Concat
  <2> QED BY <2>1, <2>2, Zenon
<1>12. v = Line(k)
  BY <1>1, <1>3, <1>4, <1>6, <1>7, <1>10 DEF Line
<1>13. v[1] = x /\ \A j \in 1..b : v[1 + j] = s[j]
  <2>1. 1 \in 1..c /\ 1 \in 1..1 /\ \A j \in 1..b : 1 + j \in 1..c
    BY <1>9
  <2> QED BY <1>4, <1>8, <1>11, <2>1
<1>14. v[1 + b + e] = LF /\ (e = 2 => v[2 + b] = CR)
  <2>1. 1 + b + e = c + e /\ 2 + b = c + 1 /\ 1 \in 1..e /\ e \in 1..e
    BY <1>9
  <2> QED BY <1>6, <1>11, <2>1
<1>15. Len(v) = 1 + b + e
  BY <1>9, <1>11
<1> QED BY <1>1, <1>2, <1>3, <1>5, <1>12, <1>13, <1>14, <1>15 DEF LineHas

\* The only line feed of a line is its last byte.
LEMMA FeedLast ==
  ASSUME request \in Requests, NEW k \in DOMAIN files
  PROVE  /\ Len(Line(k)) \in Nat /\ Len(Line(k)) > 2
         /\ \A j \in 1..Len(Line(k)) : Line(k)[j] = LF <=> j = Len(Line(k))
<1>1. PICK b \in Nat \ {0} : b = Len(Shown(files[k]))
  BY ShownFacts
<1>2. PICK e \in {1, 2} : e = EolLen
  BY DEF EolLen
<1>3. LineHas(k, b, e)
  BY <1>1, <1>2, LineIs
<1>4. PICK l \in Nat : l = Len(Line(k)) /\ l = 1 + b + e /\ l > 2
  <2>1. 1 + b + e \in Nat /\ 1 + b + e > 2
    BY <1>2
  <2> QED BY <1>3, <2>1 DEF LineHas
<1>5. Line(k)[l] = LF
  BY <1>3, <1>4 DEF LineHas
<1>6. ASSUME NEW j \in 1..l, j # l PROVE Line(k)[j] # LF
  <2>1. CASE j = 1
    <3>1. -k # LF
      BY FilesFacts DEF LF
    <3> QED BY <1>3, <2>1, <3>1 DEF LineHas
  <2>2. CASE j \in 2..(1 + b)
    <3>1. j - 1 \in 1..b /\ j = 1 + (j - 1)
      BY <2>2
    <3>2. Line(k)[j] = Shown(files[k])[j - 1]
      BY <1>3, <3>1 DEF LineHas
    <3> QED BY <1>1, <3>1, <3>2, ShownFacts
  <2>3. CASE j # 1 /\ j \notin 2..(1 + b)
    <3>1. e = 2 /\ j = 2 + b
      BY <1>4, <1>6, <2>3
    <3>2. CR # LF
      BY DEF CR, LF
    <3> QED BY <1>3, <3>1, <3>2 DEF LineHas
  <2> QED BY <2>1, <2>2, <2>3
<1> QED BY <1>4, <1>5, <1>6

\* After the lines of n files comes that of file k.
Here(p, n, k) ==
  /\ k \in (n + 1)..Len(files) /\ InDir(k)
  /\ \A i \in (n + 1)..(k - 1) : ~InDir(i)
  /\ p[n] \in Nat /\ p[k] = p[n] + Len(Line(k))
  /\ p[k] <= Len(list) /\ First(LineFeeds) = p[k]
  /\ \A j \in 1..Len(Line(k)) : list[p[n] + j] = Line(k)[j]

\* Where parse_dir has come to.
At(p, n) ==
  /\ request \in Requests /\ list = ListingOf(reached)
  /\ Layout(p) /\ n \in 0..Len(files) /\ start = p[n] + 1

\* A line that is listed next, and not cut, is in the list; so its line feed is.
LEMMA LineThere ==
  ASSUME NEW p, NEW n, At(p, n), NEW k \in (n + 1)..Len(files), InDir(k),
         \A i \in (n + 1)..(k - 1) : ~InDir(i)
  PROVE  /\ p[n] \in Nat /\ p[k] = p[n] + Len(Line(k)) /\ p[k] <= Len(Whole)
         /\ \A j \in 1..Len(Line(k)) : Whole[p[n] + j] = Line(k)[j]
<1>1. PICK N \in Nat : N = Len(files) /\ DOMAIN files = 1..N
  BY FilesFacts DEF At
<1>2. n \in 0..N /\ k \in 1..N /\ n <= k - 1 /\ k - 1 \in 0..N /\ (k - 1) \in Int
  BY <1>1 DEF At
<1>3. p[k - 1] = p[n]
  BY <1>1, <1>2, LayoutEmpty DEF At
<1>4. Lines[k] = Line(k)
  BY <1>1, <1>2, LinesType DEF At
<1>5. Lies(p, k)
  BY <1>1, <1>2 DEF At, Layout
<1> QED BY <1>3, <1>4, <1>5 DEF Lies

\* The next line feed ends the next line.
LEMMA NextIs ==
  ASSUME NEW p, NEW n, At(p, n), LineFeeds # {}
  PROVE  \E k \in DOMAIN files : Here(p, n, k)
<1>1. PICK N \in Nat : N = Len(files) /\ DOMAIN files = 1..N
  BY FilesFacts DEF At
<1>2. n \in 0..N /\ p[n] \in Nat /\ p[N] = Len(Whole)
  BY <1>1 DEF At, Layout
<1>3. PICK m \in Nat : /\ m = Len(list) /\ DOMAIN list = 1..m /\ m <= Len(Whole)
                       /\ \A j \in 1..m : list[j] = Whole[j]
  BY ListFacts DEF At
<1>4. LineFeeds \in SUBSET Nat
  BY <1>3 DEF LineFeeds
<1>5. PICK i \in 1..m : i >= start /\ list[i] = LF /\ i = First(LineFeeds)
  <2>1. First(LineFeeds) \in LineFeeds
    BY <1>4, FirstFacts
  <2> QED BY <1>3, <2>1 DEF LineFeeds
<1>6. start = p[n] + 1
  BY DEF At
<1> DEFINE T == {l \in (n + 1)..N : InDir(l)}
<1>7. T # {}
  <2> SUFFICES ASSUME T = {} PROVE FALSE
    OBVIOUS
  <2>1. N \in 0..N /\ n <= N /\ \A l \in (n + 1)..N : ~InDir(l)
    BY <1>2
  <2>2. p[N] = p[n]
    BY <1>1, <2>1, LayoutEmpty DEF At
  <2> QED BY <1>2, <1>3, <1>5, <1>6, <2>2
<1>8. PICK k \in T : \A l \in T : k <= l
  <2>1. T \in SUBSET Nat
    BY <1>2
  <2> HIDE DEF T
  <2> QED BY <1>7, <2>1, NatMin
<1>9. k \in (n + 1)..N /\ InDir(k) /\ \A l \in (n + 1)..(k - 1) : ~InDir(l)
  BY <1>2, <1>8
<1> HIDE DEF T
<1>10. /\ p[k] = p[n] + Len(Line(k)) /\ p[k] <= Len(Whole)
       /\ \A j \in 1..Len(Line(k)) : Whole[p[n] + j] = Line(k)[j]
  BY <1>1, <1>9, LineThere
<1>11. k \in DOMAIN files
  BY <1>1, <1>2, <1>9
<1>12. PICK L \in Nat : /\ L = Len(Line(k)) /\ L > 2
                        /\ \A j \in 1..L : Line(k)[j] = LF <=> j = L
  BY <1>11, FeedLast DEF At
<1>13. PICK a \in Nat : a = p[n]
  BY <1>2
<1>14. p[k] = a + L /\ \A j \in 1..L : Whole[a + j] = Line(k)[j]
  BY <1>10, <1>12, <1>13
<1>15. ASSUME NEW j \in 1..m, j > a, j < a + L PROVE list[j] # LF
  <2>1. PICK h \in 1..L : j = a + h /\ h # L
    <3>1. j - a \in 1..L /\ j = a + (j - a) /\ j - a # L
      BY <1>15
    <3> QED BY <3>1
  <2>2. list[j] = Line(k)[h]
    BY <1>3, <1>14, <2>1
  <2> QED BY <1>12, <2>1, <2>2
<1>16. i > a /\ a + L <= i
  BY <1>5, <1>6, <1>13, <1>15
<1>17. a + L \in LineFeeds /\ \A j \in LineFeeds : ~(j < a + L)
  <2>1. a + L \in 1..m /\ L \in 1..L
    BY <1>12, <1>16
  <2>2. list[a + L] = LF
    BY <1>3, <1>12, <1>14, <2>1
  <2>3. a + L >= start
    BY <1>6, <1>12, <1>13
  <2>4. \A j \in LineFeeds : j \in 1..m /\ j > a /\ list[j] = LF
    BY <1>3, <1>6, <1>13 DEF LineFeeds
  <2> QED BY <1>3, <1>15, <2>1, <2>2, <2>3, <2>4 DEF LineFeeds
<1>18. First(LineFeeds) = a + L
  BY <1>4, <1>17, FirstIs
<1>19. ASSUME NEW j \in 1..L PROVE list[a + j] = Line(k)[j]
  <2>1. a + j \in 1..m
    BY <1>16
  <2> QED BY <1>3, <1>14, <2>1
<1>20. /\ p[n] \in Nat /\ p[k] = p[n] + Len(Line(k))
       /\ p[k] <= Len(list) /\ First(LineFeeds) = p[k]
  BY <1>2, <1>3, <1>10, <1>14, <1>16, <1>18
<1>21. \A j \in 1..Len(Line(k)) : list[p[n] + j] = Line(k)[j]
  BY <1>12, <1>13, <1>19
<1>22. Here(p, n, k)
  BY <1>1, <1>9, <1>20, <1>21 DEF Here
<1> QED BY <1>11, <1>22

\* When nothing is lost and no line feed is left, every line has been seen.
LEMMA AllSeen ==
  ASSUME NEW p, NEW n, At(p, n), LineFeeds = {}, request.lost = 0,
         NEW k \in DOMAIN files, InDir(k)
  PROVE  k \in 1..n
<1> SUFFICES ASSUME k \notin 1..n PROVE FALSE
  OBVIOUS
<1>1. PICK N \in Nat : N = Len(files) /\ DOMAIN files = 1..N
  BY FilesFacts DEF At
<1>2. n \in 0..N /\ start = p[n] + 1
  BY <1>1 DEF At
<1>3. k \in (n + 1)..N /\ k \in 1..N /\ k - 1 \in 0..N /\ n <= k - 1
  BY <1>1, <1>2
<1>4. p[n] \in Nat /\ p[k - 1] \in Nat /\ p[n] <= p[k - 1]
  BY <1>1, <1>2, <1>3, LayoutOrder DEF At
<1>5. PICK L \in Nat : /\ L = Len(Line(k)) /\ L > 2
                       /\ \A j \in 1..L : Line(k)[j] = LF <=> j = L
  BY FeedLast DEF At
<1>6. Lines[k] = Line(k)
  BY LinesType DEF At
<1>7. /\ p[k] = p[k - 1] + L /\ p[k] <= Len(Whole)
      /\ \A j \in 1..L : Whole[p[k - 1] + j] = Line(k)[j]
  <2>1. Lies(p, k)
    BY <1>1, <1>3 DEF At, Layout
  <2> QED BY <1>5, <1>6, <2>1 DEF Lies
<1>8. PICK m \in Nat : /\ m = Len(list) /\ DOMAIN list = 1..m /\ m = Len(Whole)
                       /\ \A j \in 1..m : list[j] = Whole[j]
  BY ListFacts DEF At
<1>9. PICK a \in Nat : a = p[k - 1]
  BY <1>4
<1>10. a + L \in 1..m /\ L \in 1..L /\ a + L >= start
  BY <1>2, <1>4, <1>5, <1>7, <1>8, <1>9
<1>11. list[a + L] = LF
  BY <1>5, <1>7, <1>8, <1>9, <1>10
<1>12. a + L \in LineFeeds
  BY <1>8, <1>10, <1>11 DEF LineFeeds
<1> QED BY <1>12

\* The list has, after a marks, what is before the name of file k, and the first c
\* bytes of what is shown of it.
TextTo(a, k, c) ==
  \E x \in Seq(Byte) : /\ SubSeq(list, a + 1, a + (1 + c)) = <<-k>> \o x
                       /\ c = Len(Shown(files[k])) => x = Shown(files[k])

\* The list has a part of the line, from its beginning.
LEMMA TextPart ==
  ASSUME NEW p, NEW n, At(p, n), NEW k \in DOMAIN files, Here(p, n, k),
         NEW c \in Nat, c <= Len(Shown(files[k]))
  PROVE  TextTo(p[n], k, c)
<1>1. PICK s \in Seq(Byte) : s = Shown(files[k])
  BY ShownType DEF At
<1>2. PICK b \in Nat \ {0} : b = Len(s) /\ c <= b
  BY <1>1, ShownFacts DEF At
<1>3. PICK a \in Nat : a = p[n]
  BY DEF Here
<1>4. /\ \A j \in 1..b : Line(k)[1 + j] = s[j]
      /\ Line(k)[1] = -k /\ Len(Line(k)) \in Nat /\ Len(Line(k)) >= 1 + b
  <2>1. LineHas(k, Len(Shown(files[k])), EolLen)
    BY LineIs DEF At
  <2>2. PICK e \in {1, 2} : e = EolLen
    BY DEF EolLen
  <2>3. Len(Line(k)) = 1 + b + e
    BY <1>1, <1>2, <2>1, <2>2 DEF LineHas
  <2> QED BY <1>1, <1>2, <2>1, <2>2, <2>3 DEF LineHas
<1>5. list \in Seq(Mark) /\ Len(list) \in Nat
  BY ListFacts DEF At
<1>6. a + (1 + c) <= Len(list)
  <2>1. PICK l \in Nat : l = Len(Line(k)) /\ l >= 1 + b
    BY <1>4
  <2>2. a + l <= Len(list)
    BY <1>3, <2>1 DEF Here
  <2> QED BY <1>2, <1>5, <2>1, <2>2
<1>7. PICK t \in Seq(Mark) : /\ t = SubSeq(list, a + 1, a + (1 + c)) /\ Len(t) = 1 + c
                             /\ \A j \in 1..(1 + c) : t[j] = list[a + j]
  <2>1. PICK l \in Nat : l = 1 + c
    OBVIOUS
  <2>2. a + l <= Len(list)
    BY <1>6, <2>1
  <2>3. /\ SubSeq(list, a + 1, a + l) \in Seq(Mark) /\ Len(SubSeq(list, a + 1, a + l)) = l
        /\ \A j \in 1..l : SubSeq(list, a + 1, a + l)[j] = list[a + j]
    BY <1>5, <2>2, PartFacts, SMTT(60)
  <2> QED BY <2>1, <2>3
<1>8. t[1] = -k /\ \A j \in 1..c : t[1 + j] = s[j]
  <2>1. \A j \in 1..(1 + c) : t[j] = Line(k)[j]
    <3>1. \A j \in 1..(1 + c) : j \in 1..Len(Line(k))
      BY <1>2, <1>4
    <3> QED BY <1>3, <1>7, <3>1 DEF Here
  <2>2. 1 \in 1..(1 + c) /\ \A j \in 1..c : 1 + j \in 1..(1 + c) /\ j \in 1..b
    BY <1>2
  <2> QED BY <1>4, <2>1, <2>2
<1>9. PICK x \in Seq(Byte) : /\ x = SubSeq(s, 1, c) /\ Len(x) = c
                             /\ \A j \in 1..c : x[j] = s[j]
  <2>1. PICK z \in Nat : z = 0
    OBVIOUS
  <2>2. z + c <= Len(s) /\ z + 1 = 1 /\ z + c = c
    BY <1>2, <2>1
  <2>3. /\ SubSeq(s, z + 1, z + c) \in Seq(Byte) /\ Len(SubSeq(s, z + 1, z + c)) = c
        /\ \A j \in 1..c : SubSeq(s, z + 1, z + c)[j] = s[z + j]
    BY <2>2, PartFacts
  <2>4. \A j \in 1..c : z + j = j
    BY <2>1
  <2> QED BY <2>2, <2>3, <2>4
<1>10. PICK h \in Seq(Mark) : h = <<-k>> /\ Len(h) = 1 /\ h[1] = -k
  <2>1. -k \in Mark
    BY DEF Mark
  <2>2. <<-k>> \in Seq(Mark) /\ Len(<<-k>>) = 1 /\ <<-k>>[1] = -k
    BY <2>1
  <2> QED BY <2>2, Zenon
<1>11. PICK y \in Seq(Mark) : y = x
  BY ByteIsMark
<1>12. PICK u \in Seq(Mark) : u = h \o y
  BY MarksConcat
<1>13. /\ Len(u) = 1 + c /\ u[1] = -k /\ \A j \in 1..c : u[1 + j] = s[j]
  <2>1. /\ Len(u) = Len(h) + Len(y) /\ \A j \in 1..Len(h) : u[j] = h[j]
        /\ \A j \in 1..Len(y) : u[Len(h) + j] = y[j]
    BY <1>12, Concat
  <2>2. Len(h) = 1 /\ Len(y) = c
    BY <1>9, <1>10, <1>11
  <2>3. 1 \in 1..1
    OBVIOUS
  <2>4. /\ Len(u) = 1 + c /\ \A j \in 1..1 : u[j] = h[j]
        /\ \A j \in 1..c : u[1 + j] = y[j]
    BY <2>1, <2>2, Zenon
  <2> QED BY <1>9, <1>10, <1>11, <2>3, <2>4
<1>14. t = u
  <2>1. ASSUME NEW j \in 1..(1 + c) PROVE t[j] = u[j]
    <3>1. CASE j = 1
      BY <1>8, <1>13, <3>1
    <3>2. CASE j # 1
      <4>1. PICK i \in 1..c : j = 1 + i
        <5>1. j - 1 \in 1..c /\ j = 1 + (j - 1)
          BY <3>2
        <5> QED BY <5>1
      <4> QED BY <1>8, <1>13, <4>1
    <3> QED BY <3>1, <3>2
  <2> QED BY <1>7, <1>13, <2>1, SeqEqual
<1>15. c = b => x = s
  BY <1>2, <1>9, SeqEqual
<1> QED BY <1>1, <1>2, <1>3, <1>7, <1>10, <1>11, <1>12, <1>14, <1>15 DEF TextTo

\* What parse_dir takes for the line of file k: whatever the line end is, all
\* that the line shows, unless it cannot be told.
Takes(k, text) ==
  \E x \in Seq(Byte) : text = <<-k>> \o x /\ (Mangled(files[k]) \/ x = Shown(files[k]))

\* The text is taken so, and the next line starts where the next one is.
LEMMA TextIs ==
  ASSUME NEW p, NEW n, At(p, n), NEW k \in DOMAIN files, Here(p, n, k)
  PROVE  /\ (IF list[LineEnd] = CR THEN LineEnd + 2 ELSE LineEnd + 1) = p[k] + 1
         /\ Takes(k, SubSeq(list, start, LineEnd - 1))
<1>1. PICK b \in Nat \ {0} : b = Len(Shown(files[k]))
  BY ShownFacts DEF At
<1>2. PICK e \in {1, 2} : e = EolLen
  BY DEF EolLen
<1>3. LineHas(k, b, e)
  BY <1>1, <1>2, LineIs DEF At
<1>4. PICK a \in Nat : a = p[n] /\ start = a + 1
  BY DEF Here, At
<1>5. PICK L \in Nat : L = Len(Line(k)) /\ L = 1 + b + e
  <2>1. 1 + b + e \in Nat
    BY <1>2
  <2> QED BY <1>3, <2>1 DEF LineHas
<1>6. p[k] = a + L /\ \A j \in 1..L : list[a + j] = Line(k)[j]
  BY <1>4, <1>5 DEF Here
<1>7. PICK end \in Nat : end = a + L /\ end = First(LineFeeds)
  BY <1>6 DEF Here
<1>8. LineEnd = IF list[end - 1] = CR THEN end - 1 ELSE end
  <2>1. end > start
    BY <1>4, <1>5, <1>7
  <2> QED BY <1>7, <2>1 DEF LineEnd
<1>9. list[end] = LF /\ LF # CR
  <2>1. L \in 1..L
    BY <1>5
  <2>2. LF # CR
    BY DEF LF, CR
  <2>3. Line(k)[L] = LF
    BY <1>3, <1>5 DEF LineHas
  <2> QED BY <1>6, <1>7, <2>1, <2>2, <2>3
<1>10. ASSUME NEW c \in Nat, c <= b, LineEnd = a + 2 + c, c = b \/ Mangled(files[k])
       PROVE  Takes(k, SubSeq(list, start, LineEnd - 1))
  <2>1. PICK x \in Seq(Byte) : /\ SubSeq(list, p[n] + 1, p[n] + (1 + c)) = <<-k>> \o x
                               /\ c = b => x = Shown(files[k])
    <3>1. c <= Len(Shown(files[k]))
      BY <1>1, <1>10
    <3>2. TextTo(p[n], k, c)
      BY <3>1, TextPart
    <3> QED BY <1>1, <3>2 DEF TextTo
  <2>2. LineEnd - 1 = p[n] + (1 + c) /\ start = p[n] + 1
    <3>1. LineEnd - 1 = a + (1 + c)
      <4>1. (a + 2 + c) - 1 = a + (1 + c)
        OBVIOUS
      <4> QED BY <1>10, <4>1
    <3> QED BY <1>4, <3>1, Zenon
  <2> QED BY <1>10, <2>1, <2>2 DEF Takes
<1>11. CASE e = 2
  <2>1. list[end - 1] = CR
    <3>1. 2 + b \in 1..L /\ end - 1 = a + (2 + b)
      BY <1>5, <1>7, <1>11
    <3>2. Line(k)[2 + b] = CR
      BY <1>3, <1>11 DEF LineHas
    <3> QED BY <1>6, <3>1, <3>2
  <2>2. LineEnd = end - 1 /\ list[LineEnd] = CR
    BY <1>8, <2>1
  <2>3. LineEnd = a + 2 + b /\ LineEnd + 2 = a + L + 1
    BY <1>5, <1>7, <1>11, <2>2
  <2> QED BY <1>6, <1>10, <2>2, <2>3
<1>12. CASE e = 1
  <2>1. list[end - 1] = Shown(files[k])[b]
    <3>1. 1 + b \in 1..L /\ end - 1 = a + (1 + b) /\ b \in 1..b
      BY <1>5, <1>7, <1>12
    <3>2. Line(k)[1 + b] = Shown(files[k])[b]
      BY <1>3, <3>1 DEF LineHas
    <3> QED BY <1>6, <3>1, <3>2
  <2>2. CASE list[end - 1] = CR
    <3>1. LineEnd = end - 1 /\ list[LineEnd] = CR
      BY <1>8, <2>2
    <3>2. PICK c \in Nat : c = b - 1 /\ c <= b
      OBVIOUS
    <3>3. LineEnd = a + 2 + c /\ LineEnd + 2 = a + L + 1
      BY <1>5, <1>7, <1>12, <3>1, <3>2
    <3>4. Mangled(files[k])
      <4>1. request.eol = <<LF>>
        BY <1>2, <1>12 DEF EolLen
      <4> QED BY <1>1, <2>1, <2>2, <4>1 DEF Mangled
    <3> QED BY <1>6, <1>10, <3>1, <3>2, <3>3, <3>4
  <2>3. CASE list[end - 1] # CR
    <3>1. LineEnd = end /\ list[LineEnd] # CR
      BY <1>8, <1>9, <2>3
    <3>2. LineEnd = a + 2 + b /\ LineEnd + 1 = a + L + 1
      BY <1>5, <1>7, <1>12, <3>1
    <3> QED BY <1>6, <1>10, <3>1, <3>2
  <2> QED BY <2>2, <2>3
<1> QED BY <1>11, <1>12

\* What stands before the name is not converted.
LEMMA LocalLine ==
  ASSUME request \in Requests, NEW k \in DOMAIN files, NEW x \in Seq(Byte)
  PROVE  Local(<<-k>> \o x) = <<-k>> \o Local(x) /\ Local(x) \in Seq(Byte)
<1>1. PICK c \in Int : c = -k /\ c <= 127
  BY FilesFacts
<1>2. x \in Seq(Int) /\ <<c>> \in Seq(Int)
  BY BytesInt
<1>3. Local(<<c>> \o x) = Local(<<c>>) \o Local(x)
  BY <1>2, LocalConcat
<1>4. Local(<<c>>) = <<c>>
  BY <1>1, LocalConcat, WideType
<1> QED BY <1>1, <1>3, <1>4, LocalBytes

\* A line in a known format is entered for its file, and truly unless it cannot
\* be told; a line that can be told, in a known format, is entered.
Enters(k, line) ==
  /\ -line[1] = k
  /\ IsParsed(line) => files[k].format \in {"unix", "win"}
  /\ IsParsed(line) => \A s \in Link(ParsedName(line), k, ParsedLink(line))
                         \union {Attr(ParsedName(line), k, ParsedYear(line))} :
                          EntryTrue(s)
  /\ Mangled(files[k]) \/ (IsParsed(line) <=> files[k].format \in {"unix", "win"})
  /\ Mangled(files[k]) \/ (IsParsed(line) => ParsedName(line) = Local(files[k].name))

\* What was taken for a line is entered so.
LEMMA LineEnters ==
  ASSUME request \in Requests, NEW k \in DOMAIN files, InDir(k), NEW text, Takes(k, text)
  PROVE  Enters(k, Local(text))
<1>1. PICK x \in Seq(Byte) : /\ text = <<-k>> \o x
                             /\ Mangled(files[k]) \/ x = Shown(files[k])
  BY DEF Takes
<1>2. PICK line : line = Local(text)
  OBVIOUS
<1>3. PICK y \in Seq(Byte) : y = Local(x) /\ line = <<-k>> \o y
  BY <1>1, <1>2, LocalLine
<1>4. line # <<>> /\ line[1] < 0 /\ -line[1] = k /\ Tail(line) = y
  BY <1>3, LineParts
<1>5. IsParsed(line) => files[k].format \in {"unix", "win"}
  BY <1>4 DEF IsParsed
<1>6. PICK name : name = ParsedName(line)
  OBVIOUS
<1>7. PICK link : link = ParsedLink(line)
  OBVIOUS
<1>12. PICK year : year = ParsedYear(line)
  OBVIOUS
<1>8. Attr(name, k, year).file = k /\ \A s \in Link(name, k, link) : s.file = k
  BY DEF Attr, Link
<1>9. CASE Mangled(files[k])
  <2>1. \A s \in Link(name, k, link) \union {Attr(name, k, year)} : EntryTrue(s)
    BY <1>8, <1>9 DEF EntryTrue
  <2> QED BY <1>2, <1>4, <1>5, <1>6, <1>7, <1>9, <1>12, <2>1 DEF Enters
<1>10. CASE ~Mangled(files[k]) /\ files[k].format \in {"unix", "win"}
  <2>1. Tells(k, line)
    <3>1. line = <<-k>> \o Local(Shown(files[k]))
      BY <1>1, <1>3, <1>10
    <3> QED BY <1>10, <3>1, LineTells
  <2>2. /\ name = Local(files[k].name) /\ IsParsed(line)
        /\ link = IF files[k].type = "l" THEN Local(files[k].target) ELSE <<>>
    BY <1>6, <1>7, <1>10, <2>1 DEF Tells
  <2>3. EntryTrue(Attr(name, k, year))
    BY <1>8, <2>2 DEF EntryTrue
  <2>4. ASSUME NEW s \in Link(name, k, link) PROVE EntryTrue(s)
    <3>1. link # <<>>
      BY <2>4 DEF Link
    <3>2. files[k].type = "l" /\ link = Local(files[k].target)
      BY <2>2, <3>1
    <3> QED BY <1>8, <2>2, <2>4, <3>2 DEF EntryTrue
  <2> QED BY <1>2, <1>4, <1>5, <1>6, <1>7, <1>10, <1>12, <2>2, <2>3, <2>4 DEF Enters
<1>11. CASE ~Mangled(files[k]) /\ files[k].format \notin {"unix", "win"}
  BY <1>2, <1>4, <1>5, <1>11 DEF Enters
<1> QED BY <1>9, <1>10, <1>11

-----------------------------------------------------------------------------
(* What holds while a listing is parsed.                                   *)

\* A file that getattr may find.
FoundTrue(k) ==
  /\ k \in DOMAIN files /\ InDir(k) /\ files[k].format \in {"unix", "win"}
  /\ Mangled(files[k]) \/ Local(files[k].name) = FileName(path)

\* A file that getattr must find.
Wanted(k) ==
  /\ InDir(k) /\ files[k].format \in {"unix", "win"} /\ ~Mangled(files[k])
  /\ Local(files[k].name) = FileName(path)

\* It has found one, if there is one among the first n files.
Seen(n) == request.op = "getattr" => \A k \in 1..n : Wanted(k) => found # 0

\* The root needs no line.
IsRoot == request.op = "getattr" /\ FileName(path) = <<>>

\* Once the listing is there: parse_dir has come to the end of the line of one of
\* the files, and what it has read up to there is true.
Parsing ==
  /\ Listed /\ list = ListingOf(reached)
  /\ \A s \in stored : EntryTrue(s)
  /\ found # 0 => FoundTrue(found)
  /\ pc = "done" /\ ~IsRoot => LineFeeds = {}
  /\ \E p, n : At(p, n) /\ Seen(n)

\* Before that, and in other requests, nothing is read.
ParseInv ==
  /\ request \in Requests
  /\ IF pc = "send" \/ ~IsListing
       THEN stored = {} /\ found = 0 /\ start = 1 /\ pc # "parse"
       ELSE Parsing

\* What a request and the directory it has reached determine.
LEMMA SameListing ==
  ASSUME request' = request, reached' = reached, dir' = dir
  PROVE  /\ host' = host /\ path' = path /\ files' = files
         /\ \A k : InDir(k)' <=> InDir(k)
         /\ \A f : Mangled(f)' <=> Mangled(f)
         /\ \A s : EntryTrue(s)' <=> EntryTrue(s)
         /\ \A k : FoundTrue(k)' <=> FoundTrue(k)
         /\ \A k : Wanted(k)' <=> Wanted(k)
         /\ \A p : Layout(p)' <=> Layout(p)
         /\ Listed' <=> Listed
         /\ ListingOf(reached)' = ListingOf(reached)
         /\ IsRoot' <=> IsRoot
<1>1. host' = host /\ path' = path /\ files' = files /\ today' = today
  BY DEF host, path, files, today
<1>2. \A k : InDir(k)' <=> InDir(k)
  BY <1>1 DEF InDir, UrlOf
<1>3. \A f : Mangled(f)' <=> Mangled(f)
  BY DEF Mangled
<1>4. \A n, k, y : Attr(n, k, y)' = Attr(n, k, y)
  BY <1>1 DEF Attr, AttrKey
<1>5. \A n, k, l : Link(n, k, l)' = Link(n, k, l)
  BY DEF Link
<1>6. \A s : EntryTrue(s)' <=> EntryTrue(s)
  BY <1>1, <1>2, <1>3, <1>4, <1>5 DEF EntryTrue
<1>7. /\ \A k : FoundTrue(k)' <=> FoundTrue(k)
      /\ \A k : Wanted(k)' <=> Wanted(k)
  BY <1>1, <1>2, <1>3 DEF FoundTrue, Wanted
<1>8. \A k : Line(k)' = Line(k)
  BY <1>1 DEF Line
<1>9. Lines' = Lines
  BY <1>1, <1>2, <1>8 DEF Lines
<1>10. Whole' = Whole
  BY <1>9 DEF Whole
<1>11. \A p : Layout(p)' <=> Layout(p)
  BY <1>1, <1>9, <1>10 DEF Layout, Lies
<1>12. Listed' <=> Listed
  BY <1>1 DEF Listed, IsListing, UrlOf, Asked, KeyDir
<1>13. ListingOf(reached)' = ListingOf(reached)
  BY <1>1 DEF ListingOf, Line
<1>14. IsRoot' <=> IsRoot
  BY <1>1 DEF IsRoot
<1> QED BY <1>1, <1>2, <1>3, <1>6, <1>7, <1>11, <1>12, <1>13, <1>14

\* The URL of a listing, and what the server takes it for.
LEMMA ListUrl ==
  ASSUME request \in Requests, IsListing, NEW url,
         url = IF request.op = "getattr" THEN get_dir_path(host, path)
                                         ELSE get_fulldir_path(host, path)
  PROVE  url = url_encode(UrlOf(Server(Asked))) /\ Unescaped(url) = UrlOf(Server(Asked))
<1>1. Server(Asked) = <<>> <=> Asked = <<>>
  BY AskedFacts
<1>2. UrlOf(Server(Asked)) = host \o Server(Asked) \o SlashUnless(Asked = <<>>)
  BY <1>1 DEF UrlOf, SlashUnless
<1>3. CASE request.op = "getattr"
  <2>1. Asked = DirName(path) /\ url = get_dir_path(host, path)
    BY <1>3 DEF Asked
  <2>2. url = url_encode(UrlOf(Server(Asked)))
    BY <1>2, <2>1 DEF get_dir_path
  <2> QED BY <1>2, <2>1, <2>2, UrlsDecoded
<1>4. CASE request.op = "getdir"
  <2>1. Asked = Tail(path) /\ url = get_fulldir_path(host, path)
    BY <1>4 DEF Asked
  <2>2. url = url_encode(UrlOf(Server(Asked)))
    BY <1>2, <2>1 DEF get_fulldir_path
  <2> QED BY <1>2, <2>1, <2>2, UrlsDecoded
<1> QED BY <1>3, <1>4 DEF IsListing

\* In every state.
LEMMA LayoutAlways == request \in Requests => \E p : Layout(p)
BY LayoutExists

\* A listing has arrived.
LEMMA ParseSend ==
  ASSUME ParseInv, SendList
  PROVE  ParseInv'
<1>1. pc = "send" /\ IsListing /\ request' = request /\ request \in Requests
  BY DEF ParseInv, SendList, IsListing
<1>2. stored' = {} /\ found' = 0 /\ start' = 1 /\ stored = {} /\ found = 0
  BY <1>1 DEF ParseInv, SendList
<1>3. PICK url : /\ url = IF request.op = "getattr" THEN get_dir_path(host, path)
                                                    ELSE get_fulldir_path(host, path)
                 /\ reached' = Unescaped(url) /\ dir' = KeyDir(url)
                 /\ list' = ListingOf(Unescaped(url))
                 /\ pc' = IF IsRoot THEN "done" ELSE "parse"
  BY DEF SendList, IsRoot
<1>4. url = url_encode(UrlOf(Server(Asked))) /\ Unescaped(url) = UrlOf(Server(Asked))
  BY <1>1, <1>3, ListUrl
<1>5. host' = host /\ path' = path /\ files' = files
  BY <1>1 DEF host, path, files
<1>6. Listed'
  <2>1. IsListing' /\ Asked' = Asked /\ request' \in Requests
    BY <1>1, <1>5 DEF IsListing, Asked
  <2>2. \A d : UrlOf(d)' = UrlOf(d) /\ KeyDir(d)' = KeyDir(d)
    BY <1>5 DEF UrlOf, KeyDir
  <2>3. reached' = UrlOf(Server(Asked)) /\ dir' = KeyDir(url_encode(reached'))
    BY <1>3, <1>4
  <2> QED BY <2>1, <2>2, <2>3 DEF Listed, UrlOf, KeyDir
<1>7. list' = ListingOf(reached)'
  <2>1. list' = ListingOf(reached')
    BY <1>3
  <2>2. ListingOf(reached') = ListingOf(reached)'
    BY <1>1, <1>5 DEF ListingOf, Line
  <2> QED BY <2>1, <2>2
<1>8. IsRoot' <=> IsRoot
  BY <1>1, <1>5 DEF IsRoot
<1>9. PICK p : Layout(p)'
  <2>1. (request \in Requests => \E p : Layout(p))'
    BY LayoutAlways, PTL
  <2> QED BY <1>1, <2>1
<1>10. PICK z \in Nat : z = 0
  OBVIOUS
<1>11. At(p, z)'
  <2>1. Len(files') \in Nat
    BY <1>1, <1>5, FilesFacts
  <2>2. z \in 0..Len(files') /\ p[z] = 0 /\ start' = p[z] + 1
    BY <1>2, <1>9, <1>10, <2>1 DEF Layout
  <2> QED BY <1>1, <1>7, <1>9, <2>2 DEF At
<1>12. Seen(z)'
  <2>1. 1..z = {}
    BY <1>10
  <2> QED BY <2>1 DEF Seen
<1>13. pc' # "send" /\ (pc' = "done" => IsRoot')
  BY <1>3, <1>8
<1>14. Parsing'
  BY <1>2, <1>6, <1>7, <1>11, <1>12, <1>13 DEF Parsing
<1> QED BY <1>1, <1>14, <1>13 DEF ParseInv, IsListing

\* A line has been parsed.
LEMMA ParseLine ==
  ASSUME ParseInv, NextLine
  PROVE  ParseInv'
<1>1. /\ pc = "parse" /\ pc' = "parse" /\ LineFeeds # {} /\ request' = request
      /\ reached' = reached /\ dir' = dir /\ list' = list
  BY DEF NextLine
<1>2. Parsing /\ request \in Requests /\ IsListing
  BY <1>1 DEF ParseInv
<1>3. PICK p, n : At(p, n) /\ Seen(n)
  BY <1>2 DEF Parsing
<1>4. PICK k \in DOMAIN files : Here(p, n, k)
  BY <1>1, <1>3, NextIs
<1>5. PICK line : line = Local(SubSeq(list, start, LineEnd - 1))
  OBVIOUS
<1>6. /\ (IF list[LineEnd] = CR THEN LineEnd + 2 ELSE LineEnd + 1) = p[k] + 1
      /\ Takes(k, SubSeq(list, start, LineEnd - 1))
  BY <1>3, <1>4, TextIs
<1>7. InDir(k) /\ Enters(k, line)
  <2>1. InDir(k)
    BY <1>4 DEF Here
  <2> QED BY <1>2, <1>5, <1>6, <2>1, LineEnters
<1>8. start' = p[k] + 1
  BY <1>6 DEF NextLine
<1>9. \/ /\ IsParsed(line)
         /\ stored' = stored \union Link(ParsedName(line), k, ParsedLink(line))
                             \union {Attr(ParsedName(line), k, ParsedYear(line))}
         /\ found' = IF request.op = "getattr" /\ ParsedName(line) = FileName(path)
                       THEN k ELSE found
      \/ ~IsParsed(line) /\ stored' = stored /\ found' = found
  <2>1. -line[1] = k
    BY <1>7 DEF Enters
  <2> QED BY <1>5, <2>1 DEF NextLine
<1>10. /\ host' = host /\ path' = path /\ files' = files
       /\ \A i : InDir(i)' <=> InDir(i)
       /\ \A s : EntryTrue(s)' <=> EntryTrue(s)
       /\ \A i : FoundTrue(i)' <=> FoundTrue(i)
       /\ \A i : Wanted(i)' <=> Wanted(i)
       /\ \A q : Layout(q)' <=> Layout(q)
       /\ Listed' <=> Listed
       /\ ListingOf(reached)' = ListingOf(reached)
  BY <1>1, SameListing
<1>11. ASSUME NEW s \in stored' PROVE EntryTrue(s)'
  <2>1. EntryTrue(s)
    BY <1>2, <1>7, <1>9 DEF Parsing, Enters
  <2> QED BY <1>10, <2>1
<1>12. ASSUME found' # 0 PROVE FoundTrue(found')
  <2>1. CASE found' = found
    BY <1>2, <1>12, <2>1 DEF Parsing
  <2>2. CASE found' # found
    <3>1. IsParsed(line) /\ found' = k /\ ParsedName(line) = FileName(path)
      BY <1>9, <2>2
    <3> QED BY <1>7, <3>1 DEF FoundTrue, Enters
  <2> QED BY <2>1, <2>2
<1>13. PICK N \in Nat : N = Len(files) /\ DOMAIN files = 1..N
  BY <1>2, FilesFacts
<1>14. At(p, k)'
  <2>1. k \in 0..N
    BY <1>13
  <2> QED BY <1>1, <1>2, <1>3, <1>8, <1>10, <1>13, <2>1 DEF At
<1>15. ASSUME request.op = "getattr", NEW i \in 1..k, Wanted(i) PROVE found' # 0
  <2>1. n \in 0..N /\ k \in 1..N /\ k \in (n + 1)..N
    BY <1>3, <1>4, <1>13 DEF At, Here
  <2>2. CASE i \in 1..n
    <3>1. found # 0
      BY <1>3, <1>15, <2>2 DEF Seen
    <3> QED BY <1>9, <2>1, <3>1
  <2>3. CASE i = k
    <3>1. IsParsed(line) /\ ParsedName(line) = FileName(path)
      BY <1>7, <1>15, <2>3 DEF Enters, Wanted
    <3> QED BY <1>9, <1>15, <2>1, <3>1
  <2>4. CASE i \notin 1..n /\ i # k
    <3>1. i \in (n + 1)..(k - 1)
      BY <2>1, <2>4
    <3> QED BY <1>4, <1>15, <3>1 DEF Here, Wanted
  <2> QED BY <2>2, <2>3, <2>4
<1>16. Seen(k)'
  BY <1>1, <1>10, <1>15 DEF Seen
<1>17. Parsing'
  <2>1. Listed' /\ (list = ListingOf(reached))'
    BY <1>1, <1>2, <1>10 DEF Parsing
  <2>2. (found # 0 => FoundTrue(found))'
    BY <1>10, <1>12
  <2>3. pc' # "done"
    BY <1>1
  <2> QED BY <1>11, <1>14, <1>16, <2>1, <2>2, <2>3 DEF Parsing
<1> QED BY <1>1, <1>2, <1>17 DEF ParseInv, IsListing

\* Every step keeps the invariant.
LEMMA ParseStep ==
  ASSUME ParseInv, [Next]_vars
  PROVE  ParseInv'
<1>1. CASE SendOpen \/ SendCommand \/ SendRename
  <2>1. /\ request' = request /\ stored' = stored /\ found' = found /\ start' = start
        /\ pc = "send" /\ pc' = "done" /\ ~IsListing
    BY <1>1 DEF SendOpen, SendCommand, SendRename, IsListing
  <2> QED BY <2>1 DEF ParseInv, IsListing
<1>2. CASE Finish \/ Done \/ UNCHANGED vars
  <2>1. /\ request' = request /\ reached' = reached /\ dir' = dir /\ list' = list
        /\ start' = start /\ stored' = stored /\ found' = found
        /\ pc' = pc \/ (pc = "parse" /\ pc' = "done" /\ LineFeeds = {})
    BY <1>2 DEF Finish, Done, vars
  <2>2. CASE pc = "send" \/ ~IsListing
    BY <2>1, <2>2 DEF ParseInv, IsListing
  <2>3. CASE ~(pc = "send" \/ ~IsListing)
    <3>1. Parsing /\ request \in Requests
      BY <2>3 DEF ParseInv
    <3>2. /\ files' = files
          /\ \A s : EntryTrue(s)' <=> EntryTrue(s)
          /\ \A i : FoundTrue(i)' <=> FoundTrue(i)
          /\ \A i : Wanted(i)' <=> Wanted(i)
          /\ \A q : Layout(q)' <=> Layout(q)
          /\ Listed' <=> Listed
          /\ ListingOf(reached)' = ListingOf(reached)
          /\ IsRoot' <=> IsRoot
      BY <2>1, SameListing
    <3>3. \A p, n : At(p, n) /\ Seen(n) => At(p, n)' /\ Seen(n)'
      BY <2>1, <3>2 DEF At, Seen
    <3>4. Listed' /\ (list = ListingOf(reached))' /\ (\A s \in stored : EntryTrue(s))'
      BY <2>1, <3>1, <3>2 DEF Parsing
    <3>5. (found # 0 => FoundTrue(found))'
      BY <2>1, <3>1, <3>2 DEF Parsing
    <3>6. (pc = "done" /\ ~IsRoot => LineFeeds = {})'
      <4>1. LineFeeds' = LineFeeds
        BY <2>1 DEF LineFeeds
      <4> QED BY <2>1, <3>1, <3>2, <4>1 DEF Parsing
    <3>7. (\E p, n : At(p, n) /\ Seen(n))'
      BY <3>1, <3>3 DEF Parsing
    <3>8. Parsing'
      BY <3>4, <3>5, <3>6, <3>7 DEF Parsing
    <3> QED BY <2>1, <2>3, <3>1, <3>8 DEF ParseInv, IsListing
  <2> QED BY <2>2, <2>3
<1> QED BY <1>1, <1>2, ParseSend, ParseLine DEF Next

\* So it holds always.
LEMMA ParseInvariant == Spec => []ParseInv
<1>1. Init => ParseInv
  BY DEF Init, ParseInv
<1>2. ParseInv /\ [Next]_vars => ParseInv'
  BY ParseStep
<1> QED BY <1>1, <1>2, PTL DEF Spec

\* For every path, option codepage and set of files: what a listing adds to
\* the cache is under the path of its file, but for the exceptions of KeysTrue.
THEOREM KeysAreTrue == Spec => []KeysTrue
<1>1. ParseInv => KeysTrue
  <2> SUFFICES ASSUME ParseInv PROVE KeysTrue
    OBVIOUS
  <2>1. CASE stored = {}
    BY <2>1 DEF KeysTrue
  <2>2. CASE stored # {}
    <3>1. Parsing
      BY <2>2 DEF ParseInv
    <3> QED BY <3>1, EntriesKeys DEF Parsing
  <2> QED BY <2>1, <2>2
<1> QED BY <1>1, ParseInvariant, PTL

\* For every path, option codepage and set of files: getattr finds a file exactly
\* when the server has it, and the right one, but for the exceptions of AnswerTrue.
THEOREM AnswersAreTrue == Spec => []AnswerTrue
<1>1. ParseInv => AnswerTrue
  <2> SUFFICES ASSUME ParseInv, pc = "done", request.op = "getattr",
                      FileName(path) # <<>>
               PROVE  LET there == {k \in DOMAIN files :
                                      /\ PathOf(files[k]) = path
                                      /\ files[k].format \in {"unix", "win"}}
                      IN IF found = 0
                           THEN \/ there = {} \/ request.lost > 0
                                \/ \E k \in there : Mangled(files[k])
                           ELSE found \in there \/ Mangled(files[found])
    BY DEF AnswerTrue
  <2>1. Parsing /\ request \in Requests /\ IsListing
    BY DEF ParseInv, IsListing
  <2>2. ASSUME NEW k \in DOMAIN files
        PROVE  PathOf(files[k]) = path <=>
                 InDir(k) /\ Local(files[k].name) = FileName(path)
    <3>1. InDir(k) <=> Local(files[k].dir) = DirName(path)
      <4>1. Asked = DirName(path)
        BY DEF Asked
      <4>2. reached = UrlOf(Server(Asked))
        BY <2>1 DEF Parsing, Listed
      <4> QED BY <2>1, <4>1, <4>2, InDirIs
    <3> QED BY <2>1, <3>1, PathOfIs
  <2>3. CASE found # 0
    <3>1. FoundTrue(found)
      BY <2>1, <2>3 DEF Parsing
    <3> QED BY <2>2, <2>3, <3>1 DEF FoundTrue
  <2>4. CASE found = 0 /\ request.lost = 0
    <3>1. PICK p, n : At(p, n) /\ Seen(n)
      BY <2>1 DEF Parsing
    <3>2. LineFeeds = {}
      BY <2>1 DEF Parsing, IsRoot
    <3>3. ASSUME NEW k \in DOMAIN files, PathOf(files[k]) = path,
                 files[k].format \in {"unix", "win"}, ~Mangled(files[k])
          PROVE  FALSE
      <4>1. InDir(k) /\ Wanted(k)
        BY <2>2, <3>3 DEF Wanted
      <4>2. k \in 1..n
        BY <2>4, <3>1, <3>2, <4>1, AllSeen
      <4> QED BY <2>4, <3>1, <4>1, <4>2 DEF Seen
    <3> QED BY <2>4, <3>3
  <2>5. CASE found = 0 /\ request.lost # 0
    <3>1. request.lost \in Nat
      BY <2>1, RequestFacts
    <3> QED BY <2>5, <3>1
  <2> QED BY <2>3, <2>4, <2>5
<1> QED BY <1>1, ParseInvariant, PTL
=============================================================================
