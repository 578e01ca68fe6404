------------------------------ MODULE Listing ------------------------------
(***************************************************************************)
(* A request that names a file, from its path to the URL or command the    *)
(* server gets, and back from the text of a listing to attributes and the  *)
(* keys they are cached under (parse_dir in ftpfs-ls.c, with its callers   *)
(* ftpfs_getattr and ftpfs_getdir; the names of the commands of ftpfs.c).  *)
(*                                                                         *)
(* In the text of a listing minus k stands for what a line has before the  *)
(* name of file k: type, owner, size and date; the rest of it are bytes.   *)
(***************************************************************************)
EXTENDS Paths, FiniteSets

CONSTANTS
  Requests,         \* bound: the requests, each with the server it meets
  SixMonths,        \* the age in days up to which the server lists a time of day
  symlink_prefix    \* where the mount point is, with transform_symlinks

ASSUME ListingAssumption ==
  SixMonths \in Nat /\ SixMonths <= 184 /\ symlink_prefix \in Seq(Byte)

VARIABLES
  request,    \* host, op and path; the server's files, the line end it uses,
              \* how much of the listing is lost, and today's date
  pc,
  reached,    \* what the server takes the request to be about
  dir,        \* the argument dir of parse_dir
  list, start,
  found,      \* the file whose attributes were found, or 0
  stored      \* history: what was added to the cache

vars == <<request, pc, reached, dir, list, start, found, stored>>

CR == 13
LF == 10
Marker == <<32, 45, 62, 32>>   \* " -> "

host  == request.host
path  == request.path
files == request.files
today == request.today

-----------------------------------------------------------------------------
(* The server.                                                             *)

CumulativeDays == <<0, 31, 59, 90, 120, 151, 181, 212, 243, 273, 304, 334>>
IsLeap(y) == y % 4 = 0

\* The number of a day.
Ordinal(date) ==
  365 * date.y + ((date.y + 3) \div 4) + CumulativeDays[date.m] + date.d
    + IF IsLeap(date.y) /\ date.m > 2 THEN 1 ELSE 0

\* Bound: the days by which the server's clock may be ahead of this one.
ClockAhead == 120

Date == [y : Nat, m : 1..12, d : 1..31]

\* What a line can hold: a name has no slash, and neither it nor the target of a
\* link has a line feed.  There are no links in the second format ("win").  A line
\* in another one ("total 2") is one that no parser takes.
FileNames   == {s \in Seq(Byte) : s # <<>> /\ \A i \in DOMAIN s : s[i] \notin {Slash, LF}}
LinkTargets == {s \in Seq(Byte) : \A i \in DOMAIN s : s[i] # LF}

File == [dir : Seq(Byte), name : FileNames, type : {"-", "l"}, target : LinkTargets,
         format : {"unix", "win", "other"}, modified : Date]

\* The kernel asks about what is in a directory when it has found the directory,
\* in a name that came from the server; one just made under a name that no server
\* would show so is left out.
IsKnown(dirname) == Local(Server(dirname)) = dirname

\* host is what follows "ftp://".  libcurl decodes the path of a URL and not the
\* name of the server, of which url_encode must leave every byte as it is: a host
\* given with a user ("user@name") is left out.
ASSUME RequestsAssumption ==
  \A r \in Requests :
    /\ r.host \in Seq(Byte) /\ r.host # <<>> /\ r.host[Len(r.host)] = Slash
    /\ \A i \in DOMAIN r.host : Kept(r.host[i]) \/ \E j \in 1..i : r.host[j] = Slash
    /\ IsPath(r.path)
    /\ r.op = "getattr" => IsKnown(DirName(r.path))
    /\ r.op = "getdir"  => IsKnown(Tail(r.path))
    /\ r.files \in Seq(File)
    /\ \A k \in DOMAIN r.files : r.files[k].format = "win" => r.files[k].type = "-"
    /\ \A j, k \in DOMAIN r.files :
         r.files[j].dir = r.files[k].dir /\ r.files[j].name = r.files[k].name => j = k
    /\ r.eol \in {<<LF>>, <<CR, LF>>} /\ r.lost \in Nat
    /\ r.today \in Date
    /\ \A k \in DOMAIN r.files :
         Ordinal(r.today) - Ordinal(r.files[k].modified) >= -ClockAhead

Age(f) == Ordinal(today) - Ordinal(f.modified)

\* A recent file is listed with a time of day in the place of the year; the
\* server's clock may be ahead.
ListedWithTime(f) == f.format = "unix" /\ Age(f) <= SixMonths

\* What a line shows of a file, from its name on.
Shown(f) == f.name \o (IF f.type = "l" THEN Marker \o f.target ELSE <<>>)

Line(k) == <<-k>> \o Shown(files[k]) \o request.eol

\* The listing of the directory named by a URL, of which the end may be lost.
ListingOf(where) ==
  LET lines == FlattenSeq([k \in DOMAIN files |->
                 IF host \o files[k].dir \o SlashUnless(files[k].dir = <<>>) = where
                   THEN Line(k) ELSE <<>>])
  IN SubSeq(lines, 1, Len(lines) - request.lost)

-----------------------------------------------------------------------------
(* Requests.                                                               *)

\* Mutant: the slash at the end of the host is left out.
KeyDirBare(url) == SubSeq(url, Len(host) + 1, Len(url))

\* dir_path + strlen(ftpfs.host) - 1
KeyDir(url) == SubSeq(url, Len(host), Len(url))

\* ftpfs_getattr, and ftpfs_getdir; of the root parse_dir knows the attributes
\* without a line of the listing.
SendList ==
  LET url == IF request.op = "getattr" THEN get_dir_path(host, path)
                                       ELSE get_fulldir_path(host, path)
  IN
  /\ pc = "send" /\ request.op \in {"getattr", "getdir"}
  /\ reached' = Unescaped(url)
  /\ dir' = KeyDir(url)
  /\ list' = ListingOf(Unescaped(url))
  /\ pc' = IF request.op = "getattr" /\ FileName(path) = <<>> THEN "done"
                                                              ELSE "parse"
  /\ UNCHANGED <<request, start, found, stored>>

\* An open of the file.
SendOpen ==
  /\ pc = "send" /\ request.op = "open"
  /\ reached' = Unescaped(get_full_path(host, path))
  /\ pc' = "done"
  /\ UNCHANGED <<request, dir, list, start, found, stored>>

\* ftpfs_mkdir, ftpfs_rmdir, ftpfs_unlink, ftpfs_chmod, ftpfs_chown: a command
\* with the name of the file follows in its directory, as it is.
SendCommand ==
  /\ pc = "send" /\ request.op = "command"
  /\ reached' = Unescaped(get_dir_path(host, path)) \o get_file_name(path)
  /\ pc' = "done"
  /\ UNCHANGED <<request, dir, list, start, found, stored>>

\* ftpfs_rename: both names are paths below the host, as they are.
SendRename ==
  /\ pc = "send" /\ request.op = "rename"
  /\ reached' = host \o Server(Tail(path))
  /\ pc' = "done"
  /\ UNCHANGED <<request, dir, list, start, found, stored>>

-----------------------------------------------------------------------------
(* parse_dir_unix, parse_dir_win and parse_dir_netware: a line in a known  *)
(* format has a name and, where the name has a marker, a link.             *)

Places(s, t) == {i \in 1..(Len(s) - Len(t) + 1) : SubSeq(s, i, i + Len(t) - 1) = t}
First(S) == CHOOSE i \in S : \A j \in S : i <= j

Blanks == {9, 32}
Spaces == (9..13) \union {32}
DigitBytes == 48..57

\* One past the bytes of S that are at i and after it.
RunEnd(s, i, S) == First({j \in i..(Len(s) + 1) : j = Len(s) + 1 \/ s[j] \notin S})

\* The blanks at e must be there; one past them, or past the end of s.
AfterBlanks(s, e) ==
  IF e <= Len(s) /\ s[e] \in Blanks THEN RunEnd(s, e, Blanks) ELSE Len(s) + 1

\* sscanf takes "%llu" SPACES at the start of s.
AfterNumber(s) ==
  LET sign  == RunEnd(s, 1, Spaces)
      digit == IF sign <= Len(s) /\ s[sign] \in {43, 45} THEN sign + 1 ELSE sign
      end   == RunEnd(s, digit, DigitBytes)
  IN IF end > digit THEN AfterBlanks(s, end) ELSE Len(s) + 1

\* One past the word that follows i, or past the first width bytes of it.
WordEnd(s, i, width) ==
  LET word == RunEnd(s, i, Spaces)
      end  == RunEnd(s, word, Byte \ Spaces)
  IN IF end > word + width THEN word + width ELSE end

\* It takes "%<width>s" SPACES at i.
AfterWord(s, i, width) == AfterBlanks(s, WordEnd(s, i, width))

\* parse_dir_unix comes first.  Its scan for lines without a number of links
\* takes the date, the hour and the size of the second format for mode, user and
\* group, and goes on in the name: it wants a size, a month, a day, a year and
\* one byte more, and what follows is the name.
UnixName(text) ==
  LET month == AfterNumber(text)
      day   == AfterWord(text, month, 3)
      year  == AfterWord(text, day, 2)
  IN SubSeq(text, WordEnd(text, year, 5) + 1, Len(text))

TakenByUnix(line) ==
  \/ files[-line[1]].format = "unix"
  \/ files[-line[1]].format = "win" /\ UnixName(Tail(line)) # <<>>

\* In the second format every blank before the name is skipped.
Text(line) ==
  LET text == Tail(line) IN
  IF files[-line[1]].format = "unix" THEN text
  ELSE IF TakenByUnix(line) THEN UnixName(text)
  ELSE LET S == {i \in DOMAIN text : text[i] \notin Blanks} IN
       IF S = {} THEN <<>> ELSE SubSeq(text, First(S), Len(text))

IsParsed(line) ==
  /\ line # <<>> /\ line[1] < 0
  /\ files[-line[1]].format \in {"unix", "win"}
  /\ Text(line) # <<>>

\* Where the marker is in a line that has one.
Markers(line) ==
  IF TakenByUnix(line) THEN Places(Text(line), Marker) ELSE {}

ParsedName(line) ==
  IF Markers(line) = {} THEN Text(line)
                        ELSE SubSeq(Text(line), 1, First(Markers(line)) - 1)

ParsedLink(line) ==
  IF Markers(line) = {} THEN <<>>
  ELSE SubSeq(Text(line), First(Markers(line)) + Len(Marker), Len(Text(line)))

\* Mutant: six months are taken to be six names of months apart.
GuessedYearSix(month) == IF today.m + 6 < month THEN today.y - 1 ELSE today.y

\* The year of a date that has none.
GuessedYear(month) == IF today.m + 5 < month THEN today.y - 1 ELSE today.y

\* The year that the date of a file is read with.
ListedYear(f) ==
  IF ListedWithTime(f) THEN GuessedYear(f.modified.m) ELSE f.modified.y

\* What strptime makes of the words of a name is left out.
NoYear == -1

ParsedYear(line) ==
  LET f == files[-line[1]] IN
  IF f.format = "win" /\ TakenByUnix(line) THEN NoYear ELSE ListedYear(f)

-----------------------------------------------------------------------------
(* parse_dir.                                                              *)

LineFeeds == {i \in DOMAIN list : i >= start /\ list[i] = LF}

\* Mutant: the carriage return stays.
LineEndRaw == First(LineFeeds)

\* One past the last byte of the line.
LineEnd ==
  LET end == First(LineFeeds) IN
  IF end > start /\ list[end - 1] = CR THEN end - 1 ELSE end

\* cache_dirfill takes the path of the request where parse_dir takes dir.
AttrKey(name) ==
  IF request.op = "getdir"
    THEN (IF Len(path) = 1 THEN <<>> ELSE path) \o <<Slash>> \o name
    ELSE dir \o name

Attr(name, k, year) ==
  [part |-> "attr", key |-> AttrKey(name), file |-> k, year |-> year]

\* An absolute link points into the mount.
RealLink(link) == IF link[1] = Slash THEN symlink_prefix \o link ELSE link

Link(name, k, link) ==
  IF link = <<>> THEN {}
  ELSE {[part |-> "link", key |-> dir \o name, file |-> k, link |-> RealLink(link)]}

NextLine ==
  LET line == Local(SubSeq(list, start, LineEnd - 1))
      name == ParsedName(line)
      k    == -line[1]
  IN
  /\ pc = "parse" /\ LineFeeds # {}
  /\ start' = IF list[LineEnd] = CR THEN LineEnd + 2 ELSE LineEnd + 1
  /\ IF IsParsed(line)
       THEN /\ stored' = stored \union Link(name, k, ParsedLink(line))
                                \union {Attr(name, k, ParsedYear(line))}
            /\ found' = IF request.op = "getattr" /\ name = FileName(path)
                          THEN k ELSE found
       ELSE UNCHANGED <<found, stored>>
  /\ UNCHANGED <<request, pc, reached, dir, list>>

\* What follows the last line feed is not a line.
Finish ==
  /\ pc = "parse" /\ LineFeeds = {}
  /\ pc' = "done"
  /\ UNCHANGED <<request, reached, dir, list, start, found, stored>>

Done == pc = "done" /\ UNCHANGED vars

Init ==
  /\ request \in Requests
  /\ pc = "send"
  /\ reached = <<>> /\ dir = <<>> /\ list = <<>>
  /\ start = 1
  /\ found = 0
  /\ stored = {}

Next ==
  \/ SendList \/ SendOpen \/ SendCommand \/ SendRename
  \/ NextLine \/ Finish \/ Done

Spec == Init /\ [][Next]_vars

-----------------------------------------------------------------------------
(* Properties.                                                             *)

\* The path of a file as FUSE knows it.
PathOf(f) ==
  <<Slash>> \o Local(f.dir) \o SlashUnless(f.dir = <<>>) \o Local(f.name)

HasMarker(s) == Places(s, Marker) # {}
IsPlain(s)   == \A i \in DOMAIN s : Kept(s[i])

\* A name that no line can tell: it holds the marker of a link, or all of it but
\* the last blank when it is a link itself; in the second format it begins with a
\* blank, or with words that parse_dir_unix takes for columns ("10 Top 40 Hits of
\* 1990"); or what looks like a part of the line end is the end of the text.
Mangled(f) ==
  \/ HasMarker(f.name)
  \/ f.type = "l" /\ HasMarker(f.name \o <<32>>)
  \/ f.format = "win" /\ (f.name[1] \in Blanks \/ UnixName(Local(f.name)) # <<>>)
  \/ request.eol = <<LF>> /\ Shown(f)[Len(Shown(f))] = CR

\* Whatever characters a path has, the server is asked about the file, or the
\* directory, that the path names.  The exception is a command: the name in it
\* is encoded although nobody decodes it.
ReachesFile ==
  pc # "send" =>
    LET whole  == host \o Server(Tail(path))
        parent == host \o Server(DirName(path)) \o SlashUnless(DirName(path) = <<>>)
    IN
    CASE request.op = "getattr" -> reached = parent
      [] request.op = "getdir"  -> reached = whole \o SlashUnless(Tail(path) = <<>>)
      [] request.op = "command" -> reached = whole \/ ~IsPlain(Server(FileName(path)))
      [] OTHER                  -> reached = whole

\* getattr finds a file exactly when the server has it, and the right one, with
\* any line ends, in either format and whatever its name has in common with
\* another one, and takes no part of a line that was cut for a shorter name.  The
\* exceptions: the end of the listing is lost; the file asked about has a name
\* that a line cannot tell (Mangled); or a file that has one is found in its place.
AnswerTrue ==
  LET there == {k \in DOMAIN files : PathOf(files[k]) = path
                                       /\ files[k].format \in {"unix", "win"}}
  IN
  pc = "done" /\ request.op = "getattr" /\ FileName(path) # <<>> =>
    IF found = 0
      THEN there = {} \/ request.lost > 0 \/ \E k \in there : Mangled(files[k])
      ELSE found \in there \/ Mangled(files[found])

\* What a listing adds to the cache is stored under the path by which FUSE will
\* ask for it, except that a link, or the attributes a getattr has met, of a
\* directory that needs encoding are stored in vain.  They answer for no other
\* file unless the host needs encoding too or the other file has a percent sign
\* in its directory.  Only a link has a target, and the one the server has.
KeysTrue ==
  \A s \in stored :
    LET f == files[s.file] IN
    \/ Mangled(f)
    \/ /\ IsPlain(host \o f.dir) \/ (request.op = "getdir" /\ s.part = "attr")
            => s.key = PathOf(f)
       /\ \A k \in DOMAIN files \ {s.file} :
            s.key = PathOf(files[k]) =>
              ~IsPlain(host) \/ Percent \in {files[k].dir[i] : i \in DOMAIN files[k].dir}
       /\ s.part = "link" =>
            /\ f.type = "l"
            /\ s.link = (IF f.target[1] = Slash THEN symlink_prefix ELSE <<>>)
                          \o Local(f.target)

\* "Unix systems omit the year for the last six months": the year that is
\* guessed is the right one on every day of the year, for every file that is
\* listed without.  The exceptions: a file of last year whose month is five
\* ahead of this one (August 31 seen on March 1), a file that the server's clock
\* has put into next year, and a name in the second format that was taken for
\* columns.
YearRight ==
  \A s \in {t \in stored : t.part = "attr"} :
    LET m == files[s.file].modified IN
    \/ s.year = m.y
    \/ m.y < today.y /\ m.m = today.m + 5
    \/ m.y > today.y
    \/ s.year = NoYear /\ files[s.file].format = "win"
=============================================================================
