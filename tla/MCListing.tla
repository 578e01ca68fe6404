----------------------------- MODULE MCListing -----------------------------
(***************************************************************************)
(* Two files whose names and directories hold what the code treats in a    *)
(* special way, and one plain file on every day near the end of a month in *)
(* a leap year and the next.                                               *)
(***************************************************************************)
EXTENDS Listing

\* "h/", and "h/a /", which needs encoding.
PlainHost == <<104, 47>>
SpaceHost == <<104, 47, 97, 32, 47>>

\* As the server has them: "a", " ", "%20", e with an acute accent, "a -> b",
\* " a", "a ->", "a" with a carriage return, and "1 c d e a", which the second
\* format makes a line of columns with the name "a".
Names == {<<97>>, <<32>>, <<37, 50, 48>>, <<233>>, <<97>> \o Marker \o <<98>>,
          <<32, 97>>, <<97, 32, 45, 62>>, <<97, CR>>,
          <<49, 32, 99, 32, 100, 32, 101, 32, 97>>}
Dirs  == {<<>>, <<97>>, <<32>>, <<37, 50, 48>>, <<233>>, <<97, 47, 32>>}

ADay == [y |-> 9, m |-> 4, d |-> 1]

\* "/m"
Prefix == <<47, 109>>

\* Links lead to "b -> a"; those of the directory " " to "/b".
AFile(d, n, type) ==
  [dir |-> d, name |-> n, type |-> type,
   target |-> IF d = <<32>> THEN <<47, 98>> ELSE <<98>> \o Marker \o <<97>>,
   format |-> "unix", modified |-> ADay]

FirstFiles == {AFile(d, n, t) : d \in Dirs, n \in Names, t \in {"-", "l"}}
               \union {[AFile(<<97>>, n, "-") EXCEPT !.format = "win"] : n \in Names}

\* A line in another format ("total 2") comes between.
Other == [AFile(<<97>>, <<116>>, "-") EXCEPT !.format = "other"]

Trees ==
  {t \in {<<f, Other, AFile(d, n, "-")>> : f \in FirstFiles,
             d \in {<<97>>, <<37, 50, 48>>}, n \in {<<97>>, <<98, 32>>}} :
     t[1].dir # t[3].dir \/ t[1].name # t[3].name}

\* The paths of the two files, of one that is not there, and one that is not in
\* UTF-8; and the directories.
PathsFor(tree) ==
  {PathOf(tree[1]), PathOf(tree[3]), <<47, 97, 47, 99>>, <<47, 233>>}
DirsFor(tree) ==
  {<<47>>, <<47>> \o Local(tree[1].dir)}

Req(h, op, p, tree, eol, lost, date) ==
  [host |-> h, op |-> op, path |-> p, files |-> tree, eol |-> eol,
   lost |-> lost, today |-> date]

Getattrs ==
  UNION {{Req(PlainHost, "getattr", p, t, eol, lost, ADay) :
            p \in PathsFor(t), eol \in {<<LF>>, <<CR, LF>>}, lost \in {0, 1, 3}} :
         t \in Trees}

Getdirs ==
  UNION {{Req(h, "getdir", p, t, <<CR, LF>>, 0, ADay) :
            h \in {PlainHost, SpaceHost}, p \in DirsFor(t)} : t \in Trees}

Others ==
  {Req(h, op, PathOf(f), <<f>>, <<LF>>, 0, ADay) :
     h \in {PlainHost, SpaceHost}, op \in {"open", "command", "rename", "getattr"},
     f \in FirstFiles}
    \union {Req(PlainHost, "getattr", <<47>>, <<>>, <<LF>>, 0, ADay)}

\* Years 7 to 10; the eighth is a leap year.
DaysOf(y, m) ==
  IF m = 2 THEN IF IsLeap(y) THEN 29 ELSE 28 ELSE IF m \in {4, 6, 9, 11} THEN 30 ELSE 31
Dates(years) ==
  {date \in [y : years, m : 1..12, d : {1, 2, 15, 28, 29, 30, 31}] :
     date.d <= DaysOf(date.y, date.m)}

Dated ==
  {Req(PlainHost, "getattr", <<47, 97>>,
       <<[AFile(<<>>, <<97>>, "-") EXCEPT !.modified = m]>>, <<LF>>, 0, t) :
     t \in Dates({8, 9}), m \in Dates({7, 8, 9, 10})}

DatedNear == {r \in Dated : Ordinal(r.today) - Ordinal(r.files[1].modified)
                              \in -1..(SixMonths + 2)}

MCRequests == Getattrs \union Getdirs \union Others \union DatedNear
=============================================================================
