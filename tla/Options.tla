------------------------------ MODULE Options ------------------------------
(***************************************************************************)
(* The command line (compat/fuse_opt.c, with the tables of main.c and      *)
(* cache.c).  fuse_opt_parse reads argv twice, for struct ftpfs and for    *)
(* struct cache; each time it takes the options of a table and puts        *)
(* together a new argv from the rest, which in the end is FUSE's.          *)
(*                                                                         *)
(* An option is a name with its parameter, or None.  An argument is        *)
(*   "word": text without a dash before it, read as options after "-o",    *)
(*   "o":    "-o" with the options that follow in the same argument,       *)
(*   "dash": another option, with its dash,                                *)
(*   "--":   after which everything is a word.                             *)
(* Of the tables one option of each kind is kept, and all the main program *)
(* looks at.  None of them takes its parameter from the next argument.     *)
(***************************************************************************)
EXTENDS Integers, Sequences, SequencesExt

None == "none"

Arg(form, opts) ==
  [form |-> form, opts |-> opts, scheme |-> FALSE, slash |-> FALSE]
NoWord == Arg("null", <<>>)
Dashes == Arg("--", <<[name |-> "--", param |-> None]>>)

\* What sscanf reads as %u.
Numerals == {"0", "3", "10"}

Option == [name : STRING, param : STRING]
Argument == [form : {"word", "o", "dash", "--"}, opts : Seq(Option),
             scheme : BOOLEAN, slash : BOOLEAN]

-----------------------------------------------------------------------------
(* The tables.  A template gives its field the parameter ("s", "u") or a   *)
(* fixed value; the field "key" stands for a call of ftpfs_opt_proc.       *)

Template(name, conv, field, value) ==
  [name |-> name, conv |-> conv, field |-> field, value |-> value]

ftpfs_opts ==
  << Template("ftpfs_debug", "u", "debug", None),
     Template("transform_symlinks", None, "transform_symlinks", "1"),
     Template("disable_epsv", None, "disable_epsv", "1"),
     Template("enable_epsv", None, "disable_epsv", "0"),
     Template("user", "s", "user", None),
     Template("proxy_user", "s", "proxy_user", None),
     Template("iocharset", "s", "iocharset", None),
     Template("-h", None, "key", "help"),
     Template("-v", None, "key", "verbose"),
     Template("-V", None, "key", "version") >>

cache_opts ==
  << Template("cache=yes", None, "on", "1"),
     Template("cache=no", None, "on", "0"),
     Template("cache_timeout", "u", "stat_timeout", None),
     Template("cache_timeout", "u", "dir_timeout", None),
     Template("cache_timeout", "u", "link_timeout", None),
     Template("cache_stat_timeout", "u", "stat_timeout", None),
     Template("cache_dir_timeout", "u", "dir_timeout", None),
     Template("cache_link_timeout", "u", "link_timeout", None) >>

Templates(table) == {table[i] : i \in DOMAIN table}
AllTemplates     == Templates(ftpfs_opts) \union Templates(cache_opts)

\* A command line: the name of an option that stands alone has a dash, which no
\* template has of an option that sets a field.  A list is not empty and does not
\* look like "-o" itself.
IsLine(line) ==
  /\ line \in Seq(Argument) /\ line # <<>>
  /\ \A i \in DOMAIN line :
       /\ line[i].form = "dash" =>
            /\ Len(line[i].opts) = 1
            /\ \A t \in AllTemplates : t.name = line[i].opts[1].name => t.field = "key"
       /\ line[i].opts = <<>> =>
            line[i].form = "o" /\ (i < Len(line) => line[i + 1].form # "o")

\* struct ftpfs and struct cache when main has set its default values, and the
\* ones cache_parse_options sets.
Defaults ==
  [host |-> NoWord, mountpoint |-> NoWord, verbose |-> "0", debug |-> "0",
   transform_symlinks |-> "0", disable_epsv |-> "1", user |-> None,
   proxy_user |-> None, iocharset |-> None,
   on |-> "0", stat_timeout |-> "0", dir_timeout |-> "0", link_timeout |-> "0"]

CacheDefaults(data) ==
  [data EXCEPT !.on = "1", !.stat_timeout = "10", !.dir_timeout = "10",
               !.link_timeout = "10"]

-----------------------------------------------------------------------------
(* struct fuse_opt_context.                                                *)

Context(args, pass, data) ==
  [args |-> args, argctr |-> 2, list |-> <<>>, outargs |-> <<args[1]>>,
   opts |-> <<>>, nonopt |-> 0, pass |-> pass, data |-> data, res |-> "ok"]

Table(c) == IF c.pass = "ftpfs" THEN ftpfs_opts ELSE cache_opts

\* add_opt and add_arg.
Keep(c, arg, iso) ==
  IF iso THEN [c EXCEPT !.opts = Append(@, arg)]
         ELSE [c EXCEPT !.outargs = Append(@, arg)]

\* The host has "ftp://" before it and a slash behind.
HostOf(arg) == [arg EXCEPT !.scheme = TRUE, !.slash = TRUE]

\* ftpfs_opt_proc; the cache has no such function.
call_proc(c, arg, key, iso) ==
  IF c.pass = "cache" \/ key = "opt" THEN Keep(c, arg, iso)
  ELSE
  CASE key = "nonopt" /\ c.data.host = NoWord ->
         [c EXCEPT !.data.host = HostOf(arg)]
    [] key = "nonopt" /\ c.data.host # NoWord ->
         Keep([c EXCEPT !.data.mountpoint = IF @ = NoWord THEN arg ELSE @], arg, iso)
    [] key = "verbose" -> [c EXCEPT !.data.verbose = "1"]
    [] OTHER -> [c EXCEPT !.res = "exit"]

match_template(t, o) == t.name = o.name /\ (t.conv = None <=> o.param = None)

\* arg is an option of a list, or an argument with one option.
OptionOf(arg, iso) == IF iso THEN arg ELSE arg.opts[1]

process_opt(c, t, arg, iso) ==
  LET o == OptionOf(arg, iso) IN
  IF c.res # "ok" THEN c
  ELSE IF t.field = "key" THEN call_proc(c, arg, t.value, iso)
  ELSE IF t.conv = None THEN [c EXCEPT !.data[t.field] = t.value]
  ELSE IF t.conv = "u" /\ o.param \notin Numerals THEN [c EXCEPT !.res = "error"]
  ELSE [c EXCEPT !.data[t.field] = o.param]

\* Mutant: the first template that matches is the only one.
process_gopt_first(c, arg, iso) ==
  LET matching == SelectSeq(Table(c),
                    LAMBDA t : match_template(t, OptionOf(arg, iso)))
  IN IF matching = <<>> THEN call_proc(c, arg, "opt", iso)
     ELSE process_opt(c, Head(matching), arg, iso)

\* Every template that matches is processed, in the order of the table.
process_gopt(c, arg, iso) ==
  LET table == Table(c)
      o     == OptionOf(arg, iso)
      after[i \in 0..Len(table)] ==
        IF i = 0 THEN c
        ELSE IF match_template(table[i], o)
               THEN process_opt(after[i - 1], table[i], arg, iso)
               ELSE after[i - 1]
  IN IF \E t \in Templates(table) : match_template(t, o)
       THEN after[Len(table)] ELSE call_proc(c, arg, "opt", iso)

\* A list of options, and the first one of those that are left of it.
process_option_group(c, opts) == [c EXCEPT !.list = opts]

NextOption(c) == process_gopt([c EXCEPT !.list = Tail(@)], Head(c.list), TRUE)

\* process_one, with the step to the next argument.
process_one(c) ==
  LET arg  == c.args[c.argctr]
      next == [c EXCEPT !.argctr = @ + 1]
  IN
  IF c.nonopt # 0 \/ arg.form = "word" THEN call_proc(next, arg, "nonopt", FALSE)
  ELSE
  CASE arg.form = "o" /\ arg.opts # <<>> -> process_option_group(next, arg.opts)
    [] arg.form = "o" /\ arg.opts = <<>> /\ c.argctr = Len(c.args) ->
         [next EXCEPT !.res = "error"]
    [] arg.form = "o" /\ arg.opts = <<>> /\ c.argctr # Len(c.args) ->
         process_option_group([next EXCEPT !.argctr = @ + 1],
                              c.args[c.argctr + 1].opts)
    [] arg.form = "--" ->
         [next EXCEPT !.outargs = Append(@, arg), !.nonopt = Len(c.outargs) + 1]
    [] OTHER -> process_gopt(next, arg, FALSE)

\* The end of opt_parse: the argv that is left, with the options of all lists
\* in one.
\* Mutant: the list goes to the end.
LeftAtEnd(c) ==
  IF c.opts = <<>> THEN c.outargs
  ELSE c.outargs \o <<Arg("o", <<>>), Arg("word", c.opts)>>

Left(c) ==
  LET all == IF c.opts = <<>> THEN c.outargs
             ELSE <<c.outargs[1], Arg("o", <<>>), Arg("word", c.opts)>>
                    \o Tail(c.outargs)
  IN IF c.nonopt # 0 /\ c.nonopt = Len(all) THEN Front(all) ELSE all

-----------------------------------------------------------------------------
(* What a command line says: its options in the order in which they are    *)
(* given, those in lists and the others, and its words.                    *)

Unread ==
  [all |-> <<>>, listed |-> <<>>, single |-> <<>>, words |-> <<>>, next |-> "any"]

ReadList(r, opts) == [r EXCEPT !.all = @ \o opts, !.listed = @ \o opts, !.next = "any"]

\* The next argument is one of any kind, a list, or a word.
Read(r, arg) ==
  IF r.next = "word" \/ (r.next = "any" /\ arg.form = "word")
    THEN [r EXCEPT !.words = Append(@, arg)]
  ELSE IF r.next = "list" \/ (arg.form = "o" /\ arg.opts # <<>>)
    THEN ReadList(r, arg.opts)
  ELSE IF arg.form = "o"  THEN [r EXCEPT !.next = "list"]
  ELSE IF arg.form = "--" THEN [r EXCEPT !.next = "word"]
  ELSE [r EXCEPT !.all = @ \o arg.opts, !.single = @ \o arg.opts]

\* What the arguments up to each one say; the first is the name of the program.
Readings(line) ==
  LET upto[i \in 1..Len(line)] == IF i = 1 THEN Unread ELSE Read(upto[i - 1], line[i])
  IN upto

Reading(line) == Readings(line)[Len(line)]

\* The options that match none of the templates, in their order.
Others(options, templates) ==
  LET upto[i \in 0..Len(options)] ==
        IF i = 0 THEN <<>>
        ELSE IF \E t \in templates : match_template(t, options[i]) THEN upto[i - 1]
        ELSE Append(upto[i - 1], options[i])
  IN upto[Len(options)]

-----------------------------------------------------------------------------
(* What the usage text and the manual page (doc/curlftpfs.1) say of the    *)
(* options: how each is written, with a parameter or without, the setting  *)
(* it is about and the value it gives; None is the parameter itself.       *)

Entry(name, takes, field, value) ==
  [name |-> name, takes |-> takes, field |-> field, value |-> value]

\* The documents give ftpfs_debug alone, the program reads a level behind it.
DebugAlone == Entry("ftpfs_debug", FALSE, "debug", "1")
DebugLevel == Entry("ftpfs_debug", TRUE, "debug", None)

Manual ==
  { DebugAlone,
    Entry("transform_symlinks", FALSE, "transform_symlinks", "1"),
    Entry("disable_epsv", FALSE, "disable_epsv", "1"),
    Entry("enable_epsv", FALSE, "disable_epsv", "0"),
    Entry("user", TRUE, "user", None),
    Entry("proxy_user", TRUE, "proxy_user", None),
    Entry("cache=yes", FALSE, "on", "1"),
    Entry("cache=no", FALSE, "on", "0"),
    Entry("cache_stat_timeout", TRUE, "stat_timeout", None),
    Entry("cache_dir_timeout", TRUE, "dir_timeout", None),
    Entry("cache_link_timeout", TRUE, "link_timeout", None) }
  \union {Entry("cache_timeout", TRUE, timeout, None) :
            timeout \in {"stat_timeout", "dir_timeout", "link_timeout"}}

\* The settings when no option is about them.
Unset ==
  [debug |-> "0", transform_symlinks |-> "0", disable_epsv |-> "1", user |-> None,
   proxy_user |-> None, on |-> "1", stat_timeout |-> "10", dir_timeout |-> "10",
   link_timeout |-> "10"]

\* The entries that an option, as it is written, has for a setting.
EntriesFor(entries, o, field) ==
  {e \in entries : e.name = o.name /\ e.takes = (o.param # None) /\ e.field = field}

\* What the options say of a setting: the last one counts.
Means(entries, options, field) ==
  LET S == {i \in DOMAIN options : EntriesFor(entries, options[i], field) # {}}
      i == CHOOSE j \in S : \A k \in S : k <= j
      e == CHOOSE d \in EntriesFor(entries, options[i], field) : TRUE
  IN IF S = {} THEN Unset[field]
     ELSE IF e.value = None THEN options[i].param ELSE e.value
=============================================================================
