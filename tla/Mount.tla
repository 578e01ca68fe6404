------------------------------- MODULE Mount -------------------------------
(***************************************************************************)
(* The life of the program (main.c, with passwd.c and the set-up of        *)
(* cache.c): the command line, the start-up, the requests it serves once   *)
(* it is mounted, and the shutdown.  The requests are those of ReadPath,   *)
(* which share the connection and the multi handle made here.              *)
(*                                                                         *)
(* A user is None, "name" or "name:password".                              *)
(***************************************************************************)
EXTENDS ReadPath, Options

CONSTANTS
  CommandLines   \* bound: the command lines in use

ASSUME CommandLinesAssumption == \A line \in CommandLines : IsLine(line)

VARIABLES
  phase,     \* the place in main
  cmdline,   \* history: the command line, until FUSE has it
  ctx        \* the state of fuse_opt_parse; in its data struct ftpfs and struct
             \* cache, as far as the command line sets them

mainVars  == <<phase, cmdline, ctx>>
mountVars == <<vars, mainVars>>

opts == ctx.data

NoContext == Context(<<NoWord>>, "ftpfs", Defaults)

Continue(next) == phase' = next /\ UNCHANGED <<cmdline, ctx, vars>>

\* Every early return and exit(1); the operating system takes back the rest.
Exit == phase' = "exited" /\ UNCHANGED <<cmdline, ctx, vars>>

-----------------------------------------------------------------------------
(* Start-up.                                                               *)

\* fuse_opt_parse, for main and for cache_parse_options: one argument, or one
\* option of a list.
ParseOne ==
  /\ phase \in {"parse", "cache"}
  /\ ctx.res = "ok" /\ ctx.list = <<>> /\ ctx.argctr <= Len(ctx.args)
  /\ ctx' = process_one(ctx)
  /\ UNCHANGED <<phase, cmdline, vars>>

ParseOption ==
  /\ phase \in {"parse", "cache"}
  /\ ctx.res = "ok" /\ ctx.list # <<>>
  /\ ctx' = NextOption(ctx)
  /\ UNCHANGED <<phase, cmdline, vars>>

\* It ends with an argument that is not understood, an exit in ftpfs_opt_proc,
\* or, at any argument, no memory.
ParseFails == phase \in {"parse", "cache"} /\ Exit

ParseEnds(here, next) ==
  /\ phase = here
  /\ ctx.res = "ok" /\ ctx.list = <<>> /\ ctx.argctr > Len(ctx.args)
  /\ phase' = next
  /\ ctx' = [ctx EXCEPT !.args = Left(ctx)]
  /\ UNCHANGED <<cmdline, vars>>

\* No host, or curl_easy_init fails.  cache_parse_options then sets its defaults
\* and begins to parse what is left.
InitEasy ==
  /\ phase = "host"
  /\ \/ /\ opts.host # NoWord
        /\ phase' = "cache"
        /\ ctx' = Context(ctx.args, "cache", CacheDefaults(
                    [opts EXCEPT !.iocharset = IF @ = None THEN "UTF8" ELSE @]))
        /\ UNCHANGED <<cmdline, vars>>
     \/ Exit

\* prompt_passwd for the field who of opts.  The assertion that there is a user
\* ends the program; a user without a password is asked for one, which may
\* fail (no terminal, too long, no memory).
prompt_passwd(who, next) ==
  /\ phase = who
  /\ \/ opts[who] = None /\ phase' = "aborted" /\ UNCHANGED <<ctx, vars>>
     \/ /\ opts[who] \in {"name", "name:password"}
        /\ phase' = next
        /\ ctx' = [ctx EXCEPT !.data[who] = "name:password"]
        /\ UNCHANGED vars
     \/ opts[who] = "name" /\ phase' = "exited" /\ UNCHANGED <<ctx, vars>>
  /\ UNCHANGED cmdline

\* transform_symlinks needs a mount point that realpath can resolve.
SymlinkPrefix ==
  /\ phase = "symlinks"
  /\ \/ /\ opts.transform_symlinks = "1" => opts.mountpoint # NoWord
        /\ Continue("connect")
     \/ opts.transform_symlinks = "1" /\ Exit

\* The first request, which only shows that the server can be reached.
Connect ==
  /\ phase = "connect"
  /\ \/ Continue("multi")
     \/ Exit

InitMulti ==
  /\ phase = "multi"
  /\ \/ Continue("mount")
     \/ Exit

\* ftpfs_fuse_main.  fuse_main returns at once when it cannot mount.  FUSE gets
\* what is left of the command line, with the name of the file system; the
\* requests modelled here depend on none of the options.
FuseMain ==
  /\ phase = "mount"
  /\ \/ opts.mountpoint # NoWord /\ phase' = "serving"
     \/ phase' = "unmounted"
  /\ cmdline' = <<>>
  /\ ctx' = NoContext
  /\ UNCHANGED vars

-----------------------------------------------------------------------------
(* Service and shutdown.                                                   *)

Serving == phase = "serving" /\ Next /\ UNCHANGED mainVars

\* fuse_main returns when the requests in progress have been answered.
Unmount ==
  /\ phase = "serving" /\ pc = "idle"
  /\ Continue("unmounted")

\* Mutant: the multi handle is cleaned up with the connection still in it.
ShutdownAttached ==
  /\ phase = "unmounted"
  /\ phase' = "exited"
  /\ UNCHANGED <<vars, cmdline, ctx>>

\* The rest of main.
Shutdown ==
  /\ phase = "unmounted"
  /\ cancel_previous_multi
  /\ phase' = "exited"
  /\ UNCHANGED <<fileVars, call, ret, pc, err, bufVars, current_fh, range,
                 cmdline, ctx>>

Over == phase \in {"exited", "aborted"} /\ UNCHANGED mountVars

MountInit ==
  /\ Init
  /\ phase = "parse"
  /\ cmdline \in CommandLines
  /\ ctx = Context(cmdline, "ftpfs", Defaults)

StartUp ==
  \/ ParseOne \/ ParseOption \/ ParseFails
  \/ ParseEnds("parse", "host") \/ InitEasy \/ ParseEnds("cache", "user")
  \/ prompt_passwd("user", "proxy_user") \/ prompt_passwd("proxy_user", "symlinks")
  \/ SymlinkPrefix \/ Connect \/ InitMulti \/ FuseMain

MountNext == StartUp \/ Serving \/ Unmount \/ Shutdown \/ Over

MountSpec == MountInit /\ [][MountNext]_mountVars

\* The program goes on by itself; see Fairness for the requests.
MountFairness ==
  /\ WF_mountVars(StartUp) /\ WF_mountVars(Shutdown)
  /\ WF_mountVars(phase = "serving" /\ Serve /\ UNCHANGED mainVars)
  /\ SF_mountVars(phase = "serving" /\ SelectReturns /\ Progress
                    /\ UNCHANGED mainVars)

MountFairSpec == MountSpec /\ MountFairness

-----------------------------------------------------------------------------
(* Properties.                                                             *)

\* Every option the manual page has takes effect, as the page says, in struct
\* ftpfs or in struct cache, whatever the order and the grouping; of two about the
\* same setting the last counts, and cache_timeout sets the three timeouts.  But
\* for ftpfs_debug: the page and the usage text give it alone
\* (doc/curlftpfs.1:111), the template takes it with a level only (main.c:37), and
\* alone it goes to FUSE.
SettingsTaken ==
  phase = "user" =>
    LET given == Reading(cmdline)
        known == (Manual \ {DebugAlone}) \union {DebugLevel}
    IN
    /\ \A field \in DOMAIN Unset : opts[field] = Means(known, given.all, field)
    /\ opts.verbose = "1" <=> \E i \in DOMAIN given.all :
                               given.all[i] = [name |-> "-v", param |-> None]
    /\ opts.host = HostOf(given.words[1])

\* FUSE gets the options that neither table has, in their order, and the words
\* after the host: it reads what is left as if the program had not been there.
RestToFuse ==
  phase = "user" =>
    LET given == Reading(cmdline)
        left  == Reading(ctx.args)
    IN
    /\ left.listed = Others(given.listed, AllTemplates)
    /\ left.single = Others(given.single, AllTemplates)
    /\ left.words = Tail(given.words)

\* The program ends, mounted or not, with no transfer left in the handles of
\* libcurl that it has destroyed, whatever read was the last.
NoTransferLeft ==
  phase = "exited" => transfer.state = "none" /\ ~attached_to_multi

\* "curlftpfs <ftpsite> <mountpoint> ex.: curlftpfs ftp://ftp.sunet.se/ sunet/"
\* (README:33-36): a command line with just these two is one to start with.
StartsAsDocumented == phase # "aborted"
=============================================================================
