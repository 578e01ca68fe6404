------------------------------- MODULE Cache -------------------------------
(***************************************************************************)
(* The attribute cache (cache.c) above the FTP operations that fill it     *)
(* (ftpfs_getattr, ftpfs_getdir, ftpfs_readlink and parse_dir).            *)
(*                                                                         *)
(* FUSE worker threads serve requests at the same time.  A lookup looks in *)
(* the table, and on a miss lists a directory on the server, adds every    *)
(* line of the listing to the table, and answers.  A mutation changes the  *)
(* server and, when it succeeded, purges entries.  The table is locked     *)
(* within each access and not from the listing to the insertion, nor from  *)
(* the change to the purge.                                                *)
(*                                                                         *)
(* The attributes of a file (struct stat) are one value of Attrs, the      *)
(* values in Links being symbolic links; the target of a link is named by  *)
(* the same value.                                                         *)
(***************************************************************************)
EXTENDS Integers, FiniteSets

CONSTANTS
  Workers,         \* FUSE worker threads
  Paths, Root,     \* the path names in use, and "/"
  Parent, Name,    \* the directory of each path (strrchr in cache_purge_parent)
                   \* and its name there
  Attrs, Links,    \* what a listing line says of a file; the ones for links
  InitTrees,       \* bound: what the server may hold before the first request
  stat_timeout, dir_timeout, link_timeout,  \* options, in ticks of the clock
  MIN_CACHE_CLEAN_INTERVAL, CACHE_CLEAN_INTERVAL, MAX_CACHE_SIZE,
  Epoch,           \* the time at which the program starts
  MaxTime,         \* bound: the clock stops here
  MaxCalls,        \* bound: number of requests
  Mutations,       \* the kinds of mutation that occur
  Failures         \* a listing, or the reply to a command, may be lost

ASSUME ConstantsAssumption ==
  /\ Root \in Paths
  /\ Parent \in [Paths -> Paths] /\ Parent[Root] = Root
  /\ Links \subseteq Attrs
  /\ stat_timeout \in Nat /\ dir_timeout \in Nat /\ link_timeout \in Nat
  /\ MIN_CACHE_CLEAN_INTERVAL \in Nat /\ CACHE_CLEAN_INTERVAL \in Nat
  /\ MAX_CACHE_SIZE \in Nat
  /\ Epoch \in Nat \ {0} /\ MaxTime \in Nat /\ MaxCalls \in Nat
  /\ Mutations \subseteq {"create", "unlink", "change", "rename", "upload"}
  /\ Failures \in BOOLEAN
  /\ Attrs \intersect {"zero", "absent", "null", "junk"} = {}

VARIABLES
  now,           \* time(NULL)
  table,         \* cache.table: a node for each path it holds
  last_cleaned,
  host,          \* the string ftpfs.host: "live", "freed", or "undefined" once
                 \* a freed one has been used
  server,        \* attributes of each path on the server, or "absent"
  pc, req,       \* each worker's place and request
  listing,       \* the listing a worker has fetched: path -> attributes
  todo,          \* the lines of it not yet parsed
  line,          \* the line being parsed
  linkbuf,       \* the buffer of a readlink request
  calls,         \* number of requests so far
  outdated,      \* history: lines of a worker's listing that were lost, or
                 \* changed on the server since
  stale,         \* history: paths whose attributes were cached from such a
                 \* line, or changed by what no purge follows
  staleDir       \* the same for cached directories

listVars   == <<listing, todo, line, linkbuf, outdated>>
ghostVars  == <<stale, staleDir>>
vars == <<now, table, last_cleaned, host, server, pc, req, listVars, calls,
          ghostVars>>

-----------------------------------------------------------------------------
(* struct node and the table.  A fresh node is zeroed (g_new0): its stat is *)
(* "zero", its dir and its link are NULL, its times are 0.  A buffer that    *)
(* nothing was written to holds "junk".                                     *)

Null == "null"
Junk == "junk"

FreshNode ==
  [stat |-> "zero", not_found |-> FALSE, stat_valid |-> 0,
   dir |-> {Null}, dir_valid |-> 0, link |-> Null, link_valid |-> 0,
   valid |-> 0]

\* cache_get: the node of path, a fresh one if there is none.
cache_get(path) == IF path \in DOMAIN table THEN table[path] ELSE FreshNode

MaxOf(a, b) == IF a > b THEN a ELSE b

Restricted(t, P) == [p \in P |-> t[p]]

\* The table with node stored for path.
Stored(path, node) ==
  [p \in DOMAIN table \union {path} |-> IF p = path THEN node ELSE table[p]]

\* cache_clean_entry
CleanEntry(node) == now > node.valid

\* cache_clean, on the table t just stored.
CleanDue(t) ==
  /\ now > last_cleaned + MIN_CACHE_CLEAN_INTERVAL
  /\ \/ Cardinality(DOMAIN t) > MAX_CACHE_SIZE
     \/ now > last_cleaned + CACHE_CLEAN_INTERVAL

cache_clean(t) ==
  IF CleanDue(t)
    THEN /\ table' = Restricted(t, {p \in DOMAIN t : ~CleanEntry(t[p])})
         /\ last_cleaned' = now
    ELSE table' = t /\ UNCHANGED last_cleaned

\* cache_add_attr with a stat, and with NULL for a file that is not there.
\* Mutant: the node is kept only as long as the part stored last.
cache_add_attr_valid(path, attr) ==
  LET node == cache_get(path)
      until == now + stat_timeout
  IN cache_clean(Stored(path,
       [node EXCEPT !.stat = IF attr = "absent" THEN @ ELSE attr,
                    !.not_found = (attr = "absent"),
                    !.stat_valid = until,
                    !.valid = until]))

\* Mutant: the attributes of a file that is not there are stored too.
cache_add_attr_null(path, attr) ==
  LET node == cache_get(path)
      until == now + stat_timeout
  IN cache_clean(Stored(path,
       [node EXCEPT !.stat = attr,
                    !.not_found = (attr = "absent"),
                    !.stat_valid = until,
                    !.valid = MaxOf(@, until)]))

cache_add_attr(path, attr) ==
  LET node == cache_get(path)
      until == now + stat_timeout
  IN cache_clean(Stored(path,
       [node EXCEPT !.stat = IF attr = "absent" THEN @ ELSE attr,
                    !.not_found = (attr = "absent"),
                    !.stat_valid = until,
                    !.valid = MaxOf(@, until)]))

cache_add_dir(path, names) ==
  LET node == cache_get(path)
      until == now + dir_timeout
  IN cache_clean(Stored(path,
       [node EXCEPT !.dir = names,
                    !.not_found = FALSE,
                    !.dir_valid = until,
                    !.valid = MaxOf(@, until)]))

cache_add_link(path, target) ==
  LET node == cache_get(path)
      until == now + link_timeout
  IN cache_clean(Stored(path,
       [node EXCEPT !.link = target,
                    !.not_found = FALSE,
                    !.link_valid = until,
                    !.valid = MaxOf(@, until)]))

\* cache_purge of every path of P, under one lock.
cache_purge(P) ==
  /\ table' = Restricted(table, DOMAIN table \ P)
  /\ UNCHANGED last_cleaned

\* cache_invalidate, cache_invalidate_dir and cache_do_rename.
PurgeInvalidate(path)    == {path}
PurgeInvalidateDir(path) == {path, Parent[path]}

\* Mutants: the new name keeps its entry; the directory it is in keeps its own.
PurgeRenameFrom(from, to)     == {from, Parent[from], Parent[to]}
PurgeRenameOneDir(from, to)   == {from, to, Parent[from]}
PurgeRename(from, to)    == {from, to, Parent[from], Parent[to]}

-----------------------------------------------------------------------------
(* The server.                                                             *)

Children(dir) == {p \in Paths \ {Root} : Parent[p] = dir}

Present(dir) == {p \in Children(dir) : server[p] # "absent"}

IsDir(path) == path = Root \/ Children(path) # {}

\* A file is on the server only if its directory is.
Trees ==
  {t \in [Paths -> Attrs \union {"absent"}] :
     /\ t[Root] # "absent"
     /\ \A p \in Paths : t[p] # "absent" => t[Parent[p]] \in Attrs \ Links
     /\ \A p \in Paths : IsDir(p) => t[p] \notin Links}

ASSUME TreesAssumption == InitTrees \subseteq Trees

\* What a worker learns from a listing of the directory of path; when it fails
\* ftpfs_getattr and ftpfs_readlink parse the lines that had arrived.  Of the
\* root parse_dir knows the attributes without parsing any line.
Arrived(path) ==
  LET present == Present(Parent[path]) IN
  {Restricted(server, P) :
     P \in IF path = Root THEN {{Root}}
           ELSE IF Failures THEN SUBSET present ELSE {present}}

-----------------------------------------------------------------------------
(* Lookups.                                                                *)

NoReq == [op |-> "none"]

NoListing == Restricted(Parent, {})

Begin(w, request, label) ==
  /\ pc[w] = "idle"
  /\ calls < MaxCalls
  /\ calls' = calls + 1
  /\ pc' = [pc EXCEPT ![w] = label]
  /\ req' = [req EXCEPT ![w] = request]
  /\ UNCHANGED <<now, host, table, last_cleaned, server, listVars, ghostVars>>

Goto(w, label) == pc' = [pc EXCEPT ![w] = label] /\ UNCHANGED req

Return(w) ==
  /\ pc' = [pc EXCEPT ![w] = "idle"]
  /\ req' = [req EXCEPT ![w] = NoReq]

\* The listing is freed when it has been parsed.
Forget(w) ==
  /\ listing' = [listing EXCEPT ![w] = NoListing]
  /\ todo' = [todo EXCEPT ![w] = {}]
  /\ line' = [line EXCEPT ![w] = Root]
  /\ linkbuf' = [linkbuf EXCEPT ![w] = Junk]
  /\ outdated' = [outdated EXCEPT ![w] = {}]

BeginLookup(w) ==
  \E path \in Paths, op \in {"getattr", "getdir", "readlink"} :
    /\ op = "getdir" => IsDir(path)
    /\ op = "readlink" => Links # {} /\ ~IsDir(path)
    /\ Begin(w, [op |-> op, path |-> path], "lookup")

\* Whether the table answers a request: cache_get_attr, and the first halves
\* of cache_getdir and cache_readlink.
Hit(op, path) ==
  /\ path \in DOMAIN table
  /\ \/ op = "getattr" /\ table[path].stat_valid >= now
     \/ /\ op = "getdir" /\ table[path].dir # {Null}
        /\ table[path].dir_valid >= now
     \/ op = "readlink" /\ table[path].link_valid >= now

Lookup(w) ==
  /\ pc[w] = "lookup"
  /\ IF Hit(req[w].op, req[w].path) THEN Return(w) ELSE Goto(w, "list")
  /\ UNCHANGED <<now, host, table, last_cleaned, server, listVars, calls,
                 ghostVars>>

\* ftpfs_getattr and ftpfs_readlink list the directory of the path.
ListParent(w) ==
  LET path == req[w].path IN
  /\ pc[w] = "list"
  /\ req[w].op # "getdir"
  /\ host = "live"
  /\ \E l \in Arrived(path) :
       /\ listing' = [listing EXCEPT ![w] = l]
       /\ todo' = [todo EXCEPT ![w] = DOMAIN l \ {Root}]
       /\ outdated' = [outdated EXCEPT ![w] = Present(Parent[path]) \ DOMAIN l]
  /\ Goto(w, "parse")
  /\ UNCHANGED <<now, host, table, last_cleaned, server, line, linkbuf, calls,
                 ghostVars>>

\* ftpfs_getdir parses nothing when the listing fails.
ListDir(w) ==
  LET path == req[w].path IN
  /\ pc[w] = "list"
  /\ req[w].op = "getdir"
  /\ host = "live"
  /\ \/ /\ server[path] # "absent"
        /\ listing' = [listing EXCEPT ![w] = Restricted(server, Present(path))]
        /\ todo' = [todo EXCEPT ![w] = Present(path)]
        /\ outdated' = [outdated EXCEPT ![w] = {}]
        /\ Goto(w, "parse")
     \/ /\ server[path] = "absent" \/ Failures
        /\ Return(w)
        /\ UNCHANGED <<listing, todo, outdated>>
  /\ UNCHANGED <<now, host, table, last_cleaned, server, line, linkbuf, calls,
                 ghostVars>>

\* The history of an insertion by w.
NoteAttr(w, path) ==
  /\ stale' = IF path \in outdated[w] THEN stale \union {path}
                                      ELSE stale \ {path}
  /\ UNCHANGED staleDir

\* One line of the listing in parse_dir: a link is added first and, for
\* ftpfs_readlink, copied to linkbuf whatever its name is; its attributes are
\* added in the next step, by parse_dir or cache_dirfill, under the same path.
LinkCopied(w, path) ==
  IF req[w].op = "readlink" THEN listing[w][path] ELSE linkbuf[w]

ParseLink(w) ==
  /\ pc[w] = "parse"
  /\ \E path \in todo[w] :
       /\ listing[w][path] \in Links
       /\ todo' = [todo EXCEPT ![w] = @ \ {path}]
       /\ line' = [line EXCEPT ![w] = path]
       /\ linkbuf' = [linkbuf EXCEPT ![w] = LinkCopied(w, path)]
       /\ cache_add_link(path, listing[w][path])
       /\ stale' = stale \union ({path} \intersect outdated[w])
  /\ Goto(w, "attr")
  /\ UNCHANGED <<now, host, server, listing, calls, outdated, staleDir>>

ParseLinkAttr(w) ==
  /\ pc[w] = "attr"
  /\ cache_add_attr(line[w], listing[w][line[w]])
  /\ NoteAttr(w, line[w])
  /\ line' = [line EXCEPT ![w] = Root]
  /\ Goto(w, "parse")
  /\ UNCHANGED <<now, host, server, listing, todo, linkbuf, outdated, calls>>

ParseFile(w) ==
  /\ pc[w] = "parse"
  /\ \E path \in todo[w] :
       /\ listing[w][path] \notin Links
       /\ todo' = [todo EXCEPT ![w] = @ \ {path}]
       /\ cache_add_attr(path, listing[w][path])
       /\ NoteAttr(w, path)
  /\ Goto(w, "parse")
  /\ UNCHANGED <<now, host, server, listing, line, linkbuf, outdated, calls>>

\* The end of cache_getattr: what the listing said of the path is added, and
\* -ENOENT when it said nothing.
AddAttr(w) ==
  LET path == req[w].path
      attr == IF path \in DOMAIN listing[w] THEN listing[w][path] ELSE "absent"
  IN
  /\ pc[w] = "parse" /\ todo[w] = {}
  /\ req[w].op = "getattr"
  /\ cache_add_attr(path, attr)
  /\ NoteAttr(w, path)
  /\ Return(w) /\ Forget(w)
  /\ UNCHANGED <<now, host, server, calls>>

\* The end of cache_readlink: what linkbuf holds is added when the path was
\* listed, nothing when it was not.
AddLink(w) ==
  LET path == req[w].path IN
  /\ pc[w] = "parse" /\ todo[w] = {}
  /\ req[w].op = "readlink"
  /\ path \in DOMAIN listing[w]
  /\ cache_add_link(path, linkbuf[w])
  /\ stale' = stale \union ({path} \intersect outdated[w])
  /\ Return(w) /\ Forget(w)
  /\ UNCHANGED <<now, host, server, calls, staleDir>>

LinkNotFound(w) ==
  /\ pc[w] = "parse" /\ todo[w] = {}
  /\ req[w].op = "readlink"
  /\ req[w].path \notin DOMAIN listing[w]
  /\ Return(w) /\ Forget(w)
  /\ UNCHANGED <<now, host, table, last_cleaned, server, calls, ghostVars>>

\* The end of cache_getdir.
AddDir(w) ==
  LET path  == req[w].path
      names == DOMAIN listing[w]
  IN
  /\ pc[w] = "parse" /\ todo[w] = {}
  /\ req[w].op = "getdir"
  /\ cache_add_dir(path, names)
  /\ staleDir' = IF outdated[w] \intersect Children(path) # {}
                   THEN staleDir \union {path} ELSE staleDir \ {path}
  /\ stale' = stale \union ({path} \intersect outdated[w])
  /\ Return(w) /\ Forget(w)
  /\ UNCHANGED <<now, host, server, calls>>

-----------------------------------------------------------------------------
(* Mutations: mknod, mkdir and create are "create", unlink and rmdir        *)
(* "unlink", and chmod, chown, truncate, ftruncate, utime and write         *)
(* "change".  "upload" is what open with O_TRUNC, flush, fsync and release  *)
(* do to the file of a handle: cache_init leaves these as they are, so that *)
(* no purge follows.                                                        *)

BeginMutation(w) ==
  \E op \in Mutations, path \in Paths \ {Root}, to \in Paths \ {Root} :
    /\ IF op = "rename" THEN IsDir(path) = IsDir(to) /\ to # path ELSE to = path
    /\ Begin(w, [op |-> op, path |-> path, to |-> to], "mutate")

\* The child of another directory that has the same name as p.
Twin(p, dir) == {q \in Children(dir) : Name[q] = Name[p]}

\* Bound: the root's directories hold no directories, so that a rename moves
\* the children of a directory and nothing below them.
ASSUME DepthAssumption == \A p \in Paths : Parent[Parent[p]] = Root

\* The tree from moved to to, replacing what was there.
Moved(from, to) ==
  [p \in Paths |->
     IF p = to THEN server[from]
     ELSE IF Parent[p] = to /\ Twin(p, from) # {}
            THEN server[CHOOSE q \in Twin(p, from) : TRUE]
     ELSE IF p = from \/ Parent[p] \in {from, to} THEN "absent"
     ELSE server[p]]

\* The trees the server may hold after a command it accepts.
Effects(r) ==
  CASE r.op = "create" /\ server[r.path] = "absent"
         /\ server[Parent[r.path]] # "absent" ->
         {[server EXCEPT ![r.path] = a] : a \in Attrs \ Links}
    [] r.op = "unlink" /\ server[r.path] # "absent" /\ Present(r.path) = {} ->
         {[server EXCEPT ![r.path] = "absent"]}
    [] r.op = "change" /\ server[r.path] \in Attrs \ Links ->
         {[server EXCEPT ![r.path] = a] : a \in Attrs \ Links}
    [] r.op = "upload" /\ server[r.path] \notin Links /\ ~IsDir(r.path)
         /\ server[Parent[r.path]] # "absent" ->
         {[server EXCEPT ![r.path] = a] : a \in Attrs \ Links}
    [] r.op = "rename" /\ server[r.path] # "absent" /\ Present(r.to) = {}
         /\ server[Parent[r.to]] # "absent" -> {Moved(r.path, r.to)}
    [] OTHER -> {}

\* The entries the code purges after a command.
Purged(r) ==
  CASE r.op = "change" -> PurgeInvalidate(r.path)
    [] r.op = "rename" -> PurgeRename(r.path, r.to)
    [] OTHER           -> PurgeInvalidateDir(r.path)

\* What a change of the tree makes out of date.
Changed(tree)     == {p \in Paths : tree[p] # server[p]}
ChangedDirs(tree) == {Parent[p] : p \in {q \in Paths \ {Root} :
                        (tree[q] = "absent") # (server[q] = "absent")}}

Below(r) == IF r.op = "rename" THEN Children(r.path) \union Children(r.to)
                              ELSE {}

\* A command is sent to a URL that begins with ftpfs.host, except the writes
\* and truncations of an open handle, its upload, and utime, which sends none.
CanSend(w) ==
  pc[w] = "mutate" /\ (host = "live" \/ req[w].op \in {"change", "upload"})

\* ftpfs_do_cmd frees its URL, which for a rename is ftpfs.host itself.
Sent(w, label) ==
  CASE req[w].op = "rename" -> Goto(w, label)
    [] label = "free_ok" /\ req[w].op \notin {"rename", "upload"} ->
         Goto(w, "purge")
    [] OTHER                -> Return(w)

\* The command fails, on the server or before it.
MutateRefused(w) ==
  /\ CanSend(w)
  /\ Effects(req[w]) = {} \/ Failures
  /\ Sent(w, "free_err")
  /\ UNCHANGED <<now, host, table, last_cleaned, server, listVars, calls,
                 ghostVars>>

\* The command takes effect.  When its reply is lost the worker returns an
\* error and purges nothing; a purge does not reach below a renamed directory.
\* What is left in the table is recorded as stale.
Missed(r, tree, reply) ==
  IF reply /\ r.op # "upload" THEN Below(r) ELSE Changed(tree)
MissedDirs(r, tree, reply) ==
  IF reply /\ r.op # "upload" THEN {} ELSE ChangedDirs(tree)

Mutate(w) ==
  /\ CanSend(w)
  /\ \E tree \in Effects(req[w]),
        reply \in IF Failures THEN BOOLEAN ELSE {TRUE} :
       /\ server' = tree
       /\ outdated' = [v \in Workers |->
                         IF pc[v] \in {"parse", "attr"}
                           THEN outdated[v] \union Changed(tree) ELSE {}]
       /\ stale' = stale \union Missed(req[w], tree, reply)
       /\ staleDir' = staleDir \union MissedDirs(req[w], tree, reply)
       /\ Sent(w, IF reply THEN "free_ok" ELSE "free_err")
  /\ UNCHANGED <<now, host, table, last_cleaned, listing, todo, line, linkbuf,
                 calls>>

FreeHost(w) ==
  /\ pc[w] \in {"free_ok", "free_err"}
  /\ host = "live"
  /\ host' = "freed"
  /\ IF pc[w] = "free_ok" THEN Goto(w, "purge") ELSE Return(w)
  /\ UNCHANGED <<now, table, last_cleaned, server, listVars, calls, ghostVars>>

\* A worker uses the freed string: to build a URL, for its length in the call of
\* parse_dir after the listing, or to free it again.  What follows is undefined,
\* and nothing more is said of the program.
UseFreedHost(w) ==
  /\ host = "freed"
  /\ \/ pc[w] \in {"list", "mutate", "free_ok", "free_err"}
     \/ pc[w] = "parse" /\ todo[w] = DOMAIN listing[w] \ {Root}
  /\ host' = "undefined"
  /\ UNCHANGED <<now, table, last_cleaned, server, pc, req, listVars, calls,
                 ghostVars>>

Purge(w) ==
  /\ pc[w] = "purge"
  /\ cache_purge(Purged(req[w]))
  /\ stale' = stale \intersect DOMAIN table'
  /\ staleDir' = staleDir \intersect DOMAIN table'
  /\ Return(w)
  /\ UNCHANGED <<now, host, server, listVars, calls>>

-----------------------------------------------------------------------------
Tick ==
  /\ now < MaxTime
  /\ now' = now + 1
  /\ UNCHANGED <<table, last_cleaned, host, server, pc, req, listVars, calls,
                 ghostVars>>

Undefined == host = "undefined" /\ UNCHANGED vars

\* No request is being served; the bounds may allow no more.
Quiet == (\A w \in Workers : pc[w] = "idle") /\ UNCHANGED vars

Init ==
  /\ now = Epoch
  /\ table = Restricted(Parent, {})
  /\ last_cleaned = 0
  /\ host = "live"
  /\ server \in InitTrees
  /\ pc = [w \in Workers |-> "idle"]
  /\ req = [w \in Workers |-> NoReq]
  /\ listing = [w \in Workers |-> NoListing]
  /\ todo = [w \in Workers |-> {}]
  /\ line = [w \in Workers |-> Root]
  /\ linkbuf = [w \in Workers |-> Junk]
  /\ calls = 0
  /\ outdated = [w \in Workers |-> {}]
  /\ stale = {}
  /\ staleDir = {}

WorkerStep(w) ==
  \/ BeginLookup(w) \/ BeginMutation(w)
  \/ Lookup(w) \/ ListParent(w) \/ ListDir(w)
  \/ ParseLink(w) \/ ParseLinkAttr(w) \/ ParseFile(w)
  \/ AddAttr(w) \/ AddLink(w) \/ LinkNotFound(w) \/ AddDir(w)
  \/ MutateRefused(w) \/ Mutate(w) \/ FreeHost(w) \/ Purge(w)
  \/ UseFreedHost(w)

Next ==
  \/ host # "undefined" /\ \E w \in Workers : WorkerStep(w)
  \/ host # "undefined" /\ Tick
  \/ Quiet
  \/ Undefined

Spec == Init /\ [][Next]_vars

-----------------------------------------------------------------------------
(* Properties.                                                             *)

Nodes ==
  [stat : Attrs \union {"zero"}, not_found : BOOLEAN, stat_valid : Nat,
   dir : SUBSET (Paths \union {Null}), dir_valid : Nat,
   link : Links \union {Null, Junk}, link_valid : Nat, valid : Nat]

\* Every variable has its type.
TypeOK ==
  /\ now \in Nat
  /\ DOMAIN table \subseteq Paths
  /\ \A p \in DOMAIN table : table[p] \in Nodes
  /\ last_cleaned \in Nat
  /\ host \in {"live", "freed", "undefined"}
  /\ server \in Trees
  /\ pc \in [Workers -> {"idle", "lookup", "list", "parse", "attr", "mutate",
                         "free_ok", "free_err", "purge"}]
  /\ todo \in [Workers -> SUBSET Paths]
  /\ \A w \in Workers : todo[w] \subseteq DOMAIN listing[w]
  /\ line \in [Workers -> Paths]
  /\ linkbuf \in [Workers -> Links \union {Junk}]
  /\ stale \subseteq Paths /\ staleDir \subseteq Paths

\* The time until which a node answers some request.
LiveUntil(node) ==
  MaxOf(node.stat_valid, MaxOf(node.dir_valid, node.link_valid))

\* Cleaning the table never takes an answer away: a node that can still answer
\* a request leaves the table only through the purge of a mutation, whatever
\* the three timeouts are and in whatever order the three parts were cached.
LiveKept ==
  [][\A p \in DOMAIN table :
       LiveUntil(table[p]) >= now /\ p \notin DOMAIN table'
         => \E w \in Workers : pc[w] = "purge" /\ pc'[w] = "idle"]_vars

\* A mutation that has changed the server and not yet purged the table.
Pending(p) ==
  \E w \in Workers : /\ pc[w] \in {"free_ok", "purge"}
                     /\ p \in {req[w].path, req[w].to}
PendingIn(dir) ==
  \E w \in Workers : /\ pc[w] \in {"free_ok", "purge"}
                     /\ dir \in {req[w].path, req[w].to,
                                 Parent[req[w].path], Parent[req[w].to]}

\* What getattr is answered from the table is what the server has, unless the
\* mutation that changed it has yet to purge, or the answer came from a
\* listing that was incomplete or overtaken by the change, or the path lies
\* under a renamed directory, or the reply to the change was lost, or the
\* change is an upload, which purges nothing.
AttrCoherent ==
  \A p \in DOMAIN table :
    Hit("getattr", p) =>
      \/ server[p] = IF table[p].not_found THEN "absent" ELSE table[p].stat
      \/ p \in stale \/ Pending(p)

\* The same for the names of a directory.
DirCoherent ==
  \A p \in DOMAIN table :
    Hit("getdir", p) =>
      table[p].dir = Present(p) \/ p \in staleDir \/ PendingIn(p)

\* "parse_dir(list, "/", "molbio", &sbuf, linkbuf, 1024, NULL, NULL)" leaves the
\* target of molbio in linkbuf (tests/ftpfs-ls_unittest.c:100): what readlink is
\* answered from the table is the target that the named link has on the server.
LinkOfItsName ==
  \A p \in DOMAIN table :
    Hit("readlink", p) /\ server[p] \in Links => table[p].link = server[p]

\* "the tools that I was used to, like cd, mv, cp and vim" (README:10): the
\* mount goes on working after a rename.
HostUsable == host # "undefined"
=============================================================================
