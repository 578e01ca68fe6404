-------------------------- MODULE CoherenceProofs --------------------------
(***************************************************************************)
(* What the attribute cache answers is what the server has, for every      *)
(* number of workers and requests, every set of paths, and every timeout   *)
(* and cleaning interval: AttrCoherent, DirCoherent and TypeOK.            *)
(*                                                                         *)
(* Neither property is inductive.  An answer is as good as the listing it  *)
(* was added from, so that ListingTrue says what each line that a worker   *)
(* still has to add is worth; cache_add_link and cache_add_dir make a      *)
(* missing file found again with its old attributes, so that the listing   *)
(* must also say that the file was there; an answer that expires may not   *)
(* come back, so that AttrInv and DirInv do not mention the clock; and the *)
(* purge after a "change" leaves the directory alone, so that a directory  *)
(* counts as awaiting a purge (Awaited) only where that purge reaches it,  *)
(* which is less than DirCoherent allows.                                  *)
(***************************************************************************)
EXTENDS CacheProofs

Labels == {"idle", "lookup", "list", "parse", "attr", "mutate", "free_ok",
           "free_err", "purge"}

\* The variables that every worker has a part of are functions.
ShapeInv ==
  /\ pc \in [Workers -> Labels]
  /\ req = [w \in Workers |-> req[w]]
  /\ listing = [w \in Workers |-> listing[w]]
  /\ todo \in [Workers -> SUBSET Paths]
  /\ line \in [Workers -> Paths]
  /\ linkbuf \in [Workers -> Links \union {Junk}]
  /\ outdated = [w \in Workers |-> outdated[w]]

\* The table, the clock and the server hold what they should.
StoreInv ==
  /\ now \in Nat \ {0}
  /\ last_cleaned \in Nat
  /\ host \in {"live", "freed", "undefined"}
  /\ DOMAIN table \subseteq Paths
  /\ \A p \in DOMAIN table : table[p] \in Nodes
  /\ server \in [Paths -> Attrs \union {"absent"}]
  /\ stale \subseteq Paths /\ staleDir \subseteq Paths

\* The request of a worker, by the part of the code it is in.
LookupReq(r) ==
  /\ r.path \in Paths
  /\ r.op \in {"getattr", "getdir", "readlink"}
  /\ r.op = "readlink" => r.path # Root

MutationReq(r) ==
  /\ r.op \in Mutations
  /\ r.path \in Paths \ {Root} /\ r.to \in Paths \ {Root}
  /\ IF r.op = "rename" THEN IsDir(r.path) = IsDir(r.to) /\ r.to # r.path
                        ELSE r.to = r.path

ReqInv(w) ==
  /\ pc[w] \in {"lookup", "list", "parse", "attr"} => LookupReq(req[w])
  /\ pc[w] \in {"mutate", "free_ok", "free_err", "purge"} =>
       MutationReq(req[w])

\* The lines a worker has, and the ones it has still to add.
ListingTyped(w) ==
  /\ DOMAIN listing[w] \subseteq Paths
  /\ \A p \in DOMAIN listing[w] : listing[w][p] \in Attrs \union {"absent"}
  /\ todo[w] \subseteq DOMAIN listing[w] \ {Root}
  /\ pc[w] = "attr" => line[w] \in DOMAIN listing[w] \ {Root}

\* A line that is not out of date is what the server has, and a path that was
\* not listed is not there.
LinesTrue(w) ==
  \A p \in DOMAIN listing[w] \ outdated[w] :
    listing[w][p] = server[p] /\ (p # Root => server[p] # "absent")

ParentTrue(w) ==
  LET path == req[w].path IN
  \/ path \in DOMAIN listing[w] \/ path \in outdated[w]
  \/ server[path] = "absent"

DirTrue(w) ==
  LET path == req[w].path IN
  /\ server[path] # "absent" \/ path \in outdated[w]
  /\ DOMAIN listing[w] \subseteq Children(path)
  /\ \A q \in Children(path) \ outdated[w] :
       q \in DOMAIN listing[w] <=> server[q] # "absent"

ListingTrue(w) ==
  pc[w] \in {"parse", "attr"} =>
    /\ LinesTrue(w)
    /\ IF req[w].op = "getdir" THEN DirTrue(w) ELSE ParentTrue(w)

WorkerInv == \A w \in Workers : ReqInv(w) /\ ListingTyped(w) /\ ListingTrue(w)

\* A mutation has changed the server and will purge the entry of d.
Awaited(d) ==
  \E w \in Workers : pc[w] \in {"free_ok", "purge"} /\ d \in Purged(req[w])

\* A node's attributes, once stored, and its names.
SaysAttr(n, a) == a = IF n.not_found THEN "absent" ELSE n.stat

AttrInv ==
  \A p \in DOMAIN table :
    table[p].stat_valid # 0 =>
      SaysAttr(table[p], server[p]) \/ p \in stale \/ Pending(p)

DirInv ==
  \A p \in DOMAIN table :
    table[p].dir # {Null} =>
      table[p].dir = Present(p) \/ p \in staleDir \/ Awaited(p)

CoherenceInv ==
  ShapeInv /\ StoreInv /\ WorkerInv /\ AttrInv /\ DirInv

-----------------------------------------------------------------------------
\* cache_get returns a node, also for a path the table does not hold.
LEMMA GetNode ==
  ASSUME StoreInv, NEW path
  PROVE  /\ cache_get(path) \in Nodes
         /\ path \notin DOMAIN table =>
              cache_get(path).stat_valid = 0 /\ cache_get(path).dir = {Null}
<1>1. FreshNode \in Nodes
  BY DEF FreshNode, Nodes, Null
<1>2. FreshNode.stat_valid = 0 /\ FreshNode.dir = {Null}
  BY DEF FreshNode
<1> QED BY <1>1, <1>2 DEF StoreInv, cache_get

\* Storing a node and cleaning the table: every node that is left is the one
\* stored, or was there before.
StoredOnly(path, node) ==
  /\ \A p \in DOMAIN table' :
       \/ p = path /\ table'[p] = node
       \/ p # path /\ p \in DOMAIN table /\ table'[p] = table[p]
  /\ last_cleaned' \in Nat

\* That is what cache_clean does to the table just stored.
LEMMA StoreClean ==
  ASSUME StoreInv, NEW path, NEW node, cache_clean(Stored(path, node))
  PROVE  StoredOnly(path, node)
<1> DEFINE t == Stored(path, node)
           kept == {p \in DOMAIN t : ~CleanEntry(t[p])}
<1>1. DOMAIN t = DOMAIN table \union {path}
  BY DEF Stored
<1>2. ASSUME NEW p \in DOMAIN t
      PROVE  t[p] = IF p = path THEN node ELSE table[p]
  BY <1>2 DEF Stored
<1>3. table' = t \/ table' = [p \in kept |-> t[p]]
  BY DEF cache_clean, Restricted
<1>4. kept \subseteq DOMAIN t
  OBVIOUS
<1>5. last_cleaned' \in Nat
  BY DEF cache_clean, StoreInv
<1>6. \A p \in DOMAIN table' : p \in DOMAIN t /\ table'[p] = t[p]
  <2> HIDE DEF t, kept
  <2> QED BY <1>3, <1>4
<1> HIDE DEF t
<1> QED BY <1>1, <1>2, <1>5, <1>6 DEF StoredOnly

\* cache_add_attr stores what it is given, and leaves the names alone.
LEMMA AttrAdded ==
  ASSUME StoreInv, NEW path, NEW attr \in Attrs \union {"absent"},
         cache_add_attr(path, attr)
  PROVE  \E node \in Nodes :
           /\ StoredOnly(path, node)
           /\ SaysAttr(node, attr) /\ node.dir = cache_get(path).dir
<1> DEFINE old == cache_get(path)
           until == now + stat_timeout
           upto == MaxOf(old.valid, until)
           new == [old EXCEPT !.stat = IF attr = "absent" THEN @ ELSE attr,
                              !.not_found = (attr = "absent"),
                              !.stat_valid = until,
                              !.valid = MaxOf(@, until)]
<1>1. cache_clean(Stored(path, new))
  BY DEF cache_add_attr
<1>2. old \in Nodes
  BY GetNode
<1>3. until \in Nat
  BY ConstantsAssumption DEF StoreInv
<1> HIDE DEF old, until
<1>4. upto \in Nat
  BY <1>2, <1>3 DEF Nodes, MaxOf
<1>5. new \in Nodes
  <2> DEFINE s == IF attr = "absent" THEN old.stat ELSE attr
  <2>1. s \in Attrs \union {"zero"}
    BY <1>2 DEF Nodes
  <2>2. new = [old EXCEPT !.stat = s, !.not_found = (attr = "absent"),
                          !.stat_valid = until, !.valid = upto]
    BY <1>2 DEF Nodes
  <2> HIDE DEF upto, s, new
  <2> QED BY <1>2, <1>3, <1>4, <2>1, <2>2 DEF Nodes
<1>6. SaysAttr(new, attr) /\ new.dir = old.dir
  BY <1>2 DEF Nodes, SaysAttr
<1>7. StoredOnly(path, new)
  <2> HIDE DEF new
  <2> QED BY <1>1, StoreClean
<1> HIDE DEF new
<1> QED BY <1>5, <1>6, <1>7 DEF old

\* cache_add_dir stores the names; the file counts as found, with the
\* attributes it had.
LEMMA DirAdded ==
  ASSUME StoreInv, NEW path, NEW names \in SUBSET Paths,
         cache_add_dir(path, names)
  PROVE  \E node \in Nodes :
           /\ StoredOnly(path, node)
           /\ node.dir = names /\ ~node.not_found
           /\ node.stat = cache_get(path).stat
           /\ node.stat_valid = cache_get(path).stat_valid
<1> DEFINE old == cache_get(path)
           until == now + dir_timeout
           upto == MaxOf(old.valid, until)
           new == [old EXCEPT !.dir = names, !.not_found = FALSE,
                              !.dir_valid = until,
                              !.valid = MaxOf(@, until)]
<1>1. cache_clean(Stored(path, new))
  BY DEF cache_add_dir
<1>2. old \in Nodes
  BY GetNode
<1>3. until \in Nat
  BY ConstantsAssumption DEF StoreInv
<1> HIDE DEF old, until
<1>4. upto \in Nat
  BY <1>2, <1>3 DEF Nodes, MaxOf
<1>5. new \in Nodes
  <2>1. new = [old EXCEPT !.dir = names, !.not_found = FALSE,
                          !.dir_valid = until, !.valid = upto]
    BY <1>2 DEF Nodes
  <2> HIDE DEF upto, new
  <2> QED BY <1>2, <1>3, <1>4, <2>1 DEF Nodes
<1>6. /\ new.dir = names /\ ~new.not_found
      /\ new.stat = old.stat /\ new.stat_valid = old.stat_valid
  BY <1>2 DEF Nodes
<1>7. StoredOnly(path, new)
  <2> HIDE DEF new
  <2> QED BY <1>1, StoreClean
<1> HIDE DEF new
<1> QED BY <1>5, <1>6, <1>7 DEF old

\* cache_add_link stores the target; the file counts as found, with the
\* attributes and the names it had.
LEMMA LinkAdded ==
  ASSUME StoreInv, NEW path, NEW target \in Links \union {Junk},
         cache_add_link(path, target)
  PROVE  \E node \in Nodes :
           /\ StoredOnly(path, node)
           /\ node.dir = cache_get(path).dir /\ ~node.not_found
           /\ node.stat = cache_get(path).stat
           /\ node.stat_valid = cache_get(path).stat_valid
<1> DEFINE old == cache_get(path)
           until == now + link_timeout
           upto == MaxOf(old.valid, until)
           new == [old EXCEPT !.link = target, !.not_found = FALSE,
                              !.link_valid = until,
                              !.valid = MaxOf(@, until)]
<1>1. cache_clean(Stored(path, new))
  BY DEF cache_add_link
<1>2. old \in Nodes
  BY GetNode
<1>3. until \in Nat
  BY ConstantsAssumption DEF StoreInv
<1> HIDE DEF old, until
<1>4. upto \in Nat
  BY <1>2, <1>3 DEF Nodes, MaxOf
<1>5. new \in Nodes
  <2>1. new = [old EXCEPT !.link = target, !.not_found = FALSE,
                          !.link_valid = until, !.valid = upto]
    BY <1>2 DEF Nodes
  <2> HIDE DEF upto, new
  <2> QED BY <1>2, <1>3, <1>4, <2>1 DEF Nodes
<1>6. /\ new.dir = old.dir /\ ~new.not_found
      /\ new.stat = old.stat /\ new.stat_valid = old.stat_valid
  BY <1>2 DEF Nodes
<1>7. StoredOnly(path, new)
  <2> HIDE DEF new
  <2> QED BY <1>1, StoreClean
<1> HIDE DEF new
<1> QED BY <1>5, <1>6, <1>7 DEF old

-----------------------------------------------------------------------------
\* A step of w leaves what the other workers hold alone.
Keeps(w) ==
  \A v \in Workers \ {w} :
    /\ pc'[v] = pc[v] /\ req'[v] = req[v] /\ listing'[v] = listing[v]
    /\ todo'[v] = todo[v] /\ line'[v] = line[v] /\ outdated'[v] = outdated[v]

OneInv(w) == ReqInv(w) /\ ListingTyped(w) /\ ListingTrue(w)

\* While the server stays as it is the other workers' listings stay true.
LEMMA OthersHold ==
  ASSUME WorkerInv, NEW w \in Workers, Keeps(w), server' = server, OneInv(w)'
  PROVE  WorkerInv'
<1> SUFFICES ASSUME NEW v \in Workers, v # w PROVE OneInv(v)'
  BY DEF WorkerInv, OneInv
<1>1. OneInv(v)
  BY DEF WorkerInv, OneInv
<1>2. /\ pc'[v] = pc[v] /\ req'[v] = req[v] /\ listing'[v] = listing[v]
      /\ todo'[v] = todo[v] /\ line'[v] = line[v] /\ outdated'[v] = outdated[v]
  BY DEF Keeps
<1>3. ReqInv(v)'
  BY <1>1, <1>2 DEF OneInv, ReqInv
<1>4. ListingTyped(v)'
  BY <1>1, <1>2 DEF OneInv, ListingTyped
<1>5. ListingTrue(v)'
  BY <1>1, <1>2 DEF OneInv, ListingTrue, LinesTrue, DirTrue, ParentTrue
<1> QED BY <1>3, <1>4, <1>5 DEF OneInv

\* A step of a worker that does not purge lets no purge that is due be forgotten.
LEMMA AwaitsHold ==
  ASSUME NEW w \in Workers,
         \A v \in Workers \ {w} : pc'[v] = pc[v] /\ req'[v] = req[v],
         pc[w] \in {"free_ok", "purge"} =>
           pc'[w] \in {"free_ok", "purge"} /\ req'[w] = req[w]
  PROVE  /\ \A p : Pending(p) => Pending(p)'
         /\ \A d : Awaited(d) => Awaited(d)'
<1>1. ASSUME NEW v \in Workers, pc[v] \in {"free_ok", "purge"}
      PROVE  pc'[v] \in {"free_ok", "purge"} /\ req'[v] = req[v]
  BY <1>1
<1>2. ASSUME NEW p, Pending(p) PROVE Pending(p)'
  BY <1>1, <1>2 DEF Pending
<1>3. ASSUME NEW d, Awaited(d) PROVE Awaited(d)'
  <2>1. PICK v \in Workers :
          pc[v] \in {"free_ok", "purge"} /\ d \in Purged(req[v])
    BY <1>3 DEF Awaited
  <2>2. d \in Purged(req'[v])
    BY <1>1, <2>1
  <2> QED BY <1>1, <2>1, <2>2 DEF Awaited
<1> QED BY <1>2, <1>3

\* A step that leaves the table and the server alone keeps the answers right.
LEMMA AnswersHold ==
  ASSUME AttrInv, DirInv, table' = table, server' = server,
         stale \subseteq stale', staleDir \subseteq staleDir',
         \A p : Pending(p) => Pending(p)',
         \A d : Awaited(d) => Awaited(d)'
  PROVE  AttrInv' /\ DirInv'
<1>1. AttrInv'
  BY DEF AttrInv, SaysAttr
<1>2. DirInv'
  BY DEF DirInv, Present, Children
<1> QED BY <1>1, <1>2

-----------------------------------------------------------------------------
(* The steps that leave the table and the server alone.                    *)

\* What such a step of w does.
Looks(w) ==
  /\ ShapeInv' /\ Keeps(w) /\ OneInv(w)'
  /\ pc[w] \in {"free_ok", "purge"} =>
       pc'[w] \in {"free_ok", "purge"} /\ req'[w] = req[w]

\* The beginning of a lookup.
LEMMA BeginLookupLooks ==
  ASSUME CoherenceInv, NEW w \in Workers, BeginLookup(w)
  PROVE  Looks(w)
<1>1. PICK path \in Paths, op \in {"getattr", "getdir", "readlink"} :
        /\ op = "readlink" => ~IsDir(path)
        /\ Begin(w, [op |-> op, path |-> path], "lookup")
  BY DEF BeginLookup
<1>2. OneInv(w)
  BY DEF CoherenceInv, WorkerInv, OneInv
<1>3. /\ pc[w] = "idle" /\ pc' = [pc EXCEPT ![w] = "lookup"]
      /\ req' = [req EXCEPT ![w] = [op |-> op, path |-> path]]
      /\ UNCHANGED listVars
  BY <1>1 DEF Begin
<1>4. pc'[w] = "lookup" /\ req'[w] = [op |-> op, path |-> path]
  BY <1>3 DEF CoherenceInv, ShapeInv
<1>5. LookupReq(req'[w])
  BY <1>1, <1>4 DEF LookupReq, IsDir
<1>6. ShapeInv' /\ Keeps(w)
  BY <1>3 DEF CoherenceInv, ShapeInv, Labels, listVars, Keeps
<1>7. OneInv(w)'
  BY <1>2, <1>3, <1>4, <1>5
     DEF OneInv, ReqInv, ListingTyped, ListingTrue, listVars
<1> QED BY <1>3, <1>6, <1>7 DEF Looks

\* The beginning of a mutation.
LEMMA BeginMutationLooks ==
  ASSUME CoherenceInv, NEW w \in Workers, BeginMutation(w)
  PROVE  Looks(w)
<1>1. PICK op \in Mutations, path \in Paths \ {Root}, to \in Paths \ {Root} :
        /\ IF op = "rename" THEN IsDir(path) = IsDir(to) /\ to # path
                            ELSE to = path
        /\ Begin(w, [op |-> op, path |-> path, to |-> to], "mutate")
  BY DEF BeginMutation
<1>2. OneInv(w)
  BY DEF CoherenceInv, WorkerInv, OneInv
<1>3. /\ pc[w] = "idle" /\ pc' = [pc EXCEPT ![w] = "mutate"]
      /\ req' = [req EXCEPT ![w] = [op |-> op, path |-> path, to |-> to]]
      /\ UNCHANGED listVars
  BY <1>1 DEF Begin
<1>4. pc'[w] = "mutate" /\ req'[w] = [op |-> op, path |-> path, to |-> to]
  BY <1>3 DEF CoherenceInv, ShapeInv
<1>5. MutationReq(req'[w])
  BY <1>1, <1>4 DEF MutationReq
<1>6. ShapeInv' /\ Keeps(w)
  BY <1>3 DEF CoherenceInv, ShapeInv, Labels, listVars, Keeps
<1>7. OneInv(w)'
  BY <1>2, <1>3, <1>4, <1>5
     DEF OneInv, ReqInv, ListingTyped, ListingTrue, listVars
<1> QED BY <1>3, <1>6, <1>7 DEF Looks

\* A worker that moves on with its request, or returns, without a listing.
MovesOn(w) ==
  /\ UNCHANGED listVars
  /\ \/ pc' = pc /\ req' = req /\ server' = server
     \/ Goto(w, "list") /\ pc[w] = "lookup"
     \/ Goto(w, "free_err") /\ pc[w] = "mutate"
     \/ Goto(w, "purge") /\ pc[w] = "free_ok"
     \/ Return(w) /\ pc[w] \notin {"free_ok", "purge", "parse", "attr"}

\* Such a step keeps what is known of the worker.
LEMMA MovesOnLooks ==
  ASSUME CoherenceInv, NEW w \in Workers, MovesOn(w)
  PROVE  Looks(w)
<1>1. OneInv(w)
  BY DEF CoherenceInv, WorkerInv, OneInv
<1>2. UNCHANGED listVars
  BY DEF MovesOn
<1>3. CASE pc' = pc /\ req' = req /\ server' = server
  <2>1. ShapeInv' /\ Keeps(w)
    BY <1>2, <1>3 DEF CoherenceInv, ShapeInv, listVars, Keeps
  <2>2. OneInv(w)'
    BY <1>1, <1>2, <1>3
       DEF OneInv, ReqInv, ListingTyped, ListingTrue, LinesTrue, DirTrue,
           ParentTrue, listVars
  <2>3. pc'[w] = pc[w] /\ req'[w] = req[w]
    BY <1>3
  <2> QED BY <2>1, <2>2, <2>3 DEF Looks
<1>4. ASSUME NEW label \in Labels, Goto(w, label),
             \/ label = "list" /\ pc[w] = "lookup"
             \/ label = "free_err" /\ pc[w] = "mutate"
             \/ label = "purge" /\ pc[w] = "free_ok"
      PROVE  Looks(w)
  <2>1. pc' = [pc EXCEPT ![w] = label] /\ req' = req
    BY <1>4 DEF Goto
  <2>2. pc'[w] = label /\ req'[w] = req[w]
    BY <2>1 DEF CoherenceInv, ShapeInv
  <2>3. ShapeInv' /\ Keeps(w)
    BY <1>2, <2>1 DEF CoherenceInv, ShapeInv, listVars, Keeps
  <2>4. OneInv(w)'
    BY <1>1, <1>2, <1>4, <2>2
       DEF OneInv, ReqInv, ListingTyped, ListingTrue, listVars
  <2> QED BY <1>4, <2>2, <2>3, <2>4 DEF Looks
<1>5. CASE Return(w) /\ pc[w] \notin {"free_ok", "purge", "parse", "attr"}
  <2>1. pc' = [pc EXCEPT ![w] = "idle"] /\ req' = [req EXCEPT ![w] = NoReq]
    BY <1>5 DEF Return
  <2>2. pc'[w] = "idle"
    BY <2>1 DEF CoherenceInv, ShapeInv
  <2>3. ShapeInv' /\ Keeps(w)
    BY <1>2, <2>1 DEF CoherenceInv, ShapeInv, Labels, listVars, Keeps
  <2>4. OneInv(w)'
    BY <1>1, <1>2, <2>2
       DEF OneInv, ReqInv, ListingTyped, ListingTrue, listVars
  <2> QED BY <1>5, <2>2, <2>3, <2>4 DEF Looks
<1>6. "list" \in Labels /\ "free_err" \in Labels /\ "purge" \in Labels
  BY DEF Labels
<1>7. Goto(w, "list") /\ pc[w] = "lookup" => Looks(w)
  BY <1>4, <1>6
<1>8. Goto(w, "free_err") /\ pc[w] = "mutate" => Looks(w)
  BY <1>4, <1>6
<1>9. Goto(w, "purge") /\ pc[w] = "free_ok" => Looks(w)
  BY <1>4, <1>6
<1> QED BY <1>3, <1>5, <1>7, <1>8, <1>9 DEF MovesOn

\* A lookup, a refused command and the use of the host's name are such steps.
LEMMA OrdinaryLooks ==
  ASSUME CoherenceInv, NEW w \in Workers,
         Lookup(w) \/ MutateRefused(w) \/ FreeHost(w) \/ UseFreedHost(w)
  PROVE  Looks(w)
<1>1. ASSUME Lookup(w) PROVE MovesOn(w)
  BY <1>1 DEF Lookup, MovesOn, Return
<1>2. ASSUME MutateRefused(w) PROVE MovesOn(w)
  BY <1>2 DEF MutateRefused, MovesOn, CanSend, Sent
<1>3. ASSUME FreeHost(w) PROVE MovesOn(w)
  BY <1>3 DEF FreeHost, MovesOn
<1>4. ASSUME UseFreedHost(w) PROVE MovesOn(w)
  BY <1>4 DEF UseFreedHost, MovesOn
<1> QED BY <1>1, <1>2, <1>3, <1>4, MovesOnLooks

\* The end of a request, whose listing is forgotten.
LEMMA ForgetLooks ==
  ASSUME CoherenceInv, NEW w \in Workers, pc[w] = "parse",
         Return(w), Forget(w)
  PROVE  Looks(w)
<1>1. /\ pc' = [pc EXCEPT ![w] = "idle"] /\ req' = [req EXCEPT ![w] = NoReq]
      /\ listing' = [listing EXCEPT ![w] = NoListing]
      /\ todo' = [todo EXCEPT ![w] = {}] /\ line' = [line EXCEPT ![w] = Root]
      /\ linkbuf' = [linkbuf EXCEPT ![w] = Junk]
      /\ outdated' = [outdated EXCEPT ![w] = {}]
  BY DEF Return, Forget
<1>2. pc'[w] = "idle" /\ listing'[w] = NoListing /\ todo'[w] = {}
  BY <1>1 DEF CoherenceInv, ShapeInv
<1>3. DOMAIN NoListing = {}
  BY DEF NoListing, Restricted
<1>4. ShapeInv' /\ Keeps(w)
  BY <1>1, ConstantsAssumption DEF CoherenceInv, ShapeInv, Labels, Keeps
<1>5. OneInv(w)'
  BY <1>2, <1>3 DEF OneInv, ReqInv, ListingTyped, ListingTrue
<1> QED BY <1>4, <1>5 DEF Looks

\* The listing of the directory of a path: a line that did not arrive is out of
\* date from the start.
LEMMA ListParentLooks ==
  ASSUME CoherenceInv, NEW w \in Workers, ListParent(w)
  PROVE  Looks(w)
<1> DEFINE path == req[w].path
           here == Present(Parent[path])
<1>1. PICK l \in Arrived(path) :
        /\ listing' = [listing EXCEPT ![w] = l]
        /\ todo' = [todo EXCEPT ![w] = DOMAIN l \ {Root}]
        /\ outdated' = [outdated EXCEPT ![w] = here \ DOMAIN l]
  BY DEF ListParent
<1>2. /\ pc[w] = "list" /\ req[w].op # "getdir"
      /\ pc' = [pc EXCEPT ![w] = "parse"] /\ req' = req
      /\ server' = server /\ line' = line /\ linkbuf' = linkbuf
  BY DEF ListParent, Goto
<1>3. LookupReq(req[w])
  BY <1>2 DEF CoherenceInv, WorkerInv, ReqInv
<1>4. PICK P : /\ l = [p \in P |-> server[p]]
               /\ IF path = Root THEN P = {Root} ELSE P \subseteq here
  BY <1>1 DEF Arrived, Restricted
<1>5. here \subseteq Paths \ {Root} /\ \A p \in here : server[p] # "absent"
  BY DEF Present, Children
<1>6. path \in Paths /\ Root \in Paths
  BY <1>3, ConstantsAssumption DEF LookupReq
<1>7. DOMAIN l = P /\ P \subseteq Paths
  BY <1>4, <1>5, <1>6
<1>8. /\ pc'[w] = "parse" /\ req'[w] = req[w] /\ listing'[w] = l
      /\ todo'[w] = P \ {Root} /\ outdated'[w] = here \ P
  BY <1>1, <1>2, <1>7 DEF CoherenceInv, ShapeInv
<1> HIDE DEF here
<1>9. ShapeInv' /\ Keeps(w)
  <2>1. ShapeInv'
    BY <1>1, <1>2, <1>7 DEF CoherenceInv, ShapeInv, Labels
  <2>2. Keeps(w)
    BY <1>1, <1>2 DEF Keeps
  <2> QED BY <2>1, <2>2
<1>10. ReqInv(w)'
  BY <1>3, <1>8 DEF ReqInv
<1>11. ListingTyped(w)'
  BY <1>4, <1>7, <1>8 DEF ListingTyped, CoherenceInv, StoreInv
<1>12. LinesTrue(w)'
  BY <1>2, <1>4, <1>5, <1>7, <1>8 DEF LinesTrue
<1>13. ParentTrue(w)'
  <2>1. CASE path = Root
    BY <2>1, <1>4, <1>7, <1>8 DEF ParentTrue
  <2>2. CASE path # Root /\ server[path] # "absent"
    <3>1. path \in here
      BY <2>2, <1>6 DEF here, Present, Children
    <3> QED BY <3>1, <1>7, <1>8 DEF ParentTrue
  <2>3. CASE server[path] = "absent"
    BY <2>3, <1>2, <1>8 DEF ParentTrue
  <2> QED BY <2>1, <2>2, <2>3
<1>14. ListingTrue(w)'
  BY <1>2, <1>8, <1>12, <1>13 DEF ListingTrue
<1> QED BY <1>2, <1>9, <1>10, <1>11, <1>14 DEF Looks, OneInv

\* The listing of a directory, and its failure.
LEMMA ListDirLooks ==
  ASSUME CoherenceInv, NEW w \in Workers, ListDir(w)
  PROVE  Looks(w)
<1> DEFINE path == req[w].path
           here == Present(path)
<1>1. /\ pc[w] = "list" /\ req[w].op = "getdir"
      /\ server' = server /\ line' = line /\ linkbuf' = linkbuf
  BY DEF ListDir
<1>2. CASE Return(w) /\ UNCHANGED <<listing, todo, outdated>>
  <2>1. MovesOn(w)
    BY <1>1, <1>2 DEF MovesOn, listVars
  <2> QED BY <2>1, MovesOnLooks
<1>3. CASE /\ server[path] # "absent"
           /\ listing' = [listing EXCEPT ![w] = Restricted(server, here)]
           /\ todo' = [todo EXCEPT ![w] = here]
           /\ outdated' = [outdated EXCEPT ![w] = {}]
           /\ Goto(w, "parse")
  <2> DEFINE l == [p \in here |-> server[p]]
  <2>1. /\ pc' = [pc EXCEPT ![w] = "parse"] /\ req' = req
        /\ listing' = [listing EXCEPT ![w] = l]
    BY <1>3 DEF Goto, Restricted
  <2>2. LookupReq(req[w])
    BY <1>1 DEF CoherenceInv, WorkerInv, ReqInv
  <2>3. /\ here \subseteq Paths \ {Root} /\ here \subseteq Children(path)
        /\ \A p \in Children(path) : p \in here <=> server[p] # "absent"
    BY DEF Present, Children
  <2> HIDE DEF here
  <2>4. DOMAIN l = here /\ \A p \in here : l[p] = server[p]
    OBVIOUS
  <2> HIDE DEF l
  <2>5. /\ pc'[w] = "parse" /\ req'[w] = req[w] /\ listing'[w] = l
        /\ todo'[w] = here /\ outdated'[w] = {}
    BY <2>1, <1>3 DEF CoherenceInv, ShapeInv
  <2>6. ShapeInv'
    BY <2>1, <2>3, <1>1, <1>3 DEF CoherenceInv, ShapeInv, Labels
  <2>7. Keeps(w)
    BY <2>1, <1>1, <1>3 DEF Keeps
  <2>8. ReqInv(w)'
    BY <2>2, <2>5 DEF ReqInv
  <2>9. ListingTyped(w)'
    BY <2>3, <2>4, <2>5 DEF ListingTyped, CoherenceInv, StoreInv
  <2>10. LinesTrue(w)'
    BY <1>1, <2>3, <2>4, <2>5 DEF LinesTrue
  <2>11. DirTrue(w)'
    BY <1>1, <1>3, <2>3, <2>4, <2>5 DEF DirTrue, Children
  <2>12. ListingTrue(w)'
    BY <1>1, <2>5, <2>10, <2>11 DEF ListingTrue
  <2> QED BY <1>1, <2>6, <2>7, <2>8, <2>9, <2>12 DEF Looks, OneInv
<1> QED BY <1>2, <1>3 DEF ListDir

\* All of them keep the invariant.
LEMMA LookingStep ==
  ASSUME CoherenceInv, NEW w \in Workers,
         \/ BeginLookup(w) \/ BeginMutation(w) \/ Lookup(w) \/ ListParent(w)
         \/ ListDir(w) \/ LinkNotFound(w) \/ MutateRefused(w) \/ FreeHost(w)
         \/ UseFreedHost(w)
  PROVE  CoherenceInv'
<1>1. Looks(w)
  BY BeginLookupLooks, BeginMutationLooks, OrdinaryLooks, ListParentLooks,
     ListDirLooks, ForgetLooks DEF LinkNotFound
<1>2. /\ UNCHANGED <<now, table, last_cleaned, server, ghostVars>>
      /\ host' \in {host, "freed", "undefined"}
  BY DEF BeginLookup, BeginMutation, Begin, Lookup, ListParent, ListDir,
         LinkNotFound, MutateRefused, FreeHost, UseFreedHost
<1>3. StoreInv'
  BY <1>2 DEF CoherenceInv, StoreInv, ghostVars, Nodes
<1>4. WorkerInv'
  BY <1>1, <1>2, OthersHold DEF CoherenceInv, Looks
<1>5. (\A p : Pending(p) => Pending(p)') /\ (\A d : Awaited(d) => Awaited(d)')
  BY <1>1, AwaitsHold DEF Looks, Keeps
<1>6. AttrInv' /\ DirInv'
  BY <1>2, <1>5, AnswersHold DEF CoherenceInv, ghostVars
<1> QED BY <1>1, <1>3, <1>4, <1>6 DEF CoherenceInv, Looks

-----------------------------------------------------------------------------
(* The insertions.                                                         *)

\* What every insertion leaves alone.
Inserting ==
  /\ now' = now /\ host' = host /\ server' = server
  /\ \A p : Pending(p) => Pending(p)'
  /\ \A d : Awaited(d) => Awaited(d)'

\* Attributes from a line that is true make the answer right whatever it was;
\* from one that is not, the path is recorded as stale.
LEMMA AttrInserted ==
  ASSUME CoherenceInv, Inserting, NEW w \in Workers, NEW path \in Paths,
         NEW attr \in Attrs \union {"absent"}, cache_add_attr(path, attr),
         NoteAttr(w, path), path \in outdated[w] \/ attr = server[path]
  PROVE  StoreInv' /\ AttrInv' /\ DirInv'
<1>1. StoreInv /\ AttrInv /\ DirInv
  BY DEF CoherenceInv
<1>2. PICK node \in Nodes :
        /\ StoredOnly(path, node)
        /\ SaysAttr(node, attr) /\ node.dir = cache_get(path).dir
  BY <1>1, AttrAdded
<1>3. /\ stale' = IF path \in outdated[w] THEN stale \union {path}
                                          ELSE stale \ {path}
      /\ staleDir' = staleDir
  BY DEF NoteAttr
<1>4. StoreInv'
  BY <1>1, <1>2, <1>3 DEF StoreInv, StoredOnly, Inserting, Nodes
<1>5. AttrInv'
  <2> SUFFICES ASSUME NEW p \in DOMAIN table', table'[p].stat_valid # 0
               PROVE  \/ SaysAttr(table'[p], server[p])
                      \/ p \in stale' \/ Pending(p)'
    BY DEF AttrInv, SaysAttr, Inserting
  <2>1. CASE p = path
    <3>1. table'[p] = node
      BY <1>2, <2>1 DEF StoredOnly
    <3> QED BY <3>1, <2>1, <1>2, <1>3
  <2>2. CASE p # path
    <3>1. p \in DOMAIN table /\ table'[p] = table[p]
      BY <1>2, <2>2 DEF StoredOnly
    <3>2. SaysAttr(table[p], server[p]) \/ p \in stale \/ Pending(p)
      BY <1>1, <3>1 DEF AttrInv
    <3> QED BY <3>1, <3>2, <2>2, <1>3 DEF Inserting
  <2> QED BY <2>1, <2>2
<1>6. DirInv'
  <2> SUFFICES ASSUME NEW p \in DOMAIN table', table'[p].dir # {Null}
               PROVE  table'[p].dir = Present(p) \/ p \in staleDir \/ Awaited(p)
    BY <1>3 DEF DirInv, Present, Children, Inserting
  <2>1. p \in DOMAIN table /\ table'[p].dir = table[p].dir
    <3>1. CASE p = path
      BY <3>1, <1>1, <1>2, GetNode DEF StoredOnly, cache_get
    <3>2. CASE p # path
      BY <3>2, <1>2 DEF StoredOnly
    <3> QED BY <3>1, <3>2
  <2> QED BY <2>1, <1>1 DEF DirInv
<1> QED BY <1>4, <1>5, <1>6

\* A link or a directory makes a file found again with the attributes it had:
\* they are right because the line that says so is true, or the path is
\* recorded as stale.
LEMMA FoundAgain ==
  ASSUME CoherenceInv, Inserting, NEW w \in Workers, NEW path, NEW node,
         StoredOnly(path, node), ~node.not_found,
         node.stat = cache_get(path).stat,
         node.stat_valid = cache_get(path).stat_valid,
         stale' = stale \union ({path} \intersect outdated[w]),
         path \in outdated[w] \/ server[path] # "absent"
  PROVE  AttrInv'
<1>1. StoreInv /\ AttrInv
  BY DEF CoherenceInv
<1> SUFFICES ASSUME NEW p \in DOMAIN table', table'[p].stat_valid # 0
             PROVE  \/ SaysAttr(table'[p], server[p])
                    \/ p \in stale' \/ Pending(p)'
  BY DEF AttrInv, SaysAttr, Inserting
<1>2. CASE p = path
  <2>1. table'[p] = node
    BY <1>2 DEF StoredOnly
  <2>2. p \in DOMAIN table /\ cache_get(path) = table[p]
    BY <2>1, <1>1, <1>2, GetNode DEF cache_get
  <2>3. SaysAttr(table[p], server[p]) \/ p \in stale \/ Pending(p)
    BY <2>1, <2>2, <1>1 DEF AttrInv
  <2>4. CASE SaysAttr(table[p], server[p]) /\ p \notin outdated[w]
    BY <2>1, <2>2, <2>4, <1>2 DEF SaysAttr
  <2> QED BY <2>3, <2>4, <1>2 DEF Inserting
<1>3. CASE p # path
  <2>1. p \in DOMAIN table /\ table'[p] = table[p]
    BY <1>3 DEF StoredOnly
  <2>2. SaysAttr(table[p], server[p]) \/ p \in stale \/ Pending(p)
    BY <1>1, <2>1 DEF AttrInv
  <2> QED BY <2>1, <2>2 DEF Inserting
<1> QED BY <1>2, <1>3

\* The target of a link.
LEMMA LinkInserted ==
  ASSUME CoherenceInv, Inserting, NEW w \in Workers, NEW path \in Paths,
         NEW target \in Links \union {Junk}, cache_add_link(path, target),
         stale' = stale \union ({path} \intersect outdated[w]),
         staleDir' = staleDir,
         path \in outdated[w] \/ server[path] # "absent"
  PROVE  StoreInv' /\ AttrInv' /\ DirInv'
<1>1. StoreInv /\ DirInv
  BY DEF CoherenceInv
<1>2. PICK node \in Nodes :
        /\ StoredOnly(path, node)
        /\ node.dir = cache_get(path).dir /\ ~node.not_found
        /\ node.stat = cache_get(path).stat
        /\ node.stat_valid = cache_get(path).stat_valid
  BY <1>1, LinkAdded
<1>3. StoreInv'
  BY <1>1, <1>2 DEF StoreInv, StoredOnly, Inserting, Nodes
<1>4. AttrInv'
  BY <1>2, FoundAgain
<1>5. DirInv'
  <2> SUFFICES ASSUME NEW p \in DOMAIN table', table'[p].dir # {Null}
               PROVE  table'[p].dir = Present(p) \/ p \in staleDir \/ Awaited(p)
    BY DEF DirInv, Present, Children, Inserting
  <2>1. p \in DOMAIN table /\ table'[p].dir = table[p].dir
    <3>1. CASE p = path
      BY <3>1, <1>1, <1>2, GetNode DEF StoredOnly, cache_get
    <3>2. CASE p # path
      BY <3>2, <1>2 DEF StoredOnly
    <3> QED BY <3>1, <3>2
  <2> QED BY <2>1, <1>1 DEF DirInv
<1> QED BY <1>3, <1>4, <1>5

\* The names of a directory: they are right when nothing in it is out of date.
LEMMA DirInserted ==
  ASSUME CoherenceInv, Inserting, NEW w \in Workers, NEW path \in Paths,
         NEW names \in SUBSET Paths, cache_add_dir(path, names),
         stale' = stale \union ({path} \intersect outdated[w]),
         staleDir' = IF outdated[w] \intersect Children(path) # {}
                       THEN staleDir \union {path} ELSE staleDir \ {path},
         path \in outdated[w] \/ server[path] # "absent",
         outdated[w] \intersect Children(path) = {} => names = Present(path)
  PROVE  StoreInv' /\ AttrInv' /\ DirInv'
<1>1. StoreInv /\ DirInv
  BY DEF CoherenceInv
<1>2. PICK node \in Nodes :
        /\ StoredOnly(path, node)
        /\ node.dir = names /\ ~node.not_found
        /\ node.stat = cache_get(path).stat
        /\ node.stat_valid = cache_get(path).stat_valid
  BY <1>1, DirAdded
<1>3. StoreInv'
  BY <1>1, <1>2 DEF StoreInv, StoredOnly, Inserting, Nodes
<1>4. AttrInv'
  BY <1>2, FoundAgain
<1>5. DirInv'
  <2> SUFFICES ASSUME NEW p \in DOMAIN table', table'[p].dir # {Null}
               PROVE  \/ table'[p].dir = Present(p)
                      \/ p \in staleDir' \/ Awaited(p)'
    BY DEF DirInv, Present, Children, Inserting
  <2>1. CASE p = path
    BY <2>1, <1>2 DEF StoredOnly
  <2>2. CASE p # path
    <3>1. p \in DOMAIN table /\ table'[p] = table[p]
      BY <2>2, <1>2 DEF StoredOnly
    <3>2. table[p].dir = Present(p) \/ p \in staleDir \/ Awaited(p)
      BY <3>1, <1>1 DEF DirInv
    <3> QED BY <3>1, <3>2, <2>2 DEF Inserting
  <2> QED BY <2>1, <2>2
<1> QED BY <1>3, <1>4, <1>5

\* A line that was parsed leaves the others as they were.
LEMMA ParseLooks ==
  ASSUME CoherenceInv, NEW w \in Workers, pc[w] \in {"parse", "attr"},
         NEW label \in {"parse", "attr"}, Goto(w, label),
         UNCHANGED <<server, listing, outdated>>,
         NEW T \in SUBSET todo[w], todo' = [todo EXCEPT ![w] = T],
         NEW n \in Paths, line' = [line EXCEPT ![w] = n],
         label = "attr" => n \in DOMAIN listing[w] \ {Root},
         NEW b \in Links \union {Junk}, linkbuf' = [linkbuf EXCEPT ![w] = b]
  PROVE  Looks(w)
<1>1. /\ pc' = [pc EXCEPT ![w] = label] /\ req' = req
      /\ listing' = listing /\ outdated' = outdated /\ server' = server
  BY DEF Goto
<1>2. OneInv(w) /\ todo[w] \subseteq Paths
  BY DEF CoherenceInv, WorkerInv, OneInv, ShapeInv
<1>3. /\ pc'[w] = label /\ req'[w] = req[w] /\ listing'[w] = listing[w]
      /\ todo'[w] = T /\ line'[w] = n /\ outdated'[w] = outdated[w]
  BY <1>1 DEF CoherenceInv, ShapeInv
<1>4. ShapeInv'
  BY <1>1, <1>2 DEF CoherenceInv, ShapeInv, Labels
<1>5. Keeps(w)
  BY <1>1 DEF Keeps
<1>6. ReqInv(w)'
  BY <1>2, <1>3 DEF OneInv, ReqInv
<1>7. ListingTyped(w)'
  BY <1>2, <1>3 DEF OneInv, ListingTyped
<1>8. ListingTrue(w)'
  BY <1>1, <1>2, <1>3
     DEF OneInv, ListingTrue, LinesTrue, DirTrue, ParentTrue
<1> QED BY <1>4, <1>5, <1>6, <1>7, <1>8 DEF Looks, OneInv

\* Every worker that looks lets the purges stand, as an insertion must.
LEMMA LooksInserts ==
  ASSUME NEW w \in Workers, Looks(w), UNCHANGED <<now, host, server>>
  PROVE  Inserting
  BY AwaitsHold DEF Looks, Keeps, Inserting

\* What a line that is still to be added is worth.
LEMMA LineWorth ==
  ASSUME CoherenceInv, NEW w \in Workers, pc[w] \in {"parse", "attr"},
         NEW p \in DOMAIN listing[w]
  PROVE  /\ p \in Paths /\ listing[w][p] \in Attrs \union {"absent"}
         /\ p \in outdated[w] \/ listing[w][p] = server[p]
         /\ p # Root => p \in outdated[w] \/ server[p] # "absent"
  BY DEF CoherenceInv, WorkerInv, ListingTyped, ListingTrue, LinesTrue

\* The link of a line.
LEMMA ParseLinkStep ==
  ASSUME CoherenceInv, NEW w \in Workers, ParseLink(w)
  PROVE  Looks(w) /\ StoreInv' /\ AttrInv' /\ DirInv'
<1>1. PICK path \in todo[w] :
        /\ listing[w][path] \in Links
        /\ todo' = [todo EXCEPT ![w] = @ \ {path}]
        /\ line' = [line EXCEPT ![w] = path]
        /\ linkbuf' = [linkbuf EXCEPT ![w] = LinkCopied(w, path)]
        /\ cache_add_link(path, listing[w][path])
        /\ stale' = stale \union ({path} \intersect outdated[w])
  BY DEF ParseLink
<1>2. /\ pc[w] = "parse" /\ Goto(w, "attr")
      /\ UNCHANGED <<now, host, server, listing, outdated, staleDir>>
  BY DEF ParseLink
<1>3. path \in DOMAIN listing[w] \ {Root}
  BY DEF CoherenceInv, WorkerInv, ListingTyped
<1>4. /\ path \in Paths
      /\ path \in outdated[w] \/ server[path] # "absent"
  BY <1>2, <1>3, LineWorth
<1>5. LinkCopied(w, path) \in Links \union {Junk}
  BY <1>1 DEF LinkCopied, CoherenceInv, ShapeInv
<1>6. todo' = [todo EXCEPT ![w] = todo[w] \ {path}]
  BY <1>1
<1>7. Looks(w)
  BY <1>1, <1>2, <1>3, <1>4, <1>5, <1>6, ParseLooks
<1>8. Inserting
  BY <1>2, <1>7, LooksInserts
<1>9. StoreInv' /\ AttrInv' /\ DirInv'
  BY <1>1, <1>2, <1>4, <1>8, LinkInserted
<1> QED BY <1>7, <1>9

\* The attributes of that line.
LEMMA ParseLinkAttrStep ==
  ASSUME CoherenceInv, NEW w \in Workers, ParseLinkAttr(w)
  PROVE  Looks(w) /\ StoreInv' /\ AttrInv' /\ DirInv'
<1>1. /\ pc[w] = "attr" /\ Goto(w, "parse")
      /\ cache_add_attr(line[w], listing[w][line[w]]) /\ NoteAttr(w, line[w])
      /\ line' = [line EXCEPT ![w] = Root]
      /\ UNCHANGED <<now, host, server, listing, todo, linkbuf, outdated>>
  BY DEF ParseLinkAttr
<1>2. line[w] \in DOMAIN listing[w]
  BY <1>1 DEF CoherenceInv, WorkerInv, ListingTyped
<1>3. /\ line[w] \in Paths /\ listing[w][line[w]] \in Attrs \union {"absent"}
      /\ line[w] \in outdated[w] \/ listing[w][line[w]] = server[line[w]]
  BY <1>1, <1>2, LineWorth
<1>4. /\ todo' = [todo EXCEPT ![w] = todo[w]]
      /\ linkbuf' = [linkbuf EXCEPT ![w] = linkbuf[w]]
      /\ linkbuf[w] \in Links \union {Junk}
  BY <1>1 DEF CoherenceInv, ShapeInv
<1>5. Looks(w)
  BY <1>1, <1>4, ParseLooks, ConstantsAssumption
<1>6. Inserting
  BY <1>1, <1>5, LooksInserts
<1>7. StoreInv' /\ AttrInv' /\ DirInv'
  BY <1>1, <1>3, <1>6, AttrInserted
<1> QED BY <1>5, <1>7

\* A line that is no link.
LEMMA ParseFileStep ==
  ASSUME CoherenceInv, NEW w \in Workers, ParseFile(w)
  PROVE  Looks(w) /\ StoreInv' /\ AttrInv' /\ DirInv'
<1>1. PICK path \in todo[w] :
        /\ todo' = [todo EXCEPT ![w] = @ \ {path}]
        /\ cache_add_attr(path, listing[w][path])
        /\ NoteAttr(w, path)
  BY DEF ParseFile
<1>2. /\ pc[w] = "parse" /\ Goto(w, "parse")
      /\ UNCHANGED <<now, host, server, listing, line, linkbuf, outdated>>
  BY DEF ParseFile
<1>3. path \in DOMAIN listing[w] \ {Root}
  BY DEF CoherenceInv, WorkerInv, ListingTyped
<1>4. /\ path \in Paths /\ listing[w][path] \in Attrs \union {"absent"}
      /\ path \in outdated[w] \/ listing[w][path] = server[path]
  BY <1>2, <1>3, LineWorth
<1>5. /\ todo' = [todo EXCEPT ![w] = todo[w] \ {path}]
      /\ line' = [line EXCEPT ![w] = line[w]] /\ line[w] \in Paths
      /\ linkbuf' = [linkbuf EXCEPT ![w] = linkbuf[w]]
      /\ linkbuf[w] \in Links \union {Junk}
  BY <1>1, <1>2 DEF CoherenceInv, ShapeInv
<1>6. Looks(w)
  BY <1>2, <1>5, ParseLooks
<1>7. Inserting
  BY <1>2, <1>6, LooksInserts
<1>8. StoreInv' /\ AttrInv' /\ DirInv'
  BY <1>1, <1>4, <1>7, AttrInserted
<1> QED BY <1>6, <1>8

\* The end of cache_getattr.
LEMMA AddAttrStep ==
  ASSUME CoherenceInv, NEW w \in Workers, AddAttr(w)
  PROVE  Looks(w) /\ StoreInv' /\ AttrInv' /\ DirInv'
<1> DEFINE path == req[w].path
           attr == IF path \in DOMAIN listing[w] THEN listing[w][path]
                                                 ELSE "absent"
<1>1. /\ pc[w] = "parse" /\ req[w].op = "getattr"
      /\ cache_add_attr(path, attr) /\ NoteAttr(w, path)
      /\ Return(w) /\ Forget(w) /\ UNCHANGED <<now, host, server>>
  BY DEF AddAttr
<1>2. path \in Paths
  BY <1>1 DEF CoherenceInv, WorkerInv, ReqInv, LookupReq
<1>3. /\ attr \in Attrs \union {"absent"}
      /\ path \in outdated[w] \/ attr = server[path]
  <2>1. CASE path \in DOMAIN listing[w]
    BY <2>1, <1>1, LineWorth
  <2>2. CASE path \notin DOMAIN listing[w]
    <3>1. ParentTrue(w)
      BY <1>1 DEF CoherenceInv, WorkerInv, ListingTrue
    <3> QED BY <2>2, <3>1 DEF ParentTrue
  <2> QED BY <2>1, <2>2
<1>4. Looks(w)
  BY <1>1, ForgetLooks
<1>5. Inserting
  BY <1>1, <1>4, LooksInserts
<1> HIDE DEF path, attr
<1>6. StoreInv' /\ AttrInv' /\ DirInv'
  BY <1>1, <1>2, <1>3, <1>5, AttrInserted
<1> QED BY <1>4, <1>6

\* The end of cache_readlink.
LEMMA AddLinkStep ==
  ASSUME CoherenceInv, NEW w \in Workers, AddLink(w)
  PROVE  Looks(w) /\ StoreInv' /\ AttrInv' /\ DirInv'
<1> DEFINE path == req[w].path
<1>1. /\ pc[w] = "parse" /\ req[w].op = "readlink"
      /\ path \in DOMAIN listing[w]
      /\ cache_add_link(path, linkbuf[w])
      /\ stale' = stale \union ({path} \intersect outdated[w])
      /\ Return(w) /\ Forget(w) /\ UNCHANGED <<now, host, server, staleDir>>
  BY DEF AddLink
<1>2. path \in Paths /\ path # Root
  BY <1>1 DEF CoherenceInv, WorkerInv, ReqInv, LookupReq
<1>3. path \in outdated[w] \/ server[path] # "absent"
  BY <1>1, <1>2, LineWorth
<1>4. linkbuf[w] \in Links \union {Junk}
  BY DEF CoherenceInv, ShapeInv
<1>5. Looks(w)
  BY <1>1, ForgetLooks
<1>6. Inserting
  BY <1>1, <1>5, LooksInserts
<1> HIDE DEF path
<1>7. StoreInv' /\ AttrInv' /\ DirInv'
  BY <1>1, <1>2, <1>3, <1>4, <1>6, LinkInserted
<1> QED BY <1>5, <1>7

\* The end of cache_getdir.
LEMMA AddDirStep ==
  ASSUME CoherenceInv, NEW w \in Workers, AddDir(w)
  PROVE  Looks(w) /\ StoreInv' /\ AttrInv' /\ DirInv'
<1> DEFINE path == req[w].path
           names == DOMAIN listing[w]
<1>1. /\ pc[w] = "parse" /\ req[w].op = "getdir"
      /\ cache_add_dir(path, names)
      /\ staleDir' = IF outdated[w] \intersect Children(path) # {}
                       THEN staleDir \union {path} ELSE staleDir \ {path}
      /\ stale' = stale \union ({path} \intersect outdated[w])
      /\ Return(w) /\ Forget(w) /\ UNCHANGED <<now, host, server>>
  BY DEF AddDir
<1>2. path \in Paths /\ names \in SUBSET Paths
  BY <1>1 DEF CoherenceInv, WorkerInv, ReqInv, LookupReq, ListingTyped
<1>3. DirTrue(w)
  BY <1>1 DEF CoherenceInv, WorkerInv, ListingTrue
<1>4. path \in outdated[w] \/ server[path] # "absent"
  BY <1>3 DEF DirTrue
<1>5. outdated[w] \intersect Children(path) = {} => names = Present(path)
  BY <1>3 DEF DirTrue, Present
<1>6. Looks(w)
  BY <1>1, ForgetLooks
<1>7. Inserting
  BY <1>1, <1>6, LooksInserts
<1> HIDE DEF path, names
<1>8. StoreInv' /\ AttrInv' /\ DirInv'
  BY <1>1, <1>2, <1>4, <1>5, <1>7, DirInserted
<1> QED BY <1>6, <1>8

\* All insertions keep the invariant.
LEMMA InsertingStep ==
  ASSUME CoherenceInv, NEW w \in Workers,
         \/ ParseLink(w) \/ ParseLinkAttr(w) \/ ParseFile(w) \/ AddAttr(w)
         \/ AddLink(w) \/ AddDir(w)
  PROVE  CoherenceInv'
<1>1. Looks(w) /\ StoreInv' /\ AttrInv' /\ DirInv'
  BY ParseLinkStep, ParseLinkAttrStep, ParseFileStep, AddAttrStep,
     AddLinkStep, AddDirStep
<1>2. server' = server
  BY DEF ParseLink, ParseLinkAttr, ParseFile, AddAttr, AddLink, AddDir
<1>3. WorkerInv'
  BY <1>1, <1>2, OthersHold DEF CoherenceInv, Looks
<1> QED BY <1>1, <1>3 DEF CoherenceInv, Looks

-----------------------------------------------------------------------------
(* Mutations.                                                              *)

\* What a command changes: one path, or what a rename moves.
LEMMA EffectKinds ==
  ASSUME NEW r, NEW tree \in Effects(r), MutationReq(r)
  PROVE  \/ /\ r.op = "rename" /\ tree = Moved(r.path, r.to)
            /\ server[r.path] # "absent" /\ Present(r.to) = {}
            /\ server[Parent[r.to]] # "absent"
         \/ /\ r.op # "rename"
            /\ \E a \in Attrs \ Links : tree = [server EXCEPT ![r.path] = a]
            /\ \/ r.op = "change" /\ server[r.path] \in Attrs \ Links
               \/ r.op # "change" /\ server[Parent[r.path]] # "absent"
         \/ /\ r.op = "unlink" /\ Present(r.path) = {}
            /\ tree = [server EXCEPT ![r.path] = "absent"]
<1>1. r.op \in {"create", "unlink", "change", "rename", "upload"}
  BY ConstantsAssumption DEF MutationReq
<1>2. CASE r.op = "create"
  BY <1>2 DEF Effects
<1>3. CASE r.op = "unlink"
  BY <1>3 DEF Effects
<1>4. CASE r.op = "change"
  BY <1>4 DEF Effects
<1>5. CASE r.op = "rename"
  BY <1>5 DEF Effects
<1>6. CASE r.op = "upload"
  BY <1>6 DEF Effects
<1> QED BY <1>1, <1>2, <1>3, <1>4, <1>5, <1>6

\* A path whose attributes change is named by the request or lies below a path
\* that it renames; the purge reaches every directory whose names change.
LEMMA EffectReach ==
  ASSUME StoreInv, NEW r, NEW tree \in Effects(r), MutationReq(r)
  PROVE  /\ tree \in [Paths -> Attrs \union {"absent"}]
         /\ Changed(tree) \subseteq {r.path, r.to} \union Below(r)
         /\ ChangedDirs(tree) \subseteq Purged(r)
<1>1. /\ server \in [Paths -> Attrs \union {"absent"}]
      /\ r.path \in Paths \ {Root} /\ r.to \in Paths \ {Root}
      /\ Parent \in [Paths -> Paths] /\ Parent[Root] = Root /\ Root \in Paths
      /\ "absent" \notin Attrs
  BY ConstantsAssumption DEF StoreInv, MutationReq
<1>2. CASE r.op = "rename"
  <2>1. tree = Moved(r.path, r.to)
    BY <1>2, EffectKinds
  <2>2. ASSUME NEW p \in Paths, p # r.to, Parent[p] = r.to,
               Twin(p, r.path) # {}
        PROVE  (CHOOSE q \in Twin(p, r.path) : TRUE) \in Paths
    <3>1. Twin(p, r.path) \subseteq Paths
      BY DEF Twin, Children
    <3> QED BY <2>2, <3>1
  <2>3. tree \in [Paths -> Attrs \union {"absent"}]
    BY <1>1, <2>1, <2>2 DEF Moved
  <2>4. ASSUME NEW p \in Paths, tree[p] # server[p]
        PROVE  p \in {r.path, r.to} \/ Parent[p] \in {r.path, r.to}
    BY <2>1, <2>4 DEF Moved
  <2>5. Changed(tree) \subseteq {r.path, r.to} \union Below(r)
    <3> SUFFICES ASSUME NEW p \in Paths, tree[p] # server[p]
                 PROVE  p \in {r.path, r.to} \union Below(r)
      BY DEF Changed
    <3> QED BY <1>1, <1>2, <2>4 DEF Below, Children
  <2>6. Purged(r) = {r.path, r.to, Parent[r.path], Parent[r.to]}
    BY <1>2 DEF Purged, PurgeRename
  <2>7. ChangedDirs(tree) \subseteq Purged(r)
    <3> SUFFICES ASSUME NEW q \in Paths \ {Root},
                        (tree[q] = "absent") # (server[q] = "absent")
                 PROVE  Parent[q] \in Purged(r)
      BY DEF ChangedDirs
    <3>1. tree[q] # server[q]
      OBVIOUS
    <3> QED BY <3>1, <2>4, <2>6
  <2> QED BY <2>3, <2>5, <2>7
<1>3. CASE r.op # "rename"
  <2>1. PICK a \in Attrs \union {"absent"} :
          /\ tree = [server EXCEPT ![r.path] = a]
          /\ r.op = "change" => a # "absent" /\ server[r.path] # "absent"
    BY <1>1, <1>3, EffectKinds
  <2>2. tree \in [Paths -> Attrs \union {"absent"}]
    BY <1>1, <2>1
  <2>3. \A p \in Paths : tree[p] # server[p] => p = r.path
    BY <1>1, <2>1
  <2>4. Changed(tree) \subseteq {r.path, r.to} \union Below(r)
    BY <2>3 DEF Changed
  <2>5. ChangedDirs(tree) \subseteq Purged(r)
    <3> SUFFICES ASSUME NEW q \in Paths \ {Root},
                        (tree[q] = "absent") # (server[q] = "absent")
                 PROVE  Parent[q] \in Purged(r)
      BY DEF ChangedDirs
    <3>1. q = r.path
      BY <2>3
    <3>2. tree[q] = a
      BY <3>1, <2>1, <1>1
    <3>3. r.op # "change"
      BY <3>1, <3>2, <2>1
    <3>4. Purged(r) = {r.path, Parent[r.path]}
      BY <1>3, <3>3 DEF Purged, PurgeInvalidateDir
    <3> QED BY <3>1, <3>4
  <2> QED BY <2>2, <2>4, <2>5
<1> QED BY <1>2, <1>3

\* Where a worker goes once its command was sent.
LEMMA SentPlace ==
  ASSUME ShapeInv, NEW w \in Workers, pc[w] = "mutate", NEW reply \in BOOLEAN,
         Sent(w, IF reply THEN "free_ok" ELSE "free_err")
  PROVE  /\ pc' \in [Workers -> Labels] /\ req' = [v \in Workers |-> req'[v]]
         /\ \A v \in Workers \ {w} : pc'[v] = pc[v] /\ req'[v] = req[v]
         /\ \/ pc'[w] \in {"free_ok", "free_err", "purge"} /\ req'[w] = req[w]
            \/ pc'[w] = "idle"
         /\ reply /\ req[w].op # "upload" =>
              pc'[w] \in {"free_ok", "purge"} /\ req'[w] = req[w]
<1>1. \/ /\ Goto(w, IF reply THEN "free_ok" ELSE "free_err")
         /\ req[w].op = "rename"
      \/ Goto(w, "purge") /\ reply
      \/ Return(w) /\ ~(reply /\ req[w].op # "upload")
  BY DEF Sent
<1>2. CASE /\ Goto(w, IF reply THEN "free_ok" ELSE "free_err")
           /\ req[w].op = "rename"
  BY <1>2 DEF Goto, ShapeInv, Labels
<1>3. CASE Goto(w, "purge") /\ reply
  BY <1>3 DEF Goto, ShapeInv, Labels
<1>4. CASE Return(w) /\ ~(reply /\ req[w].op # "upload")
  BY <1>4 DEF Return, ShapeInv, Labels
<1> QED BY <1>1, <1>2, <1>3, <1>4

\* What the change leaves in the table is awaiting a purge or recorded as stale,
\* and what it leaves in a listing is recorded as out of date.
LEMMA MutateStep ==
  ASSUME CoherenceInv, NEW w \in Workers, Mutate(w)
  PROVE  CoherenceInv'
<1> DEFINE r == req[w]
<1>1. PICK tree \in Effects(r), reply \in BOOLEAN :
        /\ server' = tree
        /\ outdated' = [v \in Workers |->
                          IF pc[v] \in {"parse", "attr"}
                            THEN outdated[v] \union Changed(tree) ELSE {}]
        /\ stale' = stale \union Missed(r, tree, reply)
        /\ staleDir' = staleDir \union MissedDirs(r, tree, reply)
        /\ Sent(w, IF reply THEN "free_ok" ELSE "free_err")
  BY DEF Mutate
<1>2. /\ pc[w] = "mutate"
      /\ UNCHANGED <<now, host, table, last_cleaned, listing, todo, line,
                     linkbuf>>
  BY DEF Mutate, CanSend
<1>3. ShapeInv /\ StoreInv /\ WorkerInv /\ AttrInv /\ DirInv
  BY DEF CoherenceInv
<1>4. MutationReq(r)
  BY <1>2, <1>3 DEF WorkerInv, ReqInv
<1>5. /\ tree \in [Paths -> Attrs \union {"absent"}]
      /\ Changed(tree) \subseteq {r.path, r.to} \union Below(r)
      /\ ChangedDirs(tree) \subseteq Purged(r)
  BY <1>3, <1>4, EffectReach
<1>6. /\ pc' \in [Workers -> Labels] /\ req' = [v \in Workers |-> req'[v]]
      /\ \A v \in Workers \ {w} : pc'[v] = pc[v] /\ req'[v] = req[v]
      /\ \/ pc'[w] \in {"free_ok", "free_err", "purge"} /\ req'[w] = req[w]
         \/ pc'[w] = "idle"
      /\ reply /\ r.op # "upload" =>
           pc'[w] \in {"free_ok", "purge"} /\ req'[w] = r
  BY <1>1, <1>2, <1>3, SentPlace
<1>7. (\A p : Pending(p) => Pending(p)') /\ (\A d : Awaited(d) => Awaited(d)')
  BY <1>2, <1>6, AwaitsHold
<1>8. \A p \in Paths : p \notin Changed(tree) => tree[p] = server[p]
  BY DEF Changed
<1>9. /\ Changed(tree) \subseteq Paths /\ ChangedDirs(tree) \subseteq Paths
      /\ Below(r) \subseteq Paths
  BY ConstantsAssumption DEF Changed, ChangedDirs, Below, Children
<1>10. ShapeInv'
  BY <1>1, <1>2, <1>3, <1>6 DEF ShapeInv
<1>11. StoreInv'
  BY <1>1, <1>2, <1>3, <1>5, <1>9 DEF StoreInv, Missed, MissedDirs, Nodes
<1>12. WorkerInv'
  <2> SUFFICES ASSUME NEW v \in Workers PROVE OneInv(v)'
    BY DEF WorkerInv, OneInv
  <2>1. OneInv(v)
    BY <1>3 DEF WorkerInv, OneInv
  <2>2. /\ listing'[v] = listing[v] /\ todo'[v] = todo[v]
        /\ line'[v] = line[v]
        /\ pc[v] \in {"parse", "attr"} =>
             outdated'[v] = outdated[v] \union Changed(tree)
    BY <1>1, <1>2
  <2>3. CASE v = w
    <3>1. ReqInv(v)'
      BY <2>3, <1>4, <1>6 DEF ReqInv
    <3>2. ListingTyped(v)'
      BY <2>1, <2>2, <2>3, <1>6 DEF OneInv, ListingTyped
    <3>3. ListingTrue(v)'
      BY <2>3, <1>6 DEF ListingTrue
    <3> QED BY <3>1, <3>2, <3>3 DEF OneInv
  <2>4. CASE v # w
    <3>1. pc'[v] = pc[v] /\ req'[v] = req[v]
      BY <2>4, <1>6
    <3>2. ReqInv(v)'
      BY <2>1, <3>1 DEF OneInv, ReqInv
    <3>3. ListingTyped(v)'
      BY <2>1, <2>2, <3>1 DEF OneInv, ListingTyped
    <3>4. ASSUME pc[v] \in {"parse", "attr"}
          PROVE  ListingTrue(v)'
      <4>1. /\ outdated'[v] = outdated[v] \union Changed(tree)
            /\ DOMAIN listing[v] \subseteq Paths /\ req[v].path \in Paths
            /\ LinesTrue(v)
            /\ IF req[v].op = "getdir" THEN DirTrue(v) ELSE ParentTrue(v)
        BY <2>1, <2>2, <3>4
           DEF OneInv, ReqInv, LookupReq, ListingTyped, ListingTrue
      <4>2. \A p \in Paths : p \notin outdated'[v] => server'[p] = server[p]
        BY <4>1, <1>1, <1>8
      <4>3. LinesTrue(v)'
        BY <4>1, <4>2, <2>2 DEF LinesTrue
      <4>4. ASSUME ParentTrue(v) PROVE ParentTrue(v)'
        BY <4>1, <4>2, <4>4, <2>2, <3>1 DEF ParentTrue
      <4>5. ASSUME DirTrue(v) PROVE DirTrue(v)'
        <5>1. Children(req[v].path) \subseteq Paths
          BY DEF Children
        <5>2. DirTrue(v)' <=>
                /\ server'[req[v].path] # "absent"
                     \/ req[v].path \in outdated'[v]
                /\ DOMAIN listing[v] \subseteq Children(req[v].path)
                /\ \A q \in Children(req[v].path) \ outdated'[v] :
                     q \in DOMAIN listing[v] <=> server'[q] # "absent"
          BY <2>2, <3>1 DEF DirTrue, Children
        <5> QED BY <4>1, <4>2, <4>5, <5>1, <5>2 DEF DirTrue
      <4> QED BY <4>1, <4>3, <4>4, <4>5, <3>1 DEF ListingTrue
    <3>5. pc[v] \notin {"parse", "attr"} => ListingTrue(v)'
      BY <3>1 DEF ListingTrue
    <3> QED BY <3>2, <3>3, <3>4, <3>5 DEF OneInv
  <2> QED BY <2>3, <2>4
<1>13. AttrInv'
  <2> SUFFICES ASSUME NEW p \in DOMAIN table, table[p].stat_valid # 0
               PROVE  \/ SaysAttr(table[p], tree[p])
                      \/ p \in stale' \/ Pending(p)'
    BY <1>1, <1>2 DEF AttrInv, SaysAttr
  <2>1. p \in Paths
    BY <1>3 DEF StoreInv
  <2>2. SaysAttr(table[p], server[p]) \/ p \in stale \/ Pending(p)
    BY <1>3 DEF AttrInv
  <2>3. CASE p \notin Changed(tree)
    BY <2>1, <2>2, <2>3, <1>1, <1>7, <1>8
  <2>4. CASE p \in Changed(tree) /\ reply /\ r.op # "upload"
    <3>1. p \in {r.path, r.to} \/ p \in Below(r)
      BY <2>4, <1>5
    <3>2. p \in Below(r) => p \in stale'
      BY <2>4, <1>1 DEF Missed
    <3>3. p \in {r.path, r.to} => Pending(p)'
      BY <2>4, <1>6 DEF Pending
    <3> QED BY <3>1, <3>2, <3>3
  <2>5. CASE p \in Changed(tree) /\ ~(reply /\ r.op # "upload")
    BY <2>5, <1>1 DEF Missed
  <2> QED BY <2>3, <2>4, <2>5
<1>14. DirInv'
  <2> SUFFICES ASSUME NEW p \in DOMAIN table, table[p].dir # {Null}
               PROVE  \/ table[p].dir = Present(p)'
                      \/ p \in staleDir' \/ Awaited(p)'
    BY <1>2 DEF DirInv
  <2>1. table[p].dir = Present(p) \/ p \in staleDir \/ Awaited(p)
    BY <1>3 DEF DirInv
  <2>2. CASE p \notin ChangedDirs(tree)
    <3>1. \A q \in Children(p) : (tree[q] = "absent") <=> (server[q] = "absent")
      BY <2>2 DEF ChangedDirs, Children
    <3>2. Present(p)' = {q \in Children(p) : tree[q] # "absent"}
      BY <1>1 DEF Present, Children
    <3>3. Present(p)' = Present(p)
      BY <3>1, <3>2 DEF Present
    <3> QED BY <2>1, <3>3, <1>1, <1>7
  <2>3. CASE p \in ChangedDirs(tree) /\ reply /\ r.op # "upload"
    <3>1. p \in Purged(r)
      BY <2>3, <1>5
    <3>2. p \in Purged(req'[w]) /\ pc'[w] \in {"free_ok", "purge"}
      BY <2>3, <3>1, <1>6
    <3> QED BY <3>2 DEF Awaited
  <2>4. CASE p \in ChangedDirs(tree) /\ ~(reply /\ r.op # "upload")
    BY <2>4, <1>1 DEF MissedDirs
  <2> QED BY <2>2, <2>3, <2>4
<1> QED BY <1>10, <1>11, <1>12, <1>13, <1>14 DEF CoherenceInv

\* The purge takes away every answer that awaited it.
LEMMA PurgeStep ==
  ASSUME CoherenceInv, NEW w \in Workers, Purge(w)
  PROVE  CoherenceInv'
<1> DEFINE r == req[w]
<1>1. /\ pc[w] = "purge"
      /\ pc' = [pc EXCEPT ![w] = "idle"] /\ req' = [req EXCEPT ![w] = NoReq]
      /\ table' = [p \in DOMAIN table \ Purged(r) |-> table[p]]
      /\ last_cleaned' = last_cleaned
      /\ stale' = stale \intersect DOMAIN table'
      /\ staleDir' = staleDir \intersect DOMAIN table'
      /\ UNCHANGED <<now, host, server, listVars>>
  BY DEF Purge, cache_purge, Restricted, Return
<1>2. ShapeInv /\ StoreInv /\ WorkerInv /\ AttrInv /\ DirInv
  BY DEF CoherenceInv
<1>3. MutationReq(r)
  BY <1>1, <1>2 DEF WorkerInv, ReqInv
<1>4. {r.path, r.to} \subseteq Purged(r)
  BY <1>3 DEF MutationReq, Purged, PurgeInvalidate, PurgeInvalidateDir,
              PurgeRename
<1>5. /\ DOMAIN table' = DOMAIN table \ Purged(r)
      /\ \A p \in DOMAIN table' : table'[p] = table[p]
  BY <1>1
<1>6. pc'[w] = "idle"
      /\ \A v \in Workers \ {w} : pc'[v] = pc[v] /\ req'[v] = req[v]
  BY <1>1, <1>2 DEF ShapeInv
<1>7. ShapeInv' /\ Keeps(w)
  BY <1>1, <1>2, <1>6 DEF ShapeInv, Labels, listVars, Keeps
<1>8. StoreInv'
  BY <1>1, <1>2, <1>5 DEF StoreInv, Nodes
<1>9. OneInv(w)'
  BY <1>1, <1>2, <1>6
     DEF WorkerInv, OneInv, ReqInv, ListingTyped, ListingTrue, listVars
<1>10. WorkerInv'
  BY <1>1, <1>2, <1>7, <1>9, OthersHold
<1>11. ASSUME NEW p \in DOMAIN table', Pending(p) PROVE Pending(p)'
  BY <1>4, <1>5, <1>6, <1>11 DEF Pending
<1>12. ASSUME NEW p \in DOMAIN table', Awaited(p) PROVE Awaited(p)'
  <2>1. PICK v \in Workers :
          pc[v] \in {"free_ok", "purge"} /\ p \in Purged(req[v])
    BY <1>12 DEF Awaited
  <2>2. v # w
    BY <2>1, <1>5
  <2>3. pc'[v] = pc[v] /\ p \in Purged(req'[v])
    BY <2>1, <2>2, <1>6
  <2> QED BY <2>1, <2>3 DEF Awaited
<1>13. AttrInv'
  BY <1>1, <1>2, <1>5, <1>11 DEF AttrInv, SaysAttr
<1>14. DirInv'
  <2> SUFFICES ASSUME NEW p \in DOMAIN table', table'[p].dir # {Null}
               PROVE  \/ table'[p].dir = Present(p)
                      \/ p \in staleDir' \/ Awaited(p)'
    BY <1>1 DEF DirInv, Present, Children
  <2> QED BY <1>1, <1>2, <1>5, <1>12 DEF DirInv
<1> QED BY <1>7, <1>8, <1>10, <1>13, <1>14 DEF CoherenceInv

\* Time passes, and nothing else happens.
LEMMA RestStep ==
  ASSUME CoherenceInv, now' \in Nat \ {0},
         UNCHANGED <<table, last_cleaned, host, server, pc, req, listVars,
                     ghostVars>>
  PROVE  CoherenceInv'
<1>1. ShapeInv'
  BY DEF CoherenceInv, ShapeInv, listVars
<1>2. StoreInv'
  BY DEF CoherenceInv, StoreInv, ghostVars, Nodes
<1>3. WorkerInv'
  <2> SUFFICES ASSUME NEW v \in Workers PROVE OneInv(v)'
    BY DEF WorkerInv, OneInv
  <2>1. OneInv(v)
    BY DEF CoherenceInv, WorkerInv, OneInv
  <2>2. ReqInv(v)'
    BY <2>1 DEF OneInv, ReqInv
  <2>3. ListingTyped(v)'
    BY <2>1 DEF OneInv, ListingTyped, listVars
  <2>4. ListingTrue(v)'
    BY <2>1
       DEF OneInv, ListingTrue, LinesTrue, DirTrue, ParentTrue, listVars
  <2> QED BY <2>2, <2>3, <2>4 DEF OneInv
<1>4. \A p : Pending(p) => Pending(p)'
  BY DEF Pending
<1>5. \A d : Awaited(d) => Awaited(d)'
  BY DEF Awaited
<1>6. AttrInv' /\ DirInv'
  BY <1>4, <1>5, AnswersHold DEF CoherenceInv, ghostVars
<1> QED BY <1>1, <1>2, <1>3, <1>6 DEF CoherenceInv

-----------------------------------------------------------------------------
\* The invariant holds when the program starts.
LEMMA CoherenceInit == Init => CoherenceInv
<1> SUFFICES ASSUME Init PROVE CoherenceInv
  OBVIOUS
<1>1. /\ pc = [w \in Workers |-> "idle"] /\ req = [w \in Workers |-> NoReq]
      /\ listing = [w \in Workers |-> NoListing]
      /\ todo = [w \in Workers |-> {}] /\ line = [w \in Workers |-> Root]
      /\ linkbuf = [w \in Workers |-> Junk]
      /\ outdated = [w \in Workers |-> {}]
  BY DEF Init
<1>2. DOMAIN NoListing = {} /\ DOMAIN table = {}
  BY DEF NoListing, Restricted, Init
<1>3. ShapeInv
  BY <1>1, ConstantsAssumption DEF ShapeInv, Labels
<1>4. server \in [Paths -> Attrs \union {"absent"}]
  BY TreesAssumption DEF Init, Trees
<1>5. StoreInv
  BY <1>2, <1>4, ConstantsAssumption DEF StoreInv, Init
<1>6. WorkerInv
  BY <1>1, <1>2 DEF WorkerInv, ReqInv, ListingTyped, ListingTrue
<1>7. AttrInv /\ DirInv
  BY <1>2 DEF AttrInv, DirInv
<1> QED BY <1>3, <1>5, <1>6, <1>7 DEF CoherenceInv

\* Every step keeps it.
LEMMA CoherenceStep == CoherenceInv /\ [Next]_vars => CoherenceInv'
<1> SUFFICES ASSUME CoherenceInv, [Next]_vars PROVE CoherenceInv'
  OBVIOUS
<1>1. now \in Nat \ {0}
  BY DEF CoherenceInv, StoreInv
<1>2. ASSUME NEW w \in Workers, WorkerStep(w) PROVE CoherenceInv'
  BY <1>2, LookingStep, InsertingStep, MutateStep, PurgeStep DEF WorkerStep
<1>3. CASE Tick
  <2>1. now' \in Nat \ {0}
    BY <1>1, <1>3 DEF Tick
  <2> QED BY <1>3, <2>1, RestStep DEF Tick
<1>4. CASE UNCHANGED vars
  BY <1>1, <1>4, RestStep DEF vars
<1> QED BY <1>2, <1>3, <1>4 DEF Next, Quiet, Undefined

\* The invariant of the attribute cache: what every cached answer, and every
\* line of a listing that is still to be cached, is worth.
THEOREM CoherenceInvariant == Spec => []CoherenceInv
  BY CoherenceInit, CoherenceStep, PTL DEF Spec

\* What cache_get_attr answers is what the server has, whatever the workers do
\* at the same time, unless the change is about to be purged, or is one that the
\* code does not or cannot purge: an insertion from a listing that the change
\* overtook, a path below a renamed directory, a lost reply, an upload.
THEOREM AttributesCoherent == Spec => []AttrCoherent
<1>1. ASSUME CoherenceInv PROVE AttrCoherent
  <2> SUFFICES ASSUME NEW p \in DOMAIN table, Hit("getattr", p)
               PROVE  \/ SaysAttr(table[p], server[p])
                      \/ p \in stale \/ Pending(p)
    BY DEF AttrCoherent, SaysAttr
  <2>1. table[p].stat_valid >= now /\ now \in Nat \ {0}
    BY <1>1 DEF Hit, CoherenceInv, StoreInv
  <2>2. table[p].stat_valid # 0
    BY <2>1
  <2> QED BY <1>1, <2>2 DEF CoherenceInv, AttrInv
<1> QED BY <1>1, CoherenceInvariant, PTL

\* What cache_getdir answers is the names that the directory has, with the same
\* exceptions.
THEOREM NamesCoherent == Spec => []DirCoherent
<1>1. ASSUME CoherenceInv PROVE DirCoherent
  <2> SUFFICES ASSUME NEW p \in DOMAIN table, Hit("getdir", p)
               PROVE  \/ table[p].dir = Present(p)
                      \/ p \in staleDir \/ PendingIn(p)
    BY DEF DirCoherent
  <2>1. table[p].dir # {Null}
    BY DEF Hit
  <2>2. table[p].dir = Present(p) \/ p \in staleDir \/ Awaited(p)
    BY <1>1, <2>1 DEF CoherenceInv, DirInv
  <2>3. ASSUME Awaited(p) PROVE PendingIn(p)
    BY <2>3 DEF Awaited, PendingIn, Purged, PurgeInvalidate,
                PurgeInvalidateDir, PurgeRename
  <2> QED BY <2>2, <2>3
<1> QED BY <1>1, CoherenceInvariant, PTL

-----------------------------------------------------------------------------
(* The server holds a tree.                                                *)

\* A change of one path keeps every file in a directory.
LEMMA OnePathTree ==
  ASSUME server \in Trees, NEW path \in Paths \ {Root},
         NEW a \in (Attrs \ Links) \union {"absent"},
         NEW tree, tree = [server EXCEPT ![path] = a],
         IF a = "absent" THEN Present(path) = {}
           ELSE \/ server[path] \in Attrs \ Links
                \/ server[Parent[path]] # "absent"
  PROVE  tree \in Trees
<1>1. /\ server \in [Paths -> Attrs \union {"absent"}]
      /\ server[Root] # "absent"
      /\ \A p \in Paths :
           server[p] # "absent" => server[Parent[p]] \in Attrs \ Links
      /\ \A p \in Paths : IsDir(p) => server[p] \notin Links
  BY DEF Trees
<1>2. /\ Parent \in [Paths -> Paths] /\ Parent[Root] = Root /\ Root \in Paths
      /\ "absent" \notin Attrs /\ Links \subseteq Attrs
  BY ConstantsAssumption
<1>3. /\ tree \in [Paths -> Attrs \union {"absent"}]
      /\ tree[path] = a
      /\ \A p \in Paths : p # path => tree[p] = server[p]
  BY <1>1, <1>2
<1>4. tree[Root] # "absent"
  BY <1>1, <1>2, <1>3
<1>5. ASSUME NEW p \in Paths, tree[p] # "absent"
      PROVE  tree[Parent[p]] \in Attrs \ Links
  <2>1. CASE Parent[p] = path /\ a # "absent"
    BY <2>1, <1>3
  <2>2. CASE Parent[p] = path /\ a = "absent"
    <3>1. p # path /\ p # Root
      BY <2>2, <1>2, <1>3, <1>5
    <3>2. p \in Present(path)
      BY <2>2, <3>1, <1>3, <1>5 DEF Present, Children
    <3> QED BY <2>2, <3>2
  <2>3. CASE Parent[p] # path /\ p # path
    BY <2>3, <1>1, <1>2, <1>3, <1>5
  <2>4. CASE Parent[p] # path /\ p = path
    <3>1. a # "absent"
      BY <2>4, <1>3, <1>5
    <3>2. server[Parent[path]] # "absent"
      BY <3>1, <1>1, <1>2
    <3>3. IsDir(Parent[path])
      BY DEF IsDir, Children
    <3>4. server[Parent[path]] \in Attrs \ Links
      BY <3>2, <3>3, <1>1, <1>2
    <3> QED BY <2>4, <3>4, <1>2, <1>3
  <2> QED BY <2>1, <2>2, <2>3, <2>4
<1>6. ASSUME NEW p \in Paths, IsDir(p) PROVE tree[p] \notin Links
  BY <1>1, <1>2, <1>3, <1>6
<1> QED BY <1>3, <1>4, <1>5, <1>6 DEF Trees

\* So does a rename, which moves the children of a directory with it.
LEMMA MovedTree ==
  ASSUME server \in Trees,
         NEW from \in Paths \ {Root}, NEW to \in Paths \ {Root}, to # from,
         IsDir(from) = IsDir(to), server[from] # "absent",
         server[Parent[to]] # "absent",
         NEW tree, tree = Moved(from, to)
  PROVE  tree \in Trees
<1>1. /\ server \in [Paths -> Attrs \union {"absent"}]
      /\ server[Root] # "absent"
      /\ \A p \in Paths :
           server[p] # "absent" => server[Parent[p]] \in Attrs \ Links
      /\ \A p \in Paths : IsDir(p) => server[p] \notin Links
  BY DEF Trees
<1>2. /\ Parent \in [Paths -> Paths] /\ Parent[Root] = Root /\ Root \in Paths
      /\ "absent" \notin Attrs /\ Links \subseteq Attrs
      /\ \A p \in Paths : Parent[Parent[p]] = Root
  BY ConstantsAssumption, DepthAssumption
<1>3. ASSUME NEW p \in Paths, Parent[p] = to, Twin(p, from) # {}
      PROVE  (CHOOSE q \in Twin(p, from) : TRUE) \in Paths
  <2>1. Twin(p, from) \subseteq Paths
    BY DEF Twin, Children
  <2> QED BY <1>3, <2>1
<1>4. /\ tree \in [Paths -> Attrs \union {"absent"}]
      /\ tree[to] = server[from]
      /\ \A p \in Paths : p \notin {from, to} /\ Parent[p] \notin {from, to}
           => tree[p] = server[p]
      /\ \A p \in Paths : p # to /\ Parent[p] # to
           /\ (p = from \/ Parent[p] = from) => tree[p] = "absent"
  BY <1>1, <1>3 DEF Moved
<1>5. ASSUME NEW p \in Paths, IsDir(p) PROVE Parent[p] = Root
  BY <1>2, <1>5 DEF IsDir, Children
<1>6. tree[Root] # "absent"
  BY <1>1, <1>2, <1>4
<1>7. ASSUME NEW p \in Paths, tree[p] # "absent"
      PROVE  tree[Parent[p]] \in Attrs \ Links
  <2>1. CASE p = to
    <3>1. IsDir(Parent[to])
      BY DEF IsDir, Children
    <3>2. Parent[to] # from
      <4> SUFFICES ASSUME Parent[to] = from PROVE FALSE
        OBVIOUS
      <4>1. IsDir(to)
        BY <3>1
      <4> QED BY <4>1, <1>5
    <3>3. Parent[to] # to /\ Parent[to] \in Paths
      BY <1>2
    <3>4. tree[Parent[to]] = server[Parent[to]]
      BY <3>2, <3>3, <1>2, <1>4
    <3> QED BY <2>1, <3>1, <3>3, <3>4, <1>1
  <2>2. CASE p # to /\ Parent[p] = to
    <3>1. p # Root
      BY <2>2, <1>2
    <3>2. IsDir(from)
      BY <2>2, <3>1 DEF IsDir, Children
    <3> QED BY <2>2, <3>2, <1>1, <1>4
  <2>3. CASE p # to /\ Parent[p] # to
    <3>1. p # from /\ Parent[p] # from
      BY <2>3, <1>4, <1>7
    <3>2. tree[p] = server[p]
      BY <2>3, <3>1, <1>4
    <3>3. tree[Parent[p]] = server[Parent[p]]
      BY <2>3, <3>1, <1>2, <1>4
    <3> QED BY <3>2, <3>3, <1>1, <1>7
  <2> QED BY <2>1, <2>2, <2>3
<1>8. ASSUME NEW p \in Paths, IsDir(p) PROVE tree[p] \notin Links
  <2>1. CASE p = to
    BY <2>1, <1>1, <1>4, <1>8
  <2>2. CASE p = from
    <3>1. Parent[from] = Root
      BY <1>5, <1>8, <2>2
    <3> QED BY <2>2, <3>1, <1>2, <1>4
  <2>3. CASE p \notin {from, to}
    <3>1. Parent[p] = Root
      BY <1>5, <1>8
    <3> QED BY <2>3, <3>1, <1>1, <1>4, <1>8
  <2> QED BY <2>1, <2>2, <2>3
<1> QED BY <1>4, <1>6, <1>7, <1>8 DEF Trees

\* Every command that the server accepts leaves a tree.
LEMMA EffectsTree ==
  ASSUME server \in Trees, NEW r, MutationReq(r), NEW tree \in Effects(r)
  PROVE  tree \in Trees
<1>1. r.path \in Paths \ {Root} /\ r.to \in Paths \ {Root}
  BY DEF MutationReq
<1>2. CASE /\ r.op = "rename" /\ tree = Moved(r.path, r.to)
           /\ server[r.path] # "absent" /\ server[Parent[r.to]] # "absent"
  <2>1. IsDir(r.path) = IsDir(r.to) /\ r.to # r.path
    BY <1>2 DEF MutationReq
  <2> QED BY <1>1, <1>2, <2>1, MovedTree
<1>3. CASE /\ \E a \in Attrs \ Links : tree = [server EXCEPT ![r.path] = a]
           /\ \/ server[r.path] \in Attrs \ Links
              \/ server[Parent[r.path]] # "absent"
  <2>1. PICK a \in Attrs \ Links : tree = [server EXCEPT ![r.path] = a]
    BY <1>3
  <2>2. a # "absent"
    BY ConstantsAssumption
  <2> QED BY <1>1, <1>3, <2>1, <2>2, OnePathTree
<1>4. CASE Present(r.path) = {} /\ tree = [server EXCEPT ![r.path] = "absent"]
  BY <1>1, <1>4, OnePathTree
<1> QED BY <1>2, <1>3, <1>4, EffectKinds

TreeInv == server \in Trees

\* Only a mutation changes the server.
LEMMA TreeStep == CoherenceInv /\ TreeInv /\ [Next]_vars => TreeInv'
<1> SUFFICES ASSUME CoherenceInv, server \in Trees, [Next]_vars
             PROVE  server' \in Trees
  BY DEF TreeInv
<1>1. ASSUME NEW w \in Workers, Mutate(w) PROVE server' \in Trees
  <2>1. pc[w] = "mutate" /\ server' \in Effects(req[w])
    BY <1>1 DEF Mutate, CanSend
  <2>2. MutationReq(req[w])
    BY <2>1 DEF CoherenceInv, WorkerInv, ReqInv
  <2> QED BY <2>1, <2>2, EffectsTree
<1>2. ASSUME NEW w \in Workers, WorkerStep(w), ~Mutate(w)
      PROVE  server' = server
  BY <1>2 DEF WorkerStep, BeginLookup, BeginMutation, Begin, Lookup,
              ListParent, ListDir, ParseLink, ParseLinkAttr, ParseFile,
              AddAttr, AddLink, LinkNotFound, AddDir, MutateRefused, FreeHost,
              Purge, UseFreedHost
<1> QED BY <1>1, <1>2 DEF Next, Tick, Quiet, Undefined, vars

\* Every variable of the cache has its type: the nodes hold what struct node
\* holds, a worker parses only lines it has, and the server's files are in
\* directories, for trees of the depth that a rename is modelled for.
THEOREM CacheTyped == Spec => []TypeOK
<1>1. Init => TreeInv
  BY TreesAssumption DEF Init, TreeInv
<1>2. ASSUME CoherenceInv, TreeInv PROVE TypeOK
  <2>1. now \in Nat
    BY <1>2 DEF CoherenceInv, StoreInv
  <2>2. /\ DOMAIN table \subseteq Paths
        /\ \A p \in DOMAIN table : table[p] \in Nodes
        /\ last_cleaned \in Nat
        /\ host \in {"live", "freed", "undefined"}
        /\ stale \subseteq Paths /\ staleDir \subseteq Paths
    BY <1>2 DEF CoherenceInv, StoreInv
  <2>3. /\ pc \in [Workers -> Labels]
        /\ todo \in [Workers -> SUBSET Paths] /\ line \in [Workers -> Paths]
        /\ linkbuf \in [Workers -> Links \union {Junk}]
    BY <1>2 DEF CoherenceInv, ShapeInv
  <2>4. \A w \in Workers : todo[w] \subseteq DOMAIN listing[w]
    BY <1>2 DEF CoherenceInv, WorkerInv, ListingTyped
  <2> QED BY <1>2, <2>1, <2>2, <2>3, <2>4 DEF TypeOK, TreeInv, Labels
<1> QED BY <1>1, <1>2, TreeStep, CoherenceInvariant, PTL DEF Spec
=============================================================================
