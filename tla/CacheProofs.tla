---------------------------- MODULE CacheProofs ----------------------------
(***************************************************************************)
(* Cleaning the attribute cache takes no answer away, for every number of  *)
(* workers, every set of paths, every timeout and every cleaning interval. *)
(*                                                                         *)
(* LiveKept is not inductive: cache_clean_entry looks at valid only, while *)
(* the answers depend on stat_valid, dir_valid and link_valid.  TableInv   *)
(* adds that valid is at least each of them, which cache_add_attr,         *)
(* cache_add_dir and cache_add_link keep by never lowering it.             *)
(***************************************************************************)
EXTENDS Cache, TLAPS

\* A node has the four times of struct node.
IsNode(n) ==
  /\ {"stat_valid", "dir_valid", "link_valid", "valid"} \subseteq DOMAIN n
  /\ n.stat_valid \in Nat /\ n.dir_valid \in Nat /\ n.link_valid \in Nat
  /\ n.valid \in Nat

\* valid covers the three parts of the node.
Covers(n) ==
  n.valid >= n.stat_valid /\ n.valid >= n.dir_valid /\ n.valid >= n.link_valid

GoodTable(t) == \A p \in DOMAIN t : IsNode(t[p]) /\ Covers(t[p])

TableInv ==
  /\ now \in Nat
  /\ pc = [w \in Workers |-> pc[w]]
  /\ GoodTable(table)

-----------------------------------------------------------------------------
\* cache_get returns a good node, also for a path the table does not hold.
LEMMA GetGood ==
  ASSUME TableInv, NEW path
  PROVE  IsNode(cache_get(path)) /\ Covers(cache_get(path))
<1>1. IsNode(FreshNode) /\ Covers(FreshNode)
  BY DEF IsNode, Covers, FreshNode
<1>2. QED
  BY <1>1 DEF TableInv, GoodTable, cache_get

\* Storing a good node in place of one that it covers keeps the table good, and
\* cleaning the result loses no node that can still answer.
LEMMA StoreAndClean ==
  ASSUME TableInv, NEW path, NEW node,
         IsNode(node), Covers(node), node.valid >= cache_get(path).valid,
         cache_clean(Stored(path, node))
  PROVE  /\ GoodTable(table')
         /\ \A p \in DOMAIN table :
              LiveUntil(table[p]) >= now => p \in DOMAIN table'
<1> DEFINE t == Stored(path, node)
           kept == {p \in DOMAIN t : ~CleanEntry(t[p])}
<1>1. DOMAIN t = DOMAIN table \union {path}
  BY DEF Stored
<1>2. ASSUME NEW p \in DOMAIN t
      PROVE  t[p] = IF p = path THEN node ELSE table[p]
  BY <1>2 DEF Stored
<1>3. GoodTable(t)
  BY <1>1, <1>2 DEF TableInv, GoodTable
<1>4. table' = t \/ table' = [p \in kept |-> t[p]]
  BY DEF cache_clean, Restricted
<1>5. kept \subseteq DOMAIN t
  OBVIOUS
<1>6. GoodTable(table')
  <2> HIDE DEF t, kept
  <2> QED BY <1>3, <1>4, <1>5 DEF GoodTable
<1>7. ASSUME NEW p \in DOMAIN table, LiveUntil(table[p]) >= now
      PROVE  p \in DOMAIN table'
  <2>1. p \in DOMAIN t
    BY <1>1
  <2>2. IsNode(table[p]) /\ Covers(table[p]) /\ now \in Nat
    BY DEF TableInv, GoodTable
  <2>3. table[p].valid >= now
    BY <1>7, <2>2 DEF LiveUntil, MaxOf, IsNode, Covers
  <2>4. t[p].valid >= now
    <3>1. CASE p = path
      <4>1. cache_get(path) = table[p]
        BY <3>1 DEF cache_get
      <4>2. t[p] = node
        BY <2>1, <1>2, <3>1
      <4> HIDE DEF t
      <4> QED BY <4>1, <4>2, <2>2, <2>3 DEF IsNode
    <3>2. CASE p # path
      BY <2>1, <1>2, <3>2, <2>3
    <3> QED BY <3>1, <3>2
  <2>5. IsNode(t[p])
    BY <1>3, <2>1 DEF GoodTable
  <2>6. ~CleanEntry(t[p])
    <3> HIDE DEF t
    <3> QED BY <2>2, <2>4, <2>5 DEF CleanEntry, IsNode
  <2>7. p \in kept
    BY <2>1, <2>6
  <2> HIDE DEF t, kept
  <2> QED BY <2>1, <2>7, <1>4
<1> QED BY <1>6, <1>7

\* The three insertions of cache.c.
Insertion ==
  \/ \E path, attr : cache_add_attr(path, attr)
  \/ \E path, names : cache_add_dir(path, names)
  \/ \E path, target : cache_add_link(path, target)

\* Each of them keeps the table good and loses no node that can still answer.
LEMMA InsertionGood ==
  ASSUME TableInv, Insertion
  PROVE  /\ GoodTable(table')
         /\ \A p \in DOMAIN table :
              LiveUntil(table[p]) >= now => p \in DOMAIN table'
<1>1. now \in Nat
  BY DEF TableInv
<1>2. ASSUME NEW path, NEW attr, cache_add_attr(path, attr)
      PROVE  \E node : /\ IsNode(node) /\ Covers(node)
                       /\ node.valid >= cache_get(path).valid
                       /\ cache_clean(Stored(path, node))
  <2> DEFINE old == cache_get(path)
             until == now + stat_timeout
             new == [old EXCEPT !.stat = IF attr = "absent" THEN @ ELSE attr,
                                !.not_found = (attr = "absent"),
                                !.stat_valid = until,
                                !.valid = MaxOf(@, until)]
  <2>1. cache_clean(Stored(path, new))
    BY <1>2 DEF cache_add_attr
  <2>2. IsNode(old) /\ Covers(old)
    BY GetGood
  <2>3. until \in Nat
    BY <1>1, ConstantsAssumption
  <2>4. IsNode(new) /\ Covers(new) /\ new.valid >= old.valid
    <3> DEFINE upto == MaxOf(old.valid, until)
    <3>1. upto \in Nat /\ upto >= old.valid /\ upto >= until
      <4> HIDE DEF old, until
      <4> QED BY <2>2, <2>3 DEF IsNode, MaxOf
    <3>2. /\ DOMAIN new = DOMAIN old /\ new.valid = upto
          /\ new.stat_valid = until
          /\ new.dir_valid = old.dir_valid /\ new.link_valid = old.link_valid
      <4> HIDE DEF old, until
      <4> QED BY <2>2 DEF IsNode
    <3> HIDE DEF old, until, new, upto
    <3> QED BY <2>2, <2>3, <3>1, <3>2 DEF IsNode, Covers
  <2> QED BY <2>1, <2>4
<1>3. ASSUME NEW path, NEW names, cache_add_dir(path, names)
      PROVE  \E node : /\ IsNode(node) /\ Covers(node)
                       /\ node.valid >= cache_get(path).valid
                       /\ cache_clean(Stored(path, node))
  <2> DEFINE old == cache_get(path)
             until == now + dir_timeout
             new == [old EXCEPT !.dir = names, !.not_found = FALSE,
                                !.dir_valid = until,
                                !.valid = MaxOf(@, until)]
  <2>1. cache_clean(Stored(path, new))
    BY <1>3 DEF cache_add_dir
  <2>2. IsNode(old) /\ Covers(old)
    BY GetGood
  <2>3. until \in Nat
    BY <1>1, ConstantsAssumption
  <2>4. IsNode(new) /\ Covers(new) /\ new.valid >= old.valid
    <3> DEFINE upto == MaxOf(old.valid, until)
    <3>1. upto \in Nat /\ upto >= old.valid /\ upto >= until
      <4> HIDE DEF old, until
      <4> QED BY <2>2, <2>3 DEF IsNode, MaxOf
    <3>2. /\ DOMAIN new = DOMAIN old /\ new.valid = upto
          /\ new.dir_valid = until
          /\ new.stat_valid = old.stat_valid /\ new.link_valid = old.link_valid
      <4> HIDE DEF old, until
      <4> QED BY <2>2 DEF IsNode
    <3> HIDE DEF old, until, new, upto
    <3> QED BY <2>2, <2>3, <3>1, <3>2 DEF IsNode, Covers
  <2> QED BY <2>1, <2>4
<1>4. ASSUME NEW path, NEW target, cache_add_link(path, target)
      PROVE  \E node : /\ IsNode(node) /\ Covers(node)
                       /\ node.valid >= cache_get(path).valid
                       /\ cache_clean(Stored(path, node))
  <2> DEFINE old == cache_get(path)
             until == now + link_timeout
             new == [old EXCEPT !.link = target, !.not_found = FALSE,
                                !.link_valid = until,
                                !.valid = MaxOf(@, until)]
  <2>1. cache_clean(Stored(path, new))
    BY <1>4 DEF cache_add_link
  <2>2. IsNode(old) /\ Covers(old)
    BY GetGood
  <2>3. until \in Nat
    BY <1>1, ConstantsAssumption
  <2>4. IsNode(new) /\ Covers(new) /\ new.valid >= old.valid
    <3> DEFINE upto == MaxOf(old.valid, until)
    <3>1. upto \in Nat /\ upto >= old.valid /\ upto >= until
      <4> HIDE DEF old, until
      <4> QED BY <2>2, <2>3 DEF IsNode, MaxOf
    <3>2. /\ DOMAIN new = DOMAIN old /\ new.valid = upto
          /\ new.link_valid = until
          /\ new.stat_valid = old.stat_valid /\ new.dir_valid = old.dir_valid
      <4> HIDE DEF old, until
      <4> QED BY <2>2 DEF IsNode
    <3> HIDE DEF old, until, new, upto
    <3> QED BY <2>2, <2>3, <3>1, <3>2 DEF IsNode, Covers
  <2> QED BY <2>1, <2>4
<1>5. PICK path, node : /\ IsNode(node) /\ Covers(node)
                        /\ node.valid >= cache_get(path).valid
                        /\ cache_clean(Stored(path, node))
  BY <1>2, <1>3, <1>4 DEF Insertion
<1> QED BY <1>5, StoreAndClean

-----------------------------------------------------------------------------
\* Every step of a worker leaves the table alone, inserts into it, or is the
\* purge after a mutation; only the clock moves now.
LEMMA StepKinds ==
  ASSUME TableInv, Next
  PROVE  /\ now' \in Nat
         /\ pc' = [w \in Workers |-> pc'[w]]
         /\ \/ table' = table
            \/ Insertion
            \/ \E w \in Workers : Purge(w)
<1>1. pc' = pc => pc' = [w \in Workers |-> pc'[w]]
  BY DEF TableInv
<1>2. ASSUME NEW w \in Workers, NEW label, pc' = [pc EXCEPT ![w] = label]
      PROVE  pc' = [v \in Workers |-> pc'[v]]
  BY <1>2 DEF TableInv
<1>3. ASSUME NEW w \in Workers, BeginLookup(w) \/ BeginMutation(w)
      PROVE  /\ now' = now /\ table' = table
             /\ pc' = [v \in Workers |-> pc'[v]]
  BY <1>2, <1>3 DEF BeginLookup, BeginMutation, Begin
<1>4. ASSUME NEW w \in Workers,
             Lookup(w) \/ ListParent(w) \/ ListDir(w) \/ LinkNotFound(w)
               \/ MutateRefused(w) \/ Mutate(w) \/ FreeHost(w)
               \/ UseFreedHost(w)
      PROVE  /\ now' = now /\ table' = table
             /\ pc' = [v \in Workers |-> pc'[v]]
  BY <1>1, <1>2, <1>4
     DEF Lookup, ListParent, ListDir, LinkNotFound, MutateRefused, Mutate,
         FreeHost, UseFreedHost, Sent, Goto, Return
<1>5. ASSUME NEW w \in Workers,
             ParseLink(w) \/ ParseLinkAttr(w) \/ ParseFile(w) \/ AddAttr(w)
               \/ AddLink(w) \/ AddDir(w)
      PROVE  /\ now' = now /\ Insertion
             /\ pc' = [v \in Workers |-> pc'[v]]
  BY <1>2, <1>5 DEF ParseLink, ParseLinkAttr, ParseFile, AddAttr, AddLink,
                    AddDir, Insertion, Goto, Return
<1>6. ASSUME NEW w \in Workers, Purge(w)
      PROVE  now' = now /\ pc' = [v \in Workers |-> pc'[v]]
  BY <1>2, <1>6 DEF Purge, Return
<1>7. ASSUME Tick
      PROVE  now' \in Nat /\ table' = table /\ pc' = pc
  BY <1>7 DEF Tick, TableInv
<1>8. ASSUME Quiet \/ Undefined
      PROVE  now' = now /\ table' = table /\ pc' = pc
  BY <1>8 DEF Quiet, Undefined, vars
<1> QED
  BY <1>1, <1>3, <1>4, <1>5, <1>6, <1>7, <1>8 DEF Next, WorkerStep, TableInv

\* A purge leaves the nodes of the other paths as they are.
LEMMA PurgeGood ==
  ASSUME TableInv, NEW w \in Workers, Purge(w)
  PROVE  GoodTable(table') /\ pc[w] = "purge" /\ pc'[w] = "idle"
<1>1. pc[w] = "purge" /\ pc'[w] = "idle"
  BY DEF Purge, Return, TableInv
<1>2. table' = [p \in DOMAIN table \ Purged(req[w]) |-> table[p]]
  BY DEF Purge, cache_purge, Restricted
<1>3. GoodTable(table')
  BY <1>2 DEF TableInv, GoodTable
<1> QED BY <1>1, <1>3

\* The table is good when the program starts: it is empty.
LEMMA TableInit == Init => TableInv
  BY ConstantsAssumption DEF Init, TableInv, GoodTable, Restricted

\* Every step keeps it good.
LEMMA TableStep == TableInv /\ [Next]_vars => TableInv'
<1> SUFFICES ASSUME TableInv, [Next]_vars PROVE TableInv'
  OBVIOUS
<1>1. CASE Next
  BY <1>1, StepKinds, InsertionGood, PurgeGood DEF TableInv, GoodTable
<1>2. CASE UNCHANGED vars
  BY <1>2 DEF vars, TableInv, GoodTable, IsNode, Covers
<1> QED BY <1>1, <1>2

\* In a good table a step of the program takes a node that can still answer
\* away only as the purge of a mutation.
LEMMA LiveStep ==
  TableInv /\ [Next]_vars =>
    [\A p \in DOMAIN table :
       LiveUntil(table[p]) >= now /\ p \notin DOMAIN table'
         => \E w \in Workers : pc[w] = "purge" /\ pc'[w] = "idle"]_vars
  BY StepKinds, InsertionGood, PurgeGood

\* Cleaning the table (cache_clean, run inside every insertion) never takes away
\* a node that can still answer a getattr, a getdir or a readlink: such a node
\* leaves the table only through the purge of a mutation.
THEOREM CleaningKeepsLive == Spec => LiveKept
  BY TableInit, TableStep, LiveStep, PTL DEF Spec, LiveKept
=============================================================================
