------------------------------- MODULE RBTDB -------------------------------
(***************************************************************************)
(* The versions of a zone database (lib/dns/rbtdb.c): readers hold open    *)
(* versions and nodes while one writer makes the next version, and what no *)
(* open version needs is cleaned up when the last reference to a node is   *)
(* dropped.                                                                *)
(*                                                                         *)
(* A node has one rdataset type.  A header keeps its serial number, which  *)
(* stands for its data, too.  What is done under a lock is one step;       *)
(* closeversion() is several: the reference count goes down without a      *)
(* lock, the list of versions is changed under the database lock, and each *)
(* changed record is then handled under its node's lock.  The shape of the *)
(* tree is left open: whether a node has names below it, and whether the   *)
(* tree lock can be had at once, is a choice.                              *)
(***************************************************************************)
EXTENDS Integers, Sequences, SequencesExt

CONSTANTS
    Readers, Writer,    \* the threads; the writer is the zone's task
    Nodes, NoNode,
    MaxSerial,
    Worlds              \* bounds of a behaviour: on next_serial, on the changes made
                        \* in one version, and on the nodes in the tree

ASSUME RBTDBAssumption ==
    /\ Writer \notin Readers /\ NoNode \notin Nodes
    /\ MaxSerial \in Nat \ {0}
    /\ Worlds \subseteq [serials : 1 .. MaxSerial, changes : Nat, nodes : Nat]

Threads == Readers \cup {Writer}
Serials == 1 .. MaxSerial

VARIABLES
    current, least, next, future,   \* serial numbers; future is 0 without a writer's version
    open,       \* open_versions: the newest first
    version,    \* the references and the changed_list of every version
    node,       \* data, references, dirty, and where the node is
    prune,      \* nodes for which a prune_tree() event was sent
    deadnodes,  \* whether a cleanup_dead_nodes_callback() event was sent
    thread,
    content,    \* the contents of every version (history)
    world       \* the bounds: never changes

vars == <<current, least, next, future, open, version, node, prune, deadnodes, thread, content, world>>

Header(s, x) == [serial |-> s, exists |-> x, ignore |-> FALSE]
NewNode == [data |-> <<>>, references |-> 0, dirty |-> FALSE, place |-> "out"]
NewVersion(refs) == [references |-> refs, changed |-> <<>>]
Idle == [pc |-> "idle", version |-> 0, node |-> NoNode, commit |-> FALSE,
         rollback |-> 0, least |-> 0, list |-> <<>>]

Init ==
    /\ current = 1 /\ least = 1 /\ next = 2 /\ future = 0
    /\ open = <<1>>
    /\ version = [s \in Serials |-> NewVersion(IF s = 1 THEN 1 ELSE 0)]
    /\ node = [n \in Nodes |-> NewNode]
    /\ prune = {} /\ deadnodes = FALSE
    /\ thread = [t \in Threads |-> Idle]
    /\ content = [s \in Serials |-> [n \in Nodes |-> 0]]
    /\ world \in Worlds

-----------------------------------------------------------------------------
(* The headers of a node                                                   *)

\* zone_findrdataset(): the newest header the version can see
Visible(data, s) ==
    LET seen == SelectSeq(data, LAMBDA h : h.serial <= s /\ ~h.ignore)
    IN  IF seen # <<>> /\ seen[1].exists THEN seen[1].serial ELSE 0

Lookup(s, n) == IF node[n].place = "out" THEN 0 ELSE Visible(node[n].data, s)

\* Slip: the node is not made dirty.
rollback_node_clean(nd, s) ==
    [nd EXCEPT !.data = [i \in DOMAIN @ |-> IF @[i].serial = s THEN [@[i] EXCEPT !.ignore = TRUE] ELSE @[i]]]

rollback_node(nd, s) ==
    [nd EXCEPT !.data = [i \in DOMAIN @ |-> IF @[i].serial = s THEN [@[i] EXCEPT !.ignore = TRUE] ELSE @[i]],
               !.dirty = @ \/ \E i \in DOMAIN nd.data : nd.data[i].serial = s]

\* clean_zone_node(), first pass: below the top, headers of the serial number
\* above them and ignored ones go; then the top, if it is ignored.
Thinned(data) ==
    LET Keep(kept, h) == IF kept # <<>> /\ (h.serial = Last(kept).serial \/ h.ignore)
                         THEN kept ELSE Append(kept, h)
        kept == FoldLeft(Keep, <<>>, data)
    IN  IF kept # <<>> /\ kept[1].ignore THEN Tail(kept) ELSE kept

\* ... second pass: the first below the top that is older than the least open
\* version goes, with all that are older still.
Recent(data, s) ==
    LET old == {i \in 2 .. Len(data) : data[i].serial < s}
    IN  IF old = {} THEN data ELSE SubSeq(data, 1, Min(old) - 1)

clean_zone_node(nd, s) ==
    LET data == Recent(Thinned(nd.data), s)
    IN  [nd EXCEPT !.data = IF Len(data) = 1 /\ ~data[1].exists THEN <<>> ELSE data,
                   !.dirty = Len(data) > 1]

-----------------------------------------------------------------------------
(* References to nodes                                                     *)

\* new_reference() of a node that is in the tree, after reactivate_node() has
\* taken it off the list of dead nodes
Referenced(nd) == [nd EXCEPT !.references = @ + 1, !.place = "in"]

\* cleanup_dead_nodes(): a node with names below it stays in the tree.
Swept(f) ==
    {g \in [Nodes -> {f[n] : n \in Nodes} \cup {NewNode} \cup {[NewNode EXCEPT !.place = "in"]}] :
        \A n \in Nodes : IF f[n].place = "dead"
                         THEN g[n] \in {NewNode, [NewNode EXCEPT !.place = "in"]}
                         ELSE g[n] = f[n]}

\* Slip: the node is cleaned whoever else refers to it.
ReleasedAlways(nd, s) ==
    LET fewer == [nd EXCEPT !.references = @ - 1]
    IN  IF nd.dirty THEN clean_zone_node(fewer, s) ELSE fewer

\* decrement_reference() up to the question whether the node is kept
Released(nd, s) ==
    LET fewer == [nd EXCEPT !.references = @ - 1]
    IN  IF fewer.references = 0 /\ nd.dirty THEN clean_zone_node(fewer, s) ELSE fewer

\* decrement_reference() without the tree lock.  An empty node nobody refers to
\* is kept if there are names below it, deleted, given to prune_tree(), or put
\* on the list of dead nodes if the tree lock is busy.
decrement_reference(f, n, s) ==
    LET nd == Released(f[n], s)
        Becomes(x) == node' = [f EXCEPT ![n] = x]
    IN  \/ /\ Becomes(nd)
           /\ UNCHANGED prune
        \/ /\ nd.references = 0 /\ nd.data = <<>>
           /\ \/ Becomes(NewNode) /\ UNCHANGED prune
              \/ Becomes([nd EXCEPT !.place = "dead"]) /\ UNCHANGED prune
              \/ Becomes([nd EXCEPT !.references = 1]) /\ prune' = prune \cup {n}

\* findnode(): the writer creates a node that does not exist, with the tree
\* lock, and takes the opportunity to sweep the dead nodes.
FindNode(t, n) ==
    /\ thread[t].pc = "idle" /\ thread[t].node = NoNode
    /\ t = Writer => thread[t].version # 0
    /\ \/ /\ node[n].place # "out"
          /\ node' = [node EXCEPT ![n] = Referenced(@)]
       \/ /\ node[n].place = "out" /\ t = Writer
          /\ Cardinality({m \in Nodes : node[m].place # "out"}) < world.nodes
          /\ \E g \in Swept(node) : node' = [g EXCEPT ![n] = Referenced(@)]
    /\ thread' = [thread EXCEPT ![t].node = n]
    /\ UNCHANGED <<current, least, next, future, open, version, prune, deadnodes, content, world>>

\* detachnode()
DetachNode(t) ==
    /\ thread[t].pc = "idle" /\ thread[t].node # NoNode
    /\ decrement_reference(node, thread[t].node, least)
    /\ thread' = [thread EXCEPT ![t].node = NoNode]
    /\ UNCHANGED <<current, least, next, future, open, version, deadnodes, content, world>>

\* prune_tree(): the event's reference is dropped with the tree lock held, and
\* the same is done for a parent that has lost its only child.
Pruned(nd) == IF nd.references = 0 /\ nd.data = <<>> THEN {nd, NewNode} ELSE {nd}

PruneTree(n) ==
    /\ n \in prune
    /\ prune' = prune \ {n}
    /\ \E x \in Pruned(Released(node[n], least)) :
          \/ node' = [node EXCEPT ![n] = x]
          \/ \E p \in Nodes \ {n} :
                /\ x = NewNode /\ node[p].place # "out"
                /\ \E y \in Pruned(Released(Referenced(node[p]), least)) :
                      node' = [node EXCEPT ![n] = x, ![p] = y]
    /\ UNCHANGED <<current, least, next, future, open, version, deadnodes, thread, content, world>>

\* cleanup_dead_nodes_callback()
CleanupDeadNodes ==
    /\ deadnodes
    /\ deadnodes' = FALSE
    /\ node' \in Swept(node)
    /\ UNCHANGED <<current, least, next, future, open, version, prune, thread, content, world>>

-----------------------------------------------------------------------------
(* Opening versions, and changing one                                      *)

currentversion(t) ==
    /\ t \in Readers /\ thread[t].pc = "idle" /\ thread[t].version = 0
    /\ version' = [version EXCEPT ![current].references = @ + 1]
    /\ thread' = [thread EXCEPT ![t].version = current]
    /\ UNCHANGED <<current, least, next, future, open, node, prune, deadnodes, content, world>>

\* A reader takes over a version another reader has open.
attachversion(t, u) ==
    /\ {t, u} \subseteq Readers /\ thread[t].pc = "idle" /\ thread[t].version = 0
    /\ thread[u].pc = "idle" /\ thread[u].version # 0
    /\ version' = [version EXCEPT ![thread[u].version].references = @ + 1]
    /\ thread' = [thread EXCEPT ![t].version = thread[u].version]
    /\ UNCHANGED <<current, least, next, future, open, node, prune, deadnodes, content, world>>

newversion ==
    /\ thread[Writer].pc = "idle" /\ future = 0 /\ next <= world.serials
    /\ future' = next /\ next' = next + 1
    /\ version' = [version EXCEPT ![next] = NewVersion(1)]
    /\ thread' = [thread EXCEPT ![Writer].version = next]
    /\ content' = [content EXCEPT ![next] = content[current]]
    /\ UNCHANGED <<current, least, open, node, prune, deadnodes, world>>

\* add_changed(): the changed record refers to the node.
add_changed(nd) == [nd EXCEPT !.references = @ + 1]

\* addrdataset(), subtractrdataset() and deleterdataset(): x tells whether the
\* rdataset exists afterwards.  There is always a changed record, dirty or not.
Stacked(nd, s, x, unchanged) ==
    IF unchanged THEN nd
    ELSE [nd EXCEPT !.data = <<Header(s, x)>> \o @, !.dirty = @ \/ nd.data # <<>>]

Change(x) ==
    LET n == thread[Writer].node
        real == SelectSeq(node[n].data, LAMBDA h : ~h.ignore)
        exists == real # <<>> /\ real[1].exists
    IN  /\ thread[Writer].pc = "idle" /\ future # 0 /\ n # NoNode
        /\ Len(version[future].changed) < world.changes
        /\ \E unchanged \in {x = exists, ~x /\ ~exists} :
              /\ node' = [node EXCEPT ![n] = add_changed(Stacked(@, future, x, unchanged))]
              /\ version' = [version EXCEPT ![future].changed =
                                Append(@, [node |-> n, dirty |-> ~unchanged /\ node[n].data # <<>>])]
              /\ content' = IF unchanged THEN content
                            ELSE [content EXCEPT ![future][n] = IF x THEN future ELSE 0]
        /\ UNCHANGED <<current, least, next, future, open, prune, deadnodes, thread, world>>

-----------------------------------------------------------------------------
(* closeversion()                                                          *)

\* The reference count goes down; the last one out has more to do.  The writer
\* holds no node by then: dns_diff_apply() has detached it.
closeversion(t, commit) ==
    LET s == thread[t].version
        last == version[s].references = 1
    IN  /\ thread[t].pc = "idle" /\ s # 0
        /\ t = Writer => thread[t].node = NoNode
        /\ commit => t = Writer
        /\ version' = [version EXCEPT ![s].references = @ - 1]
        /\ thread' = [thread EXCEPT ![t].version = IF last THEN s ELSE 0,
                                    ![t].commit = last /\ commit,
                                    ![t].pc = IF last THEN "close" ELSE "idle"]
        /\ UNCHANGED <<current, least, next, future, open, node, prune, deadnodes, content, world>>

Without(s) == SelectSeq(open, LAMBDA v : v # s)
Dirty(changed) == SelectSeq(changed, LAMBDA c : c.dirty)
Nondirty(changed) == SelectSeq(changed, LAMBDA c : ~c.dirty)

\* What the step under the database lock leaves to the thread
Cleaning(t, list, s, rollback) ==
    thread' = [thread EXCEPT ![t] =
                  [Idle EXCEPT !.node = thread[t].node,
                               !.pc = IF list = <<>> THEN "idle" ELSE "clean",
                               !.list = list, !.least = s, !.rollback = rollback]]

\* The writer's version becomes the current one.
CommitVersion ==
    LET s == thread[Writer].version
        unused == version[current].references = 1
        others == IF unused THEN Without(current) ELSE open
        changed == version[s].changed
        kept == IF others = <<>> THEN <<>> ELSE Dirty(changed)
        list == IF others = <<>> THEN changed ELSE Nondirty(changed)
    IN  /\ thread[Writer].pc = "close" /\ thread[Writer].commit
        /\ version' = [version EXCEPT
              ![current].references = @ - 1,
              ![current].changed = IF unused THEN <<>> ELSE @,
              ![s] = [references |-> 1,
                      changed |-> IF unused THEN kept \o version[current].changed ELSE kept]]
        /\ least' = IF others = <<>> THEN s ELSE least
        /\ current' = s /\ future' = 0
        /\ open' = <<s>> \o others
        /\ Cleaning(Writer, list, least', 0)
        /\ UNCHANGED <<next, node, prune, deadnodes, content, world>>

RollbackVersion ==
    LET s == thread[Writer].version
    IN  /\ thread[Writer].pc = "close" /\ ~thread[Writer].commit
        /\ version' = [version EXCEPT ![s].changed = <<>>]
        /\ future' = 0
        /\ Cleaning(Writer, version[s].changed, least, s)
        /\ UNCHANGED <<current, least, next, open, node, prune, deadnodes, content, world>>

\* The version with the least serial number greater than that of s
LeastGreater(s) ==
    LET i == IndexFirstSubSeq(<<s>>, open)
    IN  IF i > 1 THEN open[i - 1] ELSE current

\* Slip: the records are cleaned up, and kept.
LeftAtAll(s, g) == version[g].changed \o version[s].changed

\* The changed records g is left with: make_least_version() takes them all, or
\* the unexecuted cleanups of s are added to them.
LeftAt(s, g) == IF s = least THEN <<>> ELSE version[g].changed \o version[s].changed

\* The last reader of an old version has closed it.
CloseOldVersion(t) ==
    LET s == thread[t].version
        g == LeastGreater(s)
        list == IF s = least THEN version[g].changed ELSE <<>>
    IN  /\ t \in Readers /\ thread[t].pc = "close"
        /\ version' = [version EXCEPT ![s].changed = IF s = least THEN @ ELSE <<>>,
                          ![g].changed = LeftAt(s, g)]
        /\ least' = IF s = least THEN g ELSE least
        /\ open' = Without(s)
        /\ Cleaning(t, list, least', 0)
        /\ UNCHANGED <<current, next, future, node, prune, deadnodes, content, world>>

\* One changed record, with the least serial number read under the lock above
Cleanup(t) ==
    LET n == Head(thread[t].list).node
        nd == IF thread[t].rollback # 0 THEN rollback_node(node[n], thread[t].rollback) ELSE node[n]
    IN  /\ thread[t].pc = "clean"
        /\ decrement_reference([node EXCEPT ![n] = nd], n, thread[t].least)
        /\ IF Len(thread[t].list) > 1
           THEN /\ thread' = [thread EXCEPT ![t].list = Tail(@)]
                /\ UNCHANGED deadnodes
           ELSE /\ thread' = [thread EXCEPT ![t] = [Idle EXCEPT !.node = thread[t].node]]
                /\ deadnodes' = TRUE
        /\ UNCHANGED <<current, least, next, future, open, version, content, world>>

-----------------------------------------------------------------------------
Next ==
    \/ newversion
    \/ \E x \in BOOLEAN : Change(x)
    \/ CommitVersion \/ RollbackVersion
    \/ CleanupDeadNodes
    \/ \E n \in Nodes : PruneTree(n)
    \/ \E t \in Threads :
          \/ \E n \in Nodes : FindNode(t, n)
          \/ DetachNode(t)
          \/ currentversion(t)
          \/ \E u \in Readers : attachversion(t, u)
          \/ \E commit \in BOOLEAN : closeversion(t, commit)
          \/ CloseOldVersion(t)
          \/ Cleanup(t)

Spec == Init /\ [][Next]_vars

-----------------------------------------------------------------------------
(* Properties                                                              *)

Headers == [serial : Serials, exists : BOOLEAN, ignore : BOOLEAN]
Records == [node : Nodes, dirty : BOOLEAN]

\* The types of the database, its versions and its nodes.
TypeOK ==
    /\ world \in Worlds
    /\ {current, least} \subseteq Serials /\ next \in 2 .. MaxSerial + 1
    /\ future \in {0} \cup Serials
    /\ Range(open) \subseteq Serials
    /\ \A s \in Serials : /\ version[s].references \in Nat
                          /\ Range(version[s].changed) \subseteq Records
    /\ \A n \in Nodes : /\ Range(node[n].data) \subseteq Headers
                        /\ node[n].references \in Nat /\ node[n].dirty \in BOOLEAN
                        /\ node[n].place \in {"in", "dead", "out"}
    /\ prune \subseteq Nodes /\ deadnodes \in BOOLEAN
    /\ \A t \in Threads : /\ thread[t].pc \in {"idle", "close", "clean"}
                          /\ thread[t].version \in {0} \cup Serials
                          /\ Range(thread[t].list) \subseteq Records

\* A version shows the same data as long as it is open, whatever is added,
\* committed, rolled back or cleaned up meanwhile, and whether or not the reader
\* holds the node.
SnapshotKept ==
    \A s \in Serials : version[s].references > 0 =>
        \A n \in Nodes : Lookup(s, n) = content[s][n]

\* The assertions on versions and nodes hold.  closeversion(): a version that
\* becomes current was the writer's; the next open version is newer; and no
\* version is freed with changed records that nobody would clean up.
\* cleanup_dead_nodes(), new_reference() and delete_node(): a node on the list of
\* dead nodes is empty and nobody refers to it, and a node somebody refers to is
\* in the tree.
ListInsists ==
    /\ TypeOK
    /\ \A t \in Threads : thread[t].pc = "close" =>
          LET s == thread[t].version
          IN  IF t = Writer
              THEN /\ s = future
                   /\ thread[t].commit /\ version[current].references = 1 /\ current = least
                      => version[current].changed = <<>>
              ELSE /\ s # current /\ s < LeastGreater(s)
                   /\ s = least => version[s].changed = <<>>
    /\ \A n \in Nodes :
          /\ node[n].place = "dead" => node[n].references = 0 /\ node[n].data = <<>>
          /\ node[n].references > 0 => node[n].place = "in"

\* "When the reference count goes to zero, these rdatasets will be cleaned up"
\* (rollback_node()): what was rolled back does not outlive the last reference,
\* and superseded data that does is marked for the next one.
RolledBackGone ==
    \A n \in Nodes : node[n].references = 0 =>
        /\ \A i \in DOMAIN node[n].data : ~node[n].data[i].ignore
        /\ Len(node[n].data) > 1 => node[n].dirty
=============================================================================
