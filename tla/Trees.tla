------------------------------- MODULE Trees -------------------------------
(***************************************************************************)
(* The tree masters of the registry - territories, customer groups, sales  *)
(* persons, supplier groups (services/tree.py, services/registry.py).  A   *)
(* node has a parent and a materialised path of slugs, kept by create and  *)
(* by update, which renames, moves or both and rewrites the path of        *)
(* everything below.                                                       *)
(*                                                                         *)
(* An update reads the node and the new parent, checks and computes, and   *)
(* only then locks the rows of the tree; the copies it has read are not    *)
(* read again.  So a request is two steps, Begin and Commit, and the       *)
(* requests of two editors overlap.  The foreign key and the unique key    *)
(* (company, title, parent) are checked by the database when it commits.   *)
(* The flag is_group, which any update may clear, is left out: a parent is *)
(* a group while the request is made.                                      *)
(***************************************************************************)
EXTENDS Integers, Sequences, FiniteSets, FiniteSetsExt

CONSTANTS Nodes,                   \* numbers, each given to one node, in order
          Titles, SlugOf, Editors,
          NoNode, Idle,            \* no parent; no request
          Unborn, Gone,            \* a node not yet created, and one deleted
          MaxUpdates

TreeRow == [parent : Nodes \cup {NoNode}, title : Titles, path : Seq(STRING)]
EditRow == [node : Nodes, read : TreeRow \cup {Unborn}, row : TreeRow]

ASSUME TreeConstants ==
  /\ Nodes \subseteq Nat /\ IsFiniteSet(Nodes) /\ SlugOf \in [Titles -> STRING] /\ MaxUpdates \in Nat
  /\ NoNode \notin Nodes /\ Unborn \notin TreeRow /\ Gone \notin TreeRow /\ Idle \notin EditRow

VARIABLES
  nodes,      \* the committed rows: parent, title and path
  edited,      \* the request of each editor
  updates,    \* updates begun, at most MaxUpdates
  outrun,     \* the editors another one committed before, since they began
  interleaved, \* one of them has committed
  twinned     \* two nodes have had the same path

treevars == <<nodes, edited, updates, outrun, interleaved, twinned>>

Present == {n \in Nodes : nodes[n] \notin {Unborn, Gone}}
Under(path, below) == Len(path) < Len(below) /\ SubSeq(below, 1, Len(path)) = path

TreeInit ==
  /\ nodes = [n \in Nodes |-> Unborn] /\ edited = [e \in Editors |-> Idle]
  /\ updates = 0 /\ outrun = {} /\ interleaved = FALSE /\ twinned = FALSE

\* _get_parent
ParentFits(parent) == parent \in Present \cup {NoNode}
PathBelow(parent, title) ==
  (IF parent = NoNode THEN <<>> ELSE nodes[parent].path) \o <<SlugOf[title]>>

\* mutant: only the parent itself is compared
ParentIsOther(n, parent) == parent # n
NotBelowItself(n, parent) ==
  parent # NoNode =>
    parent # n /\ nodes[parent].path # nodes[n].path /\ ~Under(nodes[n].path, nodes[parent].path)

Editing == {e \in Editors : edited[e] # Idle}
Numbers == {n \in Nodes : nodes[n] = Unborn} \ {edited[e].node : e \in Editing}

BeginCreate(e, title, parent) ==
  /\ edited[e] = Idle /\ Numbers # {} /\ ParentFits(parent)
  /\ edited' = [edited EXCEPT ![e] =
       [node |-> Min(Numbers), read |-> Unborn,
        row |-> [parent |-> parent, title |-> title, path |-> PathBelow(parent, title)]]]
  /\ UNCHANGED <<nodes, updates, outrun, interleaved, twinned>>

BeginUpdate(e, n, title, parent) ==
  /\ edited[e] = Idle /\ n \in Present /\ updates < MaxUpdates
  /\ ParentFits(parent) /\ NotBelowItself(n, parent)
  /\ nodes[n].title # title \/ nodes[n].parent # parent
  /\ edited' = [edited EXCEPT ![e] =
       [node |-> n, read |-> nodes[n],
        row |-> [parent |-> parent, title |-> title, path |-> PathBelow(parent, title)]]]
  /\ updates' = updates + 1
  /\ UNCHANGED <<nodes, outrun, interleaved, twinned>>

\* the row written: of a row that was read, the columns that changed
RowWritten(r) ==
  IF r.read = Unborn THEN r.row
  ELSE [column \in DOMAIN r.row |->
          IF r.row[column] = r.read[column] THEN nodes[r.node][column] ELSE r.row[column]]

\* the keys of the database
Accepted(r, row) ==
  /\ r.node \in Present \/ r.read = Unborn
  /\ row.parent \in Present \cup {NoNode}
  /\ row.parent # NoNode => \A n \in Present \ {r.node} : <<nodes[n].parent, nodes[n].title>> # <<row.parent, row.title>>

Rerooted(r, path) == r.row.path \o SubSeq(path, Len(r.read.path) + 1, Len(path))
\* mutant: the rows right below only
ChildrenRepathed(r, n) ==
  IF r.read # Unborn /\ Len(nodes[n].path) = Len(r.read.path) + 1 /\ Under(r.read.path, nodes[n].path)
  THEN Rerooted(r, nodes[n].path) ELSE nodes[n].path
\* the path of another node, after
Repathed(r, n) ==
  IF r.read # Unborn /\ r.read.path # r.row.path /\ Under(r.read.path, nodes[n].path)
  THEN Rerooted(r, nodes[n].path) ELSE nodes[n].path

CommitEdit(e) ==
  LET r == edited[e]
  IN /\ r # Idle
     /\ Accepted(r, RowWritten(r))
     /\ nodes' = [n \in Nodes |->
          IF n = r.node THEN RowWritten(r)
          ELSE IF n \notin Present THEN nodes[n]
          ELSE [nodes[n] EXCEPT !.path = Repathed(r, n)]]
     /\ edited' = [edited EXCEPT ![e] = Idle]
     /\ outrun' = (outrun \cup Editing) \ {e}
     /\ interleaved' = (interleaved \/ e \in outrun)
     /\ twinned' = (twinned \/ \E n, m \in Present' : n # m /\ nodes'[n].path = nodes'[m].path)
     /\ UNCHANGED updates

\* refused by a key, or the connection is lost
DropEdit(e) ==
  /\ edited[e] # Idle
  /\ edited' = [edited EXCEPT ![e] = Idle] /\ outrun' = outrun \ {e}
  /\ UNCHANGED <<nodes, updates, interleaved, twinned>>

\* the foreign key refuses what the count of children has missed
DeleteNode(n) ==
  /\ n \in Present /\ \A m \in Present : nodes[m].parent # n
  /\ nodes' = [nodes EXCEPT ![n] = Gone] /\ outrun' = Editing
  /\ UNCHANGED <<edited, updates, interleaved, twinned>>

TreeNext ==
  \/ \E e \in Editors, title \in Titles, parent \in Nodes \cup {NoNode} :
       \/ BeginCreate(e, title, parent)
       \/ \E n \in Nodes : BeginUpdate(e, n, title, parent)
  \/ \E e \in Editors : CommitEdit(e) \/ DropEdit(e)
  \/ \E n \in Nodes : DeleteNode(n)

TreeSpec == TreeInit /\ [][TreeNext]_treevars

----------------------------------------------------------------------------
(* Properties *)

TreeTypeOK ==
  /\ \A n \in Present : /\ nodes[n].parent \in Present \cup {NoNode} /\ nodes[n].title \in Titles
                        /\ Len(nodes[n].path) > 0
  /\ updates \in 0 .. MaxUpdates /\ outrun \subseteq Editors

\* get_tree: what is shown, the roots and what hangs on them
Shown == LET Grow[k \in Nat] ==
               IF k = 0 THEN {n \in Present : nodes[n].parent = NoNode}
               ELSE Grow[k - 1] \cup {n \in Present : nodes[n].parent \in Grow[k - 1]}
         IN Grow[Cardinality(Nodes)]

\* The path of a node tells its place, whatever was renamed and moved, unless
\* two requests interleaved or two nodes had titles with one slug in one place.
PathsTellPlaces ==
  ~interleaved /\ ~twinned =>
    \A n \in Present : nodes[n].path = PathBelow(nodes[n].parent, nodes[n].title)

\* No node is moved below itself, and all are shown, with the same two exceptions.
AllAreShown == ~interleaved /\ ~twinned => Shown = Present

TreesHold == TreeTypeOK /\ PathsTellPlaces /\ AllAreShown

\* "blocks" a move "under its own descendant" (tree.py).  Not so: the check goes
\* by paths.  Of two editors each moves one node below the other's; and one
\* editor alone, after a rename of a node has taken the children of its twin along.
NobodyVanishes == Shown = Present
NobodyVanishesAlone == ~interleaved => Shown = Present
=============================================================================
