------------------------------ MODULE AcdbHeap ------------------------------
(***************************************************************************)
(* The heap of calibrations that clients have saved (acdb/src/acdb_heap.c):*)
(* a tree ordered by key vector, with depths and parent pointers, balanced *)
(* after every insertion by single and double rotations.  Saving a         *)
(* calibration, looking one up, listing them all for the delta file and    *)
(* clearing the heap are sequential; what is hard is that loops which      *)
(* follow some of the five links rely on all of them, while rotations turn *)
(* them.  A turn of a loop is an action, and so is a rotation.             *)
(*                                                                         *)
(* A node is identified by its key vector, a key vector is a natural (the  *)
(* code compares their hexadecimal strings), and the mirror images that    *)
(* the code writes out twice differ in the parameter side.  Not here: the  *)
(* calibrations under a node, and allocations that fail.                   *)
(***************************************************************************)
EXTENDS Integers, Sequences

CONSTANTS
  Key,   \* key vectors; bound in runs: nine, an insertion of ten may not end
  Null   \* the null pointer

ASSUME KeyAssumption == Key \subseteq Nat /\ Null \notin Key

VARIABLES
  tree,  \* the heap: root, the two children, parent and depth of every node
  op,    \* the call: its task and where it is, and the cursors of its loops
  saved, \* history: the key vectors saved since the heap was cleared
  moved  \* history: a double rotation has hung a subtree under another parent

acdb_vars == <<tree, op, saved, moved>>

Left == "left"
Right == "right"
Side == {Left, Right}
Other(side) == IF side = Left THEN Right ELSE Left

EmptyTree ==
  [root |-> Null, child |-> [side \in Side |-> [k \in Key |-> Null]],
   parent |-> [k \in Key |-> Null], depth |-> [k \in Key |-> 1]]

\* No call.  at is the cursor of every loop but that of the depths, which is up and
\* which may have to start again; below follows at two levels further down.
Rest == [pc |-> "idle", task |-> "none", key |-> Null, at |-> Null, below |-> Null,
         up |-> Null, again |-> Null, stack |-> <<>>, list |-> <<>>]

AcdbInit == tree = EmptyTree /\ op = Rest /\ saved = {} /\ moved = FALSE

-----------------------------------------------------------------------------
(* Nodes *)

\* acdb_tree_direction, of two different nodes.
Direction(x, y) == IF x < y THEN Left ELSE Right

\* acdb_heap_create_tree_node
Created(t, k) ==
  [t EXCEPT !.child = [side \in Side |-> [t.child[side] EXCEPT ![k] = Null]],
            !.parent[k] = Null, !.depth[k] = 1]

IsLeaf(t, x) ==
  t.child[Left][x] = Null /\ t.child[Right][x] = Null /\ t.parent[x] # Null

Depth(t, x) == IF x = Null THEN 0 ELSE t.depth[x]
Deeper(m, n) == IF m > n THEN m ELSE n

\* Mutant of NewDepth: the left subtree is forgotten where there are two.
NewDepthRightOnly(t, x) ==
  1 + (IF t.child[Right][x] = Null THEN Depth(t, t.child[Left][x])
                                   ELSE Depth(t, t.child[Right][x]))

\* What a turn of acdb_tree_update_depth gives a node.
NewDepth(t, x) ==
  IF IsLeaf(t, x) THEN 1
  ELSE 1 + Deeper(Depth(t, t.child[Left][x]), Depth(t, t.child[Right][x]))

\* acdb_tree_is_balanced: how much deeper the right subtree is.
Factor(t, x) == Depth(t, t.child[Right][x]) - Depth(t, t.child[Left][x])
IsBalanced(t, x) == Factor(t, x) \in -1 .. 1
HeavySide(t, x) == IF Factor(t, x) < 0 THEN Left ELSE Right

-----------------------------------------------------------------------------
(* Rotations *)

\* The node above x points to x again.
Relinked(t, x) ==
  IF t.parent[x] = Null THEN t
  ELSE [t EXCEPT !.child[Direction(x, t.parent[x])][t.parent[x]] = x]

\* Mutant of Single: the subtree between a and its child keeps its old place.
SingleKeepsMiddle(t, a, c, side) ==
  LET b == t.parent[c]
  IN Relinked([t EXCEPT !.parent[b] = t.parent[a], !.parent[a] = b,
                        !.child[side][a] = Null, !.child[Other(side)][b] = a], b)

\* acdb_tree_rotate_right (side is Left) and acdb_tree_rotate_left: the parent of
\* c takes the place of a, and a what was between them.
Single(t, a, c, side) ==
  LET b == t.parent[c]
      middle == t.child[Other(side)][b]
      up == [t EXCEPT !.parent[b] = t.parent[a], !.parent[a] = b]
      held == IF middle = Null THEN up ELSE [up EXCEPT !.parent[middle] = a]
  IN Relinked([held EXCEPT !.child[side][a] = middle, !.child[Other(side)][b] = a], b)

\* c and its parent b change places; the subtree of c that b takes over keeps c as
\* its parent.
Swapped(t, a, c, side) ==
  LET b == t.parent[c]
  IN [t EXCEPT !.parent[c] = t.parent[b], !.parent[b] = c, !.child[side][a] = c,
               !.child[Other(side)][b] = t.child[side][c], !.child[side][c] = b]

Double(t, a, c, side) == Single(Swapped(t, a, c, side), a, t.parent[c], side)

\* acdb_tree_rotate chooses between them.
IsSingle(t, a, c) == Direction(c, t.parent[c]) = HeavySide(t, a)

-----------------------------------------------------------------------------
(* acdb_heap_get_bin: a client looks a key vector up, or one that is to be saved is
   looked for first. *)

Steps(pc) == op.pc = pc
Goto(pc) == [op EXCEPT !.pc = pc]

\* The child of the node at the cursor where the key would be.
Way == tree.child[Direction(op.key, op.at)][op.at]

GetBin(task, k) ==
  /\ Steps("idle")
  /\ op' = [Rest EXCEPT !.pc = IF tree.root = Null THEN "absent" ELSE "search",
                        !.task = task, !.key = k, !.at = tree.root]
  /\ UNCHANGED <<tree, saved, moved>>

Search ==
  /\ Steps("search")
  /\ \/ op.at = op.key /\ op' = Goto("found")
     \/ op.at # op.key /\ Way = Null /\ op' = Goto("absent")
     \/ op.at # op.key /\ Way # Null /\ op' = [op EXCEPT !.at = Way]
  /\ UNCHANGED <<tree, saved, moved>>

-----------------------------------------------------------------------------
(* acdb_heap_insert, of a key vector that was not found.  Bound: one that a rotation
   has cut off is not saved again, which would make a second node of it. *)

IsNew == Steps("absent") /\ op.task = "save" /\ op.key \notin saved

Create ==
  /\ IsNew
  /\ IF tree.root = Null
       THEN /\ tree' = [Created(tree, op.key) EXCEPT !.root = op.key]
            /\ saved' = saved \cup {op.key} /\ op' = Rest
       ELSE /\ tree' = Created(tree, op.key)
            /\ op' = [op EXCEPT !.pc = "insert", !.at = tree.root] /\ UNCHANGED saved
  /\ UNCHANGED moved

Descend ==
  /\ Steps("insert") /\ Way # Null
  /\ op' = [op EXCEPT !.at = Way]
  /\ UNCHANGED <<tree, saved, moved>>

Hang ==
  /\ Steps("insert") /\ Way = Null
  /\ tree' = [tree EXCEPT !.child[Direction(op.key, op.at)][op.at] = op.key,
                          !.parent[op.key] = op.at]
  /\ saved' = saved \cup {op.key}
  /\ op' = [op EXCEPT !.pc = "depths", !.below = op.key, !.up = op.at]
  /\ UNCHANGED moved

\* acdb_tree_update_depth: from a node up to the root.
UpdateDepth ==
  /\ Steps("depths") /\ op.up # Null
  /\ tree' = [tree EXCEPT !.depth[op.up] = NewDepth(tree, op.up)]
  /\ op' = [op EXCEPT !.up = tree.parent[op.up]]
  /\ UNCHANGED <<saved, moved>>

DepthsUpdated ==
  /\ Steps("depths") /\ op.up = Null
  /\ op' = IF op.again = Null THEN Goto("balance")
           ELSE [op EXCEPT !.up = op.again, !.again = Null]
  /\ UNCHANGED <<tree, saved, moved>>

\* From where the new node hangs up to the root, which may be another node now.
StepUp == LET x == op.at IN
  /\ Steps("balance") /\ x # Null /\ IsBalanced(tree, x) /\ op.below # Null
  /\ tree' = IF tree.parent[x] = Null THEN [tree EXCEPT !.root = x] ELSE tree
  /\ op' = [op EXCEPT !.at = tree.parent[x],
              !.below = IF tree.depth[x] - tree.depth[op.below] >= 2
                        THEN tree.parent[op.below] ELSE op.below]
  /\ UNCHANGED <<saved, moved>>

\* A node without parent is not rotated, and the loop goes on for ever.
Rotate == LET x == op.at  c == op.below  side == HeavySide(tree, op.at) IN
  /\ Steps("balance") /\ x # Null /\ ~IsBalanced(tree, x)
  /\ c # Null /\ tree.parent[c] # Null
  /\ \/ /\ IsSingle(tree, x, c)
        /\ tree' = Single(tree, x, c, side)
        /\ op' = [op EXCEPT !.pc = "depths", !.up = x, !.again = c]
        /\ UNCHANGED moved
     \/ /\ ~IsSingle(tree, x, c)
        /\ tree' = Double(tree, x, c, side)
        /\ op' = [op EXCEPT !.pc = "depths", !.up = x, !.again = tree.parent[c]]
        /\ moved' = (moved \/ tree.child[side][c] # Null)
  /\ UNCHANGED saved

Balanced ==
  /\ Steps("balance") /\ op.at = Null /\ op' = Rest
  /\ UNCHANGED <<tree, saved, moved>>

-----------------------------------------------------------------------------
(* acdb_heap_get_map_list and acdb_heap_clear: in order, with a stack of the nodes the
   walk has gone left from. *)

Walk(task) ==
  /\ Steps("idle")
  /\ op' = [Rest EXCEPT !.pc = "walk", !.task = task, !.at = tree.root]
  /\ UNCHANGED <<tree, saved, moved>>

Push ==
  /\ Steps("walk") /\ op.at # Null
  /\ op' = [op EXCEPT !.stack = <<op.at>> \o @, !.at = tree.child[Left][op.at]]
  /\ UNCHANGED <<tree, saved, moved>>

Visit ==
  /\ Steps("walk") /\ op.at = Null /\ op.stack # <<>>
  /\ op' = [op EXCEPT !.stack = Tail(@), !.list = Append(@, Head(op.stack)),
                      !.at = tree.child[Right][Head(op.stack)]]
  /\ UNCHANGED <<tree, saved, moved>>

Walked ==
  /\ Steps("walk") /\ op.at = Null /\ op.stack = <<>>
  /\ op' = Goto("listed")
  /\ UNCHANGED <<tree, saved, moved>>

\* The call ends.  Clearing has freed the nodes on the list.
Return ==
  /\ op.pc \in {"found", "absent", "listed"} /\ ~IsNew
  /\ op' = Rest
  /\ IF op.task = "clear"
       THEN tree' = EmptyTree /\ saved' = {} /\ moved' = FALSE
       ELSE UNCHANGED <<tree, saved, moved>>

AcdbNext ==
  \/ \E k \in Key, task \in {"get", "save"} : GetBin(task, k)
  \/ \E task \in {"list", "clear"} : Walk(task)
  \/ Search \/ Create \/ Descend \/ Hang \/ UpdateDepth \/ DepthsUpdated
  \/ StepUp \/ Rotate \/ Balanced \/ Push \/ Visit \/ Walked \/ Return

AcdbSpec == AcdbInit /\ [][AcdbNext]_acdb_vars

-----------------------------------------------------------------------------
Pointer == Key \cup {Null}

Tree == [root : Pointer, child : [Side -> [Key -> Pointer]],
         parent : [Key -> Pointer], depth : [Key -> Nat \ {0}]]

AcdbTypeOK ==
  /\ tree \in Tree
  /\ op \in [pc : {"idle", "search", "found", "absent", "insert", "depths", "balance",
                   "walk", "listed"},
             task : {"none", "get", "save", "list", "clear"},
             key : Pointer, at : Pointer, below : Pointer, up : Pointer,
             again : Pointer, stack : Seq(Key), list : Seq(Key)]
  /\ saved \subseteq Key /\ moved \in BOOLEAN

\* What a look-up finds, and what is written to the delta file or freed, is what has
\* been saved, each calibration once and in the order of the key vectors, however the
\* rotations have turned the tree since.
SavedIsAlwaysFound ==
  /\ Steps("found") => op.key \in saved
  /\ Steps("absent") => op.key \notin saved
  /\ Steps("listed") => /\ {op.list[i] : i \in 1 .. Len(op.list)} = saved
                        /\ \A i, j \in 1 .. Len(op.list) : i < j => op.list[i] < op.list[j]

\* The code keeps this until a double rotation has moved a subtree: after one,
\* acdb_tree_rotate leaves a stale parent, and a later rotation that follows it can
\* cut nodes off (README, section 4).
SavedIsFound == ~moved => SavedIsAlwaysFound

\* acdb_tree_rotate gets what it is written for, a node that is out of balance, the child
\* on its heavy side and a child of that: the loop that calls it has stepped up on depths
\* and on the parent pointers that rotations turn.  With anything else under the node the
\* rotation would do nothing and the loop go on for ever, or would cut nodes off.
RotationsFit ==
  ~moved /\ Steps("balance") /\ op.at # Null =>
    /\ op.below # Null
    /\ ~IsBalanced(tree, op.at) => LET b == tree.parent[op.below] IN
         b # Null /\ tree.parent[b] = op.at /\ tree.child[HeavySide(tree, op.at)][op.at] = b

\* Until a subtree has been moved the stored depths are the heights of the subtrees, and
\* those of siblings differ by at most one, so that a look-up takes logarithmic time.
LookupsAreShort ==
  ~moved /\ op.pc \notin {"depths", "balance"} =>
    \A x \in saved : LET l == Depth(tree, tree.child[Left][x])
                         r == Depth(tree, tree.child[Right][x])
                     IN tree.depth[x] = 1 + Deeper(l, r) /\ l - r \in -1 .. 1
=============================================================================
