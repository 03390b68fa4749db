------------------------------- MODULE Store --------------------------------
(***************************************************************************)
(* What the file system promises of what is on disk: a tree of files and   *)
(* directories that changes by whole operations only.  A power cut at any  *)
(* moment leaves the tree before the operation in progress, or after it.   *)
(***************************************************************************)
EXTENDS Integers, Sequences, SequencesExt

CONSTANTS Paths,   \* every path a node can have
          Kinds,   \* the operations that are asked for
          Value    \* file contents and modes

VARIABLE tree      \* what is at each path

\* data is a file's contents, 0 when it is empty.
Absent == [kind |-> "absent", mode |-> 0, data |-> 0]

Parent(p) == IF Len(p) = 1 THEN "dir" ELSE tree[Front(p)].kind
Empty(p) == \A q \in Paths : Len(q) > Len(p) /\ IsPrefix(p, q) => tree[q] = Absent

\* What an operation turns the node at its path into, where it is allowed to.
Done(kind, p, v) ==
  CASE kind = "create" -> [Absent EXCEPT !.kind = "file"]
    [] kind = "mkdir"  -> [Absent EXCEPT !.kind = "dir"]
    [] kind = "write"  -> [tree[p] EXCEPT !.data = v]
    [] kind = "chmod"  -> [tree[p] EXCEPT !.mode = v]
    [] kind = "remove" -> Absent

Allowed(kind, p) ==
  /\ Parent(p) = "dir"
  /\ CASE kind \in {"create", "mkdir"} -> tree[p] = Absent
       [] kind = "write"  -> tree[p].kind = "file"
       [] kind = "chmod"  -> tree[p] # Absent
       [] kind = "remove" -> tree[p] # Absent /\ Empty(p)

Do(kind, p, v) ==
  /\ Allowed(kind, p)
  /\ tree' = [tree EXCEPT ![p] = Done(kind, p, v)]

StoreInit == tree = [p \in Paths |-> Absent]
StoreNext == \E kind \in Kinds, p \in Paths, v \in Value : Do(kind, p, v)
StoreSpec == StoreInit /\ [][StoreNext]_tree
=============================================================================
