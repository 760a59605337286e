----------------------------- MODULE BlockTree -----------------------------
(***************************************************************************)
(* Blocks.  A header commits to its parent by hash, so a block is          *)
(* identified with its path from genesis: a sequence of labels, one per    *)
(* block.  Genesis is the empty path, the height of a block is the length  *)
(* of its path and "descends from" is "has as a prefix".                   *)
(***************************************************************************)
EXTENDS Integers, Sequences

Genesis == <<>>
Height(b) == Len(b)
\* The ancestor of b at height n.
Ancestor(b, n) == SubSeq(b, 1, n)
Parent(b) == Ancestor(b, Height(b) - 1)

\* b lies on the branch that ends in head.
OnBranch(b, head) == Height(b) <= Height(head) /\ Ancestor(head, Height(b)) = b
=============================================================================
