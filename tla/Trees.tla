-------------------------------- MODULE Trees --------------------------------
(***************************************************************************)
(* Values computed over a tree from its leaves up, as lark's Visitor and   *)
(* Transformer do over expressions and the walks of the code over nested   *)
(* filters.  A tree is whatever Parts takes apart.                         *)
(***************************************************************************)
EXTENDS Naturals, Sequences

Seqs == INSTANCE SequencesExt

(* Op of the tree and of the values of its parts, in order.  A node is     *)
(* named by the way to it from the root.  That a leaf is Op of itself is   *)
(* the recursion's first case; written apart, it needs no recursion.       *)
TreeFold(Op(_, _), Parts(_), tree) ==
  LET Node(way) == Seqs!FoldLeft(LAMBDA t, i : Parts(t)[i], tree, way)
      value[way \in Seq(Nat)] ==
        LET t == Node(way)
        IN  Op(t, [i \in DOMAIN Parts(t) |-> value[Append(way, i)]])
  IN  IF Parts(tree) = <<>> THEN Op(tree, <<>>) ELSE value[<<>>]
=============================================================================
