------------------------------- MODULE Aliases -------------------------------
(***************************************************************************)
(* The alias algebra of the registry.  A GNode alias is a dotted           *)
(* materialised path such as d1.isone.keene.willow; here it is the         *)
(* sequence of its words.  Word 1 is the universe token, which is a        *)
(* namespace and never a GNode.  The string operations of the code         *)
(* (split, rsplit, startswith, slicing) are operations on that sequence:   *)
(* words hold no dot, so the two representations are isomorphic.           *)
(***************************************************************************)
EXTENDS Naturals, Sequences

CONSTANT Word       \* the words an alias is made of (strings without a dot)

Alias == Seq(Word)

LastWord(alias) == alias[Len(alias)]

\* The first dotted segment.
universe_of(alias) == alias[1]

\* The alias with its last word dropped: for a forest root, the universe token.
parent_alias(alias) == SubSeq(alias, 1, Len(alias) - 1)

\* A two-word alias: its alias-parent is the bare universe token.
is_forest_root(alias) == Len(alias) = 2

\* `prefix' itself, or a path that continues it by whole words.
in_subtree(alias, prefix) ==
    /\ Len(prefix) <= Len(alias)
    /\ SubSeq(alias, 1, Len(prefix)) = prefix

\* Swap old_prefix, which alias starts with, for new_prefix.
rewrite_alias(alias, old_prefix, new_prefix) ==
    new_prefix \o SubSeq(alias, Len(old_prefix) + 1, Len(alias))

\* Mutant: the whole path below the universe, not its last word.
moved_child_new_prefix_Path(new_node_alias, child_alias) == new_node_alias \o Tail(child_alias)

\* Where a moved child lands under the new node.
moved_child_new_prefix(new_node_alias, child_alias) ==
    Append(new_node_alias, LastWord(child_alias))
=============================================================================
