------------------------------ MODULE MCFacade -------------------------------
(***************************************************************************)
(* Small instances of ReadFacade for TLC, on the commands of MCRegistry:   *)
(* aliases are asked for before, while and after nodes hold them.          *)
(***************************************************************************)
EXTENDS ReadFacade, MCRegistry

sub1 == Append(isone, "sub")

FacadeCreates == {cIsone, cKeene, cWillow, cGhost}
FacadeReparents == {rSub, rFeeder}

Lookups == {keene, willow, Append(sub1, "keene")}
\* One root, and two: the old and the new alias of a subtree, and a root with
\* what lies beneath it.
RootLists == {<<isone>>, <<sub1, keene>>, <<keene, isone>>}
OldAndNew == {<<sub1, keene>>}
=============================================================================
