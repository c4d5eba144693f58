----------------------------- MODULE MCRebuild -------------------------------
(***************************************************************************)
(* Small instances of Rebuild for TLC, with commands of MCRegistry: a      *)
(* backbone of two, two GNodeIds that ask for one alias, and a re-parent   *)
(* that renames whoever holds it.  In another order these commands give    *)
(* another registry.                                                       *)
(***************************************************************************)
EXTENDS Rebuild, MCRegistry

cRival == Create(Physical("ghost", keene, "ConnectivityNode"))
\* A home beside keene.
cBeech == Create(Physical("beech", Append(isone, "beech"), "LeafTransactiveNode"))

\* Introduces a GNodeId the registry may hold already.
rAgain == Reparent(Physical("beech", Append(isone, "sub"), "ConnectivityNode"), <<"beech">>)

RivalStream == {cIsone, cKeene, cRival}
GapStream == RivalStream \cup {cBeech}

\* Streams that a rebuild does not reproduce in full, see the README.
PlainStream == {cIsone, cKeene}
UnprovenStream == {cIsone, cKeene, Unproven(cRival)}
FeederStream == {cIsone, cKeene, cWillow}
HomeStream == {cIsone, cBeech}
TwinStream == {cIsone, Unproven(cIsone)}

NoReparents == {}
AgainOnly == {rAgain}
SubAndAgain == {rSub, rAgain}

\* The stream that is rebuilt in full is one the theorems are about.
ASSUME PlainAssumption == CreateCmd = RivalStream => Plain
=============================================================================
