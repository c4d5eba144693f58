--------------------------- MODULE AliasAuthority ----------------------------
(***************************************************************************)
(* What the registry promises about names, whatever the commands: an alias *)
(* belongs to the first GNodeId that takes it, for all time.               *)
(*                                                                         *)
(*   holder  every alias ever taken, with its permanent owner              *)
(*   live    the alias each GNode goes by now                              *)
(*                                                                         *)
(* A step introduces GNodes or changes what some of them go by.  It may    *)
(* use names nobody holds or names the GNode itself has held before.  It   *)
(* may also reserve further names; it never forgets a GNode or an owner.   *)
(***************************************************************************)
VARIABLES holder, live

\* Everyone goes by a name of its own.
Owned(names, owners) ==
    \A i \in DOMAIN names : names[i] \in DOMAIN owners /\ owners[names[i]] = i

Init == Owned(live, holder)

Assign ==
    /\ \A a \in DOMAIN holder : a \in DOMAIN holder' /\ holder'[a] = holder[a]
    /\ DOMAIN live \subseteq DOMAIN live'
    /\ Owned(live', holder')

Spec == Init /\ [][Assign]_<<holder, live>>
=============================================================================
