------------------------- MODULE MCDefinitionStore -------------------------
(***************************************************************************)
(* Instances of DefinitionStore for TLC.                                    *)
(***************************************************************************)
EXTENDS DefinitionStore, TLC

\* Every well-formed body over the dates of the instance.
AllBodies == {b \in NewVersionRequests : b.from < b.to}

RequestSymmetry == Permutations(Requests)
=============================================================================
