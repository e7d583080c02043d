------------------------- MODULE MCDeclarationSync -------------------------
(* A small instance of DeclarationSync for TLC. *)
EXTENDS DeclarationSync, TLC

CONSTANTS maas, dbaas, m1, m2

\* Two resources of one kind: the waiters share a watcher.
OneKindOf == (m1 :> maas) @@ (m2 :> maas)
OneKindDeclared == (maas :> <<m1, m2>>) @@ (dbaas :> <<>>)
=============================================================================
