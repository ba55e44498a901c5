--------------------------- MODULE MCHelmRelease ---------------------------
(***************************************************************************)
(* Two versions of a chart in namespace app; v2 also names namespace side. *)
(***************************************************************************)
EXTENDS HelmRelease

CONSTANTS v1, v2, app, side, default

NamedBy == [p \in Pkg |-> IF p = v1 THEN {} ELSE {side, default}]
=============================================================================
