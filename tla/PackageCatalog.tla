--------------------------- MODULE PackageCatalog ---------------------------
(***************************************************************************)
(* What publishing promises to those who pull: a registry is a catalog of  *)
(* packages by tag and architecture, each of them whole, and a publish     *)
(* puts one package in it at once and leaves the others alone.             *)
(***************************************************************************)
CONSTANTS
    Registries,
    Whole(_)      \* the package has all that its definition names

VARIABLE catalog  \* registry -> (tag and architecture -> package)

Init == \A r \in Registries : DOMAIN catalog[r] = {}

\* The package comes from outside, so the next state says which it was.
Publish(r, ref) ==
    /\ DOMAIN catalog'[r] = DOMAIN catalog[r] \cup {ref}
    /\ Whole(catalog'[r][ref])
    /\ \A x \in DOMAIN catalog[r] \ {ref} : catalog'[r][x] = catalog[r][x]
    /\ \A s \in Registries \ {r} : catalog'[s] = catalog[s]

Next == \E r \in Registries : \E ref \in DOMAIN catalog'[r] : Publish(r, ref)

Spec == Init /\ [][Next]_catalog
=============================================================================
