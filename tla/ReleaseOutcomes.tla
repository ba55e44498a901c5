-------------------------- MODULE ReleaseOutcomes --------------------------
(***************************************************************************)
(* What one Helm release looks like to the rest of Zarf, and what an       *)
(* install, upgrade or uninstall may leave of it.  PackageState uses these *)
(* outcomes as single steps; HelmRelease works through the revision        *)
(* history that produces them and is checked against them.                 *)
(***************************************************************************)
CONSTANTS
    Pkg,     \* the versions of one package
    NoPkg    \* no version: no secret, or no deployed revision

ASSUME VersionsAssumption == NoPkg \notin Pkg

\* live: the version whose revision has status "deployed", the one a rollback
\* returns to; top: the status of the newest revision.  "pending" is a newest
\* revision that an operation left behind and that blocks the next upgrade.
Release == [live : Pkg \cup {NoPkg}, top : {"none", "deployed", "failed", "pending"}]
NoRelease == [live |-> NoPkg, top |-> "none"]
Present(rel) == rel.top # "none"

\* A successful install or upgrade to version p.  A pending newest revision
\* refuses every upgrade.
Upgraded(rel, p) ==
    IF rel.top = "pending" THEN {} ELSE {[live |-> p, top |-> "deployed"]}

\* An operation that stops after it stored a revision: the newest revision is
\* pending or failed, and the deployed one may already be superseded.  An
\* install that times out, completes after all and is then rolled back to
\* itself stops with its own version deployed.
Interrupted(rel, p) ==
    IF rel = [live |-> NoPkg, top |-> "pending"] THEN {rel}
    ELSE {[live |-> q, top |-> t] :
            q \in {rel.live, NoPkg} \cup (IF rel = NoRelease THEN {p} ELSE {}),
            t \in {"failed", "pending"}}

\* What a failed InstallOrUpgradeChart may leave: nothing touched; a revision
\* that failed; an upgrade that was rolled back; or a release that Helm
\* completed but whose health checks timed out.
InstallFailures(rel, p) ==
    {rel} \cup Upgraded(rel, p) \cup Interrupted(rel, p) \cup
    IF rel.live # NoPkg THEN {[live |-> rel.live, top |-> "deployed"]} ELSE {}

\* What an uninstall that returns an error may leave: the release untouched,
\* its newest revision half removed, or nothing with only the wait for its
\* resources timed out.  An older deployed revision keeps it upgradable; so does
\* a newest one that failed, if the mark of the uninstall on it was lost.
UninstallFailures(rel) ==
    {rel, NoRelease} \cup
    (IF rel.top = "failed" THEN {[live |-> NoPkg, top |-> "failed"]} ELSE {}) \cup
    (IF Present(rel) THEN {[live |-> NoPkg, top |-> "pending"]} ELSE {}) \cup
    (IF rel.top = "pending" /\ rel.live # NoPkg
       THEN {[live |-> rel.live, top |-> "failed"]} ELSE {})
=============================================================================
