---------------------------- MODULE MCCredentials ---------------------------
(***************************************************************************)
(* Instances of Credentials for TLC.  A behaviour updates one service only *)
(* (bound): the commands run one after the other and the stores of two     *)
(* services are disjoint, so that mixing them multiplies the states and    *)
(* adds no case.                                                           *)
(***************************************************************************)
EXTENDS Credentials

CONSTANTS n1, n2, c1, c2, c3, c4, c5, c6

TwoNamespaces == {n1, n2}

\* n2 existed before Zarf and has no label.
Labelled == {n1}

\* Bound: one credential more than there are stores of a service, so that a
\* fresh one always exists.
Creds == {c1, c2, c3, c4, c5, c6}

OneServiceNext == Next /\ svc' = svc

OneServiceSpec == Init /\ [][OneServiceNext]_vars /\ WF_vars(CommandStep)

\* Moreover the user keeps repeating the update with the service Zarf deploys.
RetrySpec ==
    /\ OneServiceSpec
    /\ \A s \in Service : SF_vars(s = svc /\ UpdateCreds(s, TRUE))
=============================================================================
