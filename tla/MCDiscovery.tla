---------------------------- MODULE MCDiscovery ----------------------------
EXTENDS Discovery

CONSTANTS ns, ns2, svc, svc2, secret, secret2, p, q, r

MCNamespaces == {ns, ns2}
MCServices == {svc, svc2}
MCSecrets == {secret, secret2}
MCStackProjects == {p, q}
MCImageProjects == {p, r}

Absent ==
    [exists |-> FALSE, svc |-> None, ready |-> FALSE, pod |-> 0, ours |-> FALSE,
     secret |-> None, held |-> 0, robot |-> 0, lists |-> TRUE, core |-> FALSE, projects |-> {}]

\* The robot of a Harbor that is installed here may not list projects.
EmptyNamespace == [Absent EXCEPT !.exists = TRUE, !.lists = FALSE]

\* By an earlier run; the admin's password was changed since.
Installed ==
    [exists |-> TRUE, svc |-> svc, ready |-> TRUE, pod |-> 1, ours |-> TRUE,
     secret |-> secret, held |-> 1, robot |-> 1, lists |-> TRUE, core |-> FALSE,
     projects |-> Projects]

\* By somebody else: without the projects and with a robot that may not list
\* them; under other names, and without the admin's password as well
Foreigners ==
    [Installed EXCEPT !.ours = FALSE, !.lists = FALSE, !.core = TRUE, !.projects = {}]

OtherNames == [Foreigners EXCEPT !.svc = svc2, !.secret = secret2, !.core = FALSE]

\* A Harbor that is not ready, or whose secret is stale, comes about by PodLost
\* and Rotate.
MCHarbors == {Absent, EmptyNamespace, Installed, Foreigners, OtherNames}
FewHarbors == {Absent, Installed, Foreigners}

BothPlatforms == {TRUE, FALSE}
CloudOnly == {TRUE}

AllSteps == {<<"check", "models", "images", "delete">>}
=============================================================================
