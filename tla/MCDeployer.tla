---------------------------- MODULE MCDeployer ----------------------------
EXTENDS Deployer

CONSTANTS a, alias, b, A, B, o1, o2, i1, i2

MCContexts == {a, alias, b}
MCMeaning == [x \in MCContexts |-> IF x = b THEN B ELSE A]
MCClusters == {A, B}
MCObjects == {o1, o2}
OneObject == {o1}
OneInstaller == {i1}
TwoInstallers == {i1, i2}
=============================================================================
