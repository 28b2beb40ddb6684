----------------------------- MODULE MCWorkflow -----------------------------
EXTENDS Workflow

\* Three stages in the roles of discovery, artifact and pulumi.
MCSteps == <<2, 2, 1>>
MCOptional == {<<1, 2>>}
MCRecoverable == {<<1, 1>>, <<2, 1>>, <<2, 2>>, <<3, 1>>}
MCOpenSteps == {<<1, 1>>, <<2, 1>>}
=============================================================================
