------------------------------ MODULE MCDeploy ------------------------------
EXTENDS Deploy, TLC

=============================================================================
