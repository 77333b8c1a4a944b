----------------------------- MODULE MCWorkspace -----------------------------
EXTENDS Workspace, TLC

CONSTANTS f1, f2

AllFaults == FaultKinds

SequenceFaults == FaultKinds \ {"policy_fails"}

StagingFault == {"stage_fails"}

NoFaults == {}

=============================================================================
