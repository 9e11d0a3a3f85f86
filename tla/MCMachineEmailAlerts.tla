----------------------- MODULE MCMachineEmailAlerts ------------------------
EXTENDS MachineEmailAlerts, TLC

CONSTANTS r1, r2, daily

TwoRuns == {r1, r2}
OneSlot == {daily}
=============================================================================
