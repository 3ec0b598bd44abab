------------------------------ MODULE MCBleConfig ------------------------------
EXTENDS BleConfig, TLC

\* Workers are alike, and so are devices.
Symmetry == Permutations(Worker) \cup Permutations(Device)
=============================================================================
