---------------------------- MODULE MCRecoveryLock ----------------------------
EXTENDS RecoveryLock
=============================================================================
