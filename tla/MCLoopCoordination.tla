------------------------- MODULE MCLoopCoordination -------------------------
\* Instances of LoopCoordination for TLC.  Sizes and limits are in the .cfg
\* files; RepairThreshold is 0 (repair switched off) or the default of 64, which
\* stands above every size used.
EXTENDS LoopCoordination

NoFault == {}

\* What may fail without K/V: the transactions of a pass and what follows them.
TransactionFaults == {"render", "flush", "crash"}
=============================================================================
