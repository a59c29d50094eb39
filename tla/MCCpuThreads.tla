---------------------------- MODULE MCCpuThreads ----------------------------
\* An instance of CpuThreads for model checking.
EXTENDS CpuThreads
=============================================================================
