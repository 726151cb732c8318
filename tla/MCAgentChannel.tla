---------------------------- MODULE MCAgentChannel ----------------------------
(* Instances of AgentChannel for TLC.                                        *)
EXTENDS AgentChannel

CONSTANTS worker, console, bridgeMutex, coreLock

\* The Cutter worker and the main thread both hold the bridge's m_mutex; a
\* handler that needs the core takes the core lock as well.
SharedLock == [c \in Clients |-> {bridgeMutex}]

\* The worker holds m_mutex, a console command holds the core lock.
SeparateLocks == [c \in Clients |-> IF c = worker THEN {bridgeMutex} ELSE {coreLock}]
=============================================================================
