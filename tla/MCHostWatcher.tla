---------------------------- MODULE MCHostWatcher ----------------------------
EXTENDS HostWatcher, TLC

\* A directory, and a link that leads to it.
MCPaths == {"dir", "link"}
MCLinks == [p \in MCPaths |-> "dir"]

Symmetry == Permutations(Connections)
=============================================================================
