---------------------------- MODULE MCSshConsole ----------------------------
\* Connections are interchangeable, as are an administrator's logins.
EXTENDS SshConsole, TLC

Symmetry == Permutations(Conns) \cup Permutations(Logins)
=============================================================================
