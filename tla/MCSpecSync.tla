----------------------------- MODULE MCSpecSync -----------------------------
EXTENDS SpecSync, TLC

CONSTANTS hub, disk, v1, v2

\* disk is a path of the filesystem.
Addresses == (hub :> hub) @@ (disk :> NoAddress)

Tagged(repo, tag) == [repo |-> repo, tag |-> tag]

Fixed == {Tagged(hub, v2), Tagged(disk, v2)}

\* Two sources of one repository, or the second one local.
Shared == {[s \in Sources |-> IF s = 1 THEN Tagged(hub, v1) ELSE pin] : pin \in {Tagged(hub, v1), Local}}

Symmetry == Permutations(Procs) \cup Permutations(Revisions)
=============================================================================
