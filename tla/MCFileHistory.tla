--------------------------- MODULE MCFileHistory ---------------------------
(* The instance of FileHistory that TLC checks. *)
EXTENDS FileHistory, TLC

\* Nothing tells one file from another.
FileSymmetry == Permutations(Files)

\* Once a change was missed, the stores say little of the disk, and shorter
\* ones are enough.
UncleanIsShort == clean \/ Len(entries) + Len(redo) < MaxEntries
=============================================================================
