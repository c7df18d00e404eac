------------------------------- MODULE MCSync -------------------------------
(***************************************************************************)
(* An instance of profile sync: two devices, a project, and one of its     *)
(* product lines, both created on the first.                               *)
(***************************************************************************)
EXTENDS SyncProperties

CONSTANTS d1, d2, project, line

TwoDevices     == {d1, d2}
ProjectAndLine == <<project, line>>
LineOfProject  == [o \in {project, line} |-> IF o = line THEN project ELSE None]
\* The versions an object may get: those of both share theirs.
EditsOfBoth    == [o \in {project, line} |-> IF o = line THEN {2, 3} ELSE 1..3]
EditOfProject  == [o \in {project, line} |-> IF o = line THEN {2} ELSE {1, 3}]
FirstCreates   == [o \in {project, line} |-> {d1}]
=============================================================================
