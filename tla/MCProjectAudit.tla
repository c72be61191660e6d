-------------------------- MODULE MCProjectAudit --------------------------
(* An archive project of one owner and an SBOM project of another.          *)
EXTENDS ProjectAudit

CONSTANTS o1, o2, archive, sbom

MCOwnerOf == [p \in AllProjects |-> IF p = archive THEN o1 ELSE o2]
=============================================================================
