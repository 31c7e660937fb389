------------------------------- MODULE MCEvidence -------------------------------
EXTENDS EvidenceRun

MCPhase == {A, B, C, D, E, FG, H}

\* Two gates fail in the first run and one in the second.
MCMaxRoots == <<2, 1>>
================================================================================
