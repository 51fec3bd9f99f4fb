----------------------------- MODULE MCJobRuns -----------------------------
(* Two runs of one job on one node.                                          *)
EXTENDS JobRuns

CONSTANTS r1, r2
=============================================================================
