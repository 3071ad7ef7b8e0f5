----------------------------- MODULE MCBulkDelete -----------------------------
(* Small instances of BulkDelete.                                          *)
EXTENDS BulkDelete

CONSTANTS j1, j2

OneJob == {j1}
TwoJobs == {j1, j2}
MiddleLocked == {2}
=============================================================================
