----------------------------- MODULE MCRagIndexer -----------------------------
(* Small instances of RagIndexer.                                          *)
EXTENDS RagIndexer

CONSTANTS w1, w2

OneWorker == {w1}
TwoWorkers == {w1, w2}

\* Contents of one chunk, of two, and without text.
ThreeContents == <<1, 2, 0>>
TwoContents == <<1, 2>>
=============================================================================
