--------------------------- MODULE MCStudyPipeline ---------------------------
(* A connector of each kind: JSON in pages that are combined, with one indicator, *)
(* and CSV, with two slugs.                                                       *)
EXTENDS StudyPipeline

MCSources     == <<"world_bank_wdi", "owid">>
MCDirectories == <<"owid", "world_bank_wdi">>
MCSeries      == [s \in ToSet(MCSources) |-> IF s = "owid" THEN 2 ELSE 1]
=============================================================================
