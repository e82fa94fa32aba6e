--------------------------- MODULE MCRecommendRuns ---------------------------
(* RecommendRuns for TLC.                                                    *)
EXTENDS RecommendRuns
==============================================================================
