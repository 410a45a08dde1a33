--------------------------- MODULE MCResearchJobs ---------------------------
(* Two jobs, for a study or for the setup alone, and one cancel at a time.  *)
EXTENDS ResearchJobs
=============================================================================
