------------------------ MODULE MCEnrichmentScheduler ------------------------
(* One repository: the scheduler keeps nothing that two of them share. *)
EXTENDS EnrichmentScheduler

CONSTANT repo
==============================================================================
