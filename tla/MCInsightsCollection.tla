------------------------ MODULE MCInsightsCollection ------------------------
(* Three executions, one without an owner, one with an entry, three flushes. *)
EXTENDS InsightsCollection

=============================================================================
