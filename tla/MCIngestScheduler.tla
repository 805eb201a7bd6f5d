-------------------------- MODULE MCIngestScheduler --------------------------
(* Three jobs with different intervals, one of them due at every tick.       *)
EXTENDS IngestScheduler

MCJobs == {"poll", "bars", "news"}
MCInterval == [j \in MCJobs |-> CASE j = "poll" -> 0 [] j = "bars" -> 1 [] j = "news" -> 2]
=============================================================================
