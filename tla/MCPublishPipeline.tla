------------------------- MODULE MCPublishPipeline -------------------------
EXTENDS PublishPipeline

\* The first publication is twice as large as the others.
Mixed == [p \in Pubs |-> IF p = 1 THEN 2 ELSE 1]

\* One stall in a pool with confirms, none in blind mode.
StallsOnce == [m \in {"confirmed", "blind"} |-> IF m = "confirmed" THEN 1 ELSE 0]

=============================================================================
