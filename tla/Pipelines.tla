----------------------------- MODULE Pipelines -----------------------------
(* The two pipelines of the service side by side: a behaviour takes one of them. *)
EXTENDS QueryPipeline, DocumentChunking

vars == <<pipelineVars, chunkVars>>

TypeOK == PipelineTypeOK /\ ChunkTypeOK

QueryUnused ==
    /\ stage = "unused"
    /\ agent = CHOOSE a \in Agents : TRUE
    /\ ask = [top_k |-> 1, allowed |-> {}, stream |-> FALSE]
    /\ retrieved = <<>> /\ lists = <<>> /\ ranking = <<>> /\ results = <<>>
    /\ answer = "none" /\ events = <<>> /\ outcome = "none"

ChunkingUnused ==
    /\ source = [type |-> "txt", text |-> <<>>]
    /\ chunker = [strategy |-> "keyword", size |-> 1, overlap |-> 0]
    /\ text = <<>> /\ chunks = <<>> /\ progress = "unused"

Init == (PipelineInit /\ ChunkingUnused) \/ (ChunkInit /\ QueryUnused)

Next ==
    \/ PipelineStep /\ UNCHANGED chunkVars
    \/ ChunkStep /\ UNCHANGED pipelineVars

Spec == Init /\ [][Next]_vars

=============================================================================
