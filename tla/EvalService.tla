----------------------------- MODULE EvalService -----------------------------
(***************************************************************************)
(* EvalService: replacing the evaluation dataset of an agent, and running  *)
(* an evaluation.  A large dataset is evaluated in a background task, a    *)
(* small one in the request: the calls are the same.                       *)
(***************************************************************************)
EXTENDS AgentService

StartReplacement(s, a) ==
    /\ Readable(a)
    /\ Begins(s, [Idle EXCEPT !.op = "replace", !.at = "delete", !.on = a])
    /\ UNCHANGED issued

DeleteDatasets(s) ==
    /\ Doing(s, "replace", "delete")
    /\ datasets' = [datasets EXCEPT ![call[s].on] = 0]
    /\ Goes(s, "insert")
    /\ UNCHANGED <<tenants, agents, documents, ready, vectors, queue, job, experiments,
                   countVars, historyVars>>

InsertDataset(s) ==
    /\ Doing(s, "replace", "insert")
    /\ datasets' = [datasets EXCEPT ![call[s].on] = @ + 1]
    /\ Ends(s)
    /\ UNCHANGED <<tenants, agents, documents, ready, vectors, queue, job, experiments,
                   countVars, historyVars>>

-----------------------------------------------------------------------------
(* run_eval. *)

StartEvaluation(s, a) ==
    /\ Readable(a)
    /\ datasets[a] > 0
    /\ Begins(s, [Idle EXCEPT !.op = "evaluate", !.at = "agent", !.on = a])
    /\ UNCHANGED issued

\* run_evaluation reads the agent again and works with this copy.
ReadEvaluated(s) ==
    LET a == call[s].on IN
    /\ Doing(s, "evaluate", "agent")
    /\ IF Readable(a)
       THEN call' = [call EXCEPT ![s].at = "ask", ![s].agent = agents[a]]
       ELSE Ends(s)
    /\ UNCHANGED <<storeVars, countVars, historyVars>>

\* The dataset, one query per question, and the scores.  A query to an agent whose
\* embedding provider was changed raises.
AskQuestions(s) ==
    /\ Doing(s, "evaluate", "ask")
    /\ \/ /\ datasets[call[s].on] > 0 /\ ~call[s].agent.mismatch
          /\ \E score \in Scores :
                call' = [call EXCEPT ![s].at = "baseline", ![s].score = score]
       \/ /\ datasets[call[s].on] = 0 \/ call[s].agent.mismatch
          /\ Ends(s)
    /\ UNCHANGED <<storeVars, countVars, historyVars>>

\* The latest experiment of the agent, by the time it was made.
ReadBaseline(s) ==
    /\ Doing(s, "evaluate", "baseline")
    /\ call' = [call EXCEPT ![s].at = "record", ![s].base = Len(experiments[call[s].on])]
    /\ UNCHANGED <<storeVars, countVars, historyVars>>

Delta(a, base, score) == IF base = 0 THEN 0 ELSE score - experiments[a][base].score

\* Reads the agent once more for the snapshot.
SnapshotAfresh(s) == IF Exists(call[s].on) THEN agents[call[s].on] ELSE call[s].agent

Snapshot(s) == call[s].agent

RecordExperiment(s) ==
    LET a == call[s].on
        score == call[s].score IN
    /\ Doing(s, "evaluate", "record")
    /\ experiments' = [experiments EXCEPT ![a] = Append(@,
          [score |-> score, threshold |-> Snapshot(s).threshold,
           alert |-> score < call[s].agent.threshold,
           base |-> call[s].base, delta |-> Delta(a, call[s].base, score)])]
    /\ Ends(s)
    /\ UNCHANGED <<tenants, agents, documents, ready, vectors, queue, job, datasets,
                   countVars, historyVars>>

EvalStep(s) ==
    \/ \E a \in Agents : StartReplacement(s, a) \/ StartEvaluation(s, a)
    \/ DeleteDatasets(s) \/ InsertDataset(s)
    \/ ReadEvaluated(s) \/ AskQuestions(s) \/ ReadBaseline(s) \/ RecordExperiment(s)

=============================================================================
