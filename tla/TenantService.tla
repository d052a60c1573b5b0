---------------------------- MODULE TenantService ----------------------------
(***************************************************************************)
(* TenantService: registering and deleting a tenant.                       *)
(***************************************************************************)
EXTENDS TenantStore

\* All the ids of Tenants would carry the same name.
NameTaken == tenants # {}

StartRegistration(s, t) ==
    /\ Begins(s, [Idle EXCEPT !.op = "register", !.at = "insert", !.on = t])
    /\ ~NameTaken /\ t \notin issued
    /\ issued' = issued \cup {t}

\* tenants.name has a unique index; DuplicateKeyError becomes TenantAlreadyExistsError.
InsertTenant(s) ==
    /\ Doing(s, "register", "insert")
    /\ tenants' = IF NameTaken THEN tenants ELSE tenants \cup {call[s].on}
    /\ Ends(s)
    /\ UNCHANGED <<agents, documents, ready, vectors, queue, job, datasets, experiments,
                   countVars, historyVars>>

-----------------------------------------------------------------------------
(* delete_tenant. *)

StartDeletion(s, t) ==
    /\ t \in tenants
    /\ Begins(s, [Idle EXCEPT !.op = "delete_tenant", !.at = "list", !.on = t])
    /\ UNCHANGED issued

\* One agent that cannot be read makes the whole listing raise.
ListAgents(s) ==
    LET mine == AgentsOf(call[s].on) IN
    /\ Doing(s, "delete_tenant", "list")
    /\ IF \A a \in mine : Readable(a)
       THEN call' = [call EXCEPT ![s].at = "agents",
                                 ![s].listed = {<<a, agents[a].store>> : a \in mine}]
       ELSE Ends(s)
    /\ UNCHANGED <<storeVars, countVars, historyVars>>

\* Those listed, and not those created since.
DoomedListed(s) == {p[1] : p \in call[s].listed}

\* delete_many({"tenant_id": tenant_id}).
Doomed(s) == AgentsOf(call[s].on)

\* The namespaces of agents created since the listing will not be deleted.
DeleteAgents(s) ==
    /\ Doing(s, "delete_tenant", "agents")
    /\ agents' = [a \in Agents |-> IF a \in Doomed(s) THEN NoAgent ELSE agents[a]]
    /\ leftover' = leftover \cup (Doomed(s) \ {p[1] : p \in call[s].listed})
    /\ Goes(s, "documents")
    /\ UNCHANGED <<tenants, documents, ready, vectors, queue, job, datasets, experiments,
                   countVars, raced, moved>>

DeleteDocuments(s) ==
    LET mine == {a \in Agents : OwnerOf[a] = call[s].on} IN
    /\ Doing(s, "delete_tenant", "documents")
    /\ documents' = [a \in Agents |-> IF a \in mine THEN {} ELSE documents[a]]
    /\ ready' = ready \ UNION {documents[a] : a \in mine}
    /\ Goes(s, "tenant")
    /\ UNCHANGED <<tenants, agents, vectors, queue, job, datasets, experiments,
                   countVars, historyVars>>

DeleteTenant(s) ==
    /\ Doing(s, "delete_tenant", "tenant")
    /\ tenants' = tenants \ {call[s].on}
    /\ Goes(s, "namespaces")
    /\ UNCHANGED <<agents, documents, ready, vectors, queue, job, datasets, experiments,
                   countVars, historyVars>>

\* A failure to delete a namespace is logged, and the next one is tried.
DeleteNamespaces(s) ==
    /\ Doing(s, "delete_tenant", "namespaces")
    /\ \E failed \in SUBSET call[s].listed :
          /\ faults + Cardinality(failed) <= MaxFaults
          /\ faults' = faults + Cardinality(failed)
          /\ vectors' = [a \in Agents |-> [v \in Stores |->
                           IF <<a, v>> \in call[s].listed \ failed THEN {} ELSE vectors[a][v]]]
          /\ leftover' = leftover \cup {p[1] : p \in failed}
    /\ Ends(s)
    /\ UNCHANGED <<tenants, agents, documents, ready, queue, job, datasets, experiments,
                   issued, arrived, raced, moved>>

TenantStep(s) ==
    \/ \E t \in Tenants : StartRegistration(s, t) \/ StartDeletion(s, t)
    \/ InsertTenant(s)
    \/ ListAgents(s) \/ DeleteAgents(s) \/ DeleteDocuments(s)
    \/ DeleteTenant(s) \/ DeleteNamespaces(s)

=============================================================================
