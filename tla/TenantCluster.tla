--------------------------- MODULE TenantCluster ---------------------------
(***************************************************************************)
(* The tenant side of the Kubernetes cluster: the namespaces of the        *)
(* projects, and in each the Deployment, Service and HTTPRoute of its      *)
(* deployments, named after the deployment id.  A deleted namespace first  *)
(* terminates, refusing every creation, and takes all it holds with it.    *)
(* What happens to the cluster from outside (kubectl, evictions, crashing  *)
(* containers) is drift, bounded by MaxDrifts.                             *)
(***************************************************************************)
EXTENDS Infra

CONSTANTS Namespaces,
          NamespaceOf,   \* the namespace a deployment runs in: the one its
                         \* project was created with
          MaxDrifts

ASSUME ClusterAssumption == /\ NamespaceOf \in [Deployments -> Namespaces]
                            /\ MaxDrifts \in Nat

VARIABLES ns,
          parts,         \* the resources of a deployment that exist
          ready,         \* whether its Deployment has ready replicas
          drifts

tenantVars == <<ns, parts, ready, drifts>>

Parts == {"deployment", "service", "route"}

TenantTypeOK == /\ ns \in [Namespaces -> {"absent", "active", "terminating"}]
                /\ parts \in [Deployments -> SUBSET Parts]
                /\ ready \in [Deployments -> BOOLEAN]
                /\ drifts \in 0..MaxDrifts

TenantInit == /\ ns = [n \in Namespaces |-> "absent"]
              /\ parts = [d \in Deployments |-> {}]
              /\ ready = [d \in Deployments |-> FALSE]
              /\ drifts = 0

(* Creating the Namespace is refused with 409 when it exists, terminating  *)
(* included, and a 409 is not an error of apply_manifests.                 *)
CreateNamespace(n) == /\ ns' = [ns EXCEPT ![n] = IF @ = "absent" THEN "active" ELSE @]
                      /\ UNCHANGED <<parts, ready, drifts>>

(* 404 is not an error of delete_namespace.  *)
DeleteNamespace(n) == /\ ns' = [ns EXCEPT ![n] = IF @ = "active" THEN "terminating" ELSE @]
                      /\ UNCHANGED <<parts, ready, drifts>>

(* Each document is created or patched by itself, and an error of one is   *)
(* logged; made is what of the three is there afterwards.                  *)
ApplyApp(d, made) ==
    /\ parts' = [parts EXCEPT ![d] =
                    IF ns[NamespaceOf[d]] = "active" THEN @ \cup made ELSE @]
    /\ UNCHANGED <<ns, ready, drifts>>

DeleteParts(d, ps) ==
    /\ parts' = [parts EXCEPT ![d] = @ \ ps]
    /\ ready' = [ready EXCEPT ![d] = @ /\ "deployment" \notin ps]
    /\ UNCHANGED <<ns, drifts>>

-----------------------------------------------------------------------------
(* The namespace controller is done.  *)
NamespaceGone(n) ==
    /\ ns[n] = "terminating"
    /\ ns' = [ns EXCEPT ![n] = "absent"]
    /\ parts' = [d \in Deployments |-> IF NamespaceOf[d] = n THEN {} ELSE parts[d]]
    /\ ready' = [d \in Deployments |-> NamespaceOf[d] # n /\ ready[d]]
    /\ UNCHANGED drifts

PodsUp(d) == /\ "deployment" \in parts[d] /\ ~ready[d]
             /\ ns[NamespaceOf[d]] = "active"
             /\ ready' = [ready EXCEPT ![d] = TRUE]
             /\ UNCHANGED <<ns, parts, drifts>>

Drift == drifts < MaxDrifts /\ drifts' = drifts + 1

PodsDown(d) == /\ ready[d] /\ Drift
               /\ ready' = [ready EXCEPT ![d] = FALSE]
               /\ UNCHANGED <<ns, parts>>

SomePartDeleted(d) ==
    /\ Drift
    /\ \E p \in parts[d] : /\ parts' = [parts EXCEPT ![d] = @ \ {p}]
                           /\ ready' = [ready EXCEPT ![d] = @ /\ p # "deployment"]
    /\ UNCHANGED ns

NamespaceDeleted(n) == /\ ns[n] = "active" /\ Drift
                       /\ ns' = [ns EXCEPT ![n] = "terminating"]
                       /\ UNCHANGED <<parts, ready>>
=============================================================================
