------------------------------- MODULE MCOutage -------------------------------
EXTENDS Workload

Kubernetes == {[target |-> "kubernetes", namespace |-> "apps", registry |-> TRUE]}
=============================================================================
