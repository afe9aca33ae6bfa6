--------------------------------- MODULE Inbox ---------------------------------
(***************************************************************************)
(* What the webhook endpoint promises of a GitHub delivery, however often  *)
(* GitHub sends it: it is answered once for good, and accepting it makes   *)
(* one deployment for each project it names, all of them in the step that  *)
(* accepts it and none before or after.                                    *)
(***************************************************************************)
CONSTANTS Projects, Deliveries, Ids

VARIABLES
    answered,  \* "no", "accepted" or "ignored"
    made       \* the deployments that exist for a delivery, by project

Init ==
    /\ answered = [g \in Deliveries |-> "no"]
    /\ made = [g \in Deliveries |-> [p \in Projects |-> {}]]

\* The delivery names the projects in ps; id[p] is the deployment p gets.
Accept(g, ps, id) ==
    /\ answered[g] = "no"
    /\ ps # {}
    /\ answered' = [answered EXCEPT ![g] = "accepted"]
    /\ made' = [made EXCEPT ![g] = [p \in Projects |-> IF p \in ps THEN {id[p]} ELSE {}]]

Ignore(g) ==
    /\ answered[g] = "no"
    /\ answered' = [answered EXCEPT ![g] = "ignored"]
    /\ UNCHANGED made

\* A project goes away with its deployments.
Forget(p) ==
    /\ made' = [g \in Deliveries |-> [q \in Projects |-> IF q = p THEN {} ELSE made[g][q]]]
    /\ UNCHANGED answered

Next ==
    \/ \E g \in Deliveries :
        \/ Ignore(g)
        \/ \E ps \in SUBSET Projects : \E id \in [ps -> Ids] : Accept(g, ps, id)
    \/ \E p \in Projects : Forget(p)

Spec == Init /\ [][Next]_<<answered, made>>

================================================================================
