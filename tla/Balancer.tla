------------------------------ MODULE Balancer ------------------------------
(***************************************************************************)
(* What a load-balanced lite-server call promises its caller, whatever    *)
(* peer selection and retry policy sit behind it: a call that returns Ok  *)
(* was served by a peer that was up, a call that returns an error was     *)
(* served by none, and a call that is not dropped by its caller returns.  *)
(* The peers' health is the environment, changed by crashes and recoveries.*)
(***************************************************************************)
EXTENDS Naturals

CONSTANTS Peers, Errors

VARIABLES up, busy, served, result

vars == <<up, busy, served, result>>

Init ==
  /\ up = [p \in Peers |-> TRUE]
  /\ busy = FALSE
  /\ served = FALSE
  /\ result = "none"

Call ==
  /\ ~busy
  /\ busy' = TRUE /\ served' = FALSE /\ result' = "none"
  /\ UNCHANGED up

\* Some peer that is up accepts the request.
Serve ==
  /\ busy /\ ~served
  /\ \E p \in Peers : up[p]
  /\ served' = TRUE
  /\ UNCHANGED <<up, busy, result>>

ReturnOk ==
  /\ busy /\ served
  /\ busy' = FALSE /\ result' = "ok"
  /\ UNCHANGED <<up, served>>

ReturnErr(e) ==
  /\ busy /\ ~served
  /\ busy' = FALSE /\ result' = e
  /\ UNCHANGED <<up, served>>

\* The caller drops the call.
Drop ==
  /\ busy
  /\ busy' = FALSE /\ result' = "cancelled"
  /\ UNCHANGED <<up, served>>

Flip(p) ==
  /\ up' = [up EXCEPT ![p] = ~@]
  /\ UNCHANGED <<busy, served, result>>

Return == ReturnOk \/ \E e \in Errors : ReturnErr(e)

Next ==
  \/ Call \/ Serve \/ Return \/ Drop
  \/ \E p \in Peers : Flip(p)

\* What a call promises at every step.
SafeSpec == Init /\ [][Next]_vars

\* ... and that a call that is not dropped returns.
Spec == SafeSpec /\ WF_vars(Return)
=============================================================================
