----------------------------- MODULE WorkflowWalk -----------------------------
(***************************************************************************)
(* What the workflow engine promises to whoever writes a definition: the   *)
(* steps of an instance take effect one after the other, each at most once *)
(* and only after a step that went on to it, and a step goes on to one of  *)
(* its successors.  Jobs, retries, crashes and interventions are not seen. *)
(***************************************************************************)
EXTENDS Naturals

CONSTANTS Steps, StartAt, Successors

VARIABLES ran,   \* how often each step has taken effect
          chosen \* the successors each step has gone on to

walkVars == <<ran, chosen>>

Init == ran = [k \in Steps |-> 0] /\ chosen = [k \in Steps |-> {}]

IsNext(k) == k = StartAt \/ \E j \in Steps : k \in chosen[j]

TakeEffect(k) ==
    /\ ran[k] = 0
    /\ IsNext(k)
    /\ ran' = [ran EXCEPT ![k] = 1]

\* The walk goes on to one successor, or ends at a step that has none.
GoOnTo(k, j) == TakeEffect(k) /\ chosen' = [chosen EXCEPT ![k] = {j}]
End(k) == Successors[k] = {} /\ TakeEffect(k) /\ UNCHANGED chosen

Next == \E k \in Steps : End(k) \/ \E j \in Successors[k] : GoOnTo(k, j)

Spec == Init /\ [][Next]_walkVars
=============================================================================
