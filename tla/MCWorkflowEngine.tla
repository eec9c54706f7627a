--------------------------- MODULE MCWorkflowEngine ---------------------------
(* The seeded definition booking-assignment.                                  *)
EXTENDS WorkflowEngine, TLC

CONSTANTS wait_assign, check_assigned, escalate, notify_dispatch, complete

MCKind == (wait_assign :> "DELAY") @@ (check_assigned :> "CONDITION")
          @@ (escalate :> "ESCALATE") @@ (notify_dispatch :> "NOTIFY")
          @@ (complete :> "COMPLETE")

MCSuccessors == (wait_assign :> {check_assigned}) @@ (check_assigned :> {complete, escalate})
                @@ (escalate :> {notify_dispatch}) @@ (notify_dispatch :> {complete})
                @@ (complete :> {})
=============================================================================
