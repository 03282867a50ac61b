----------------------------- MODULE MCControls -----------------------------
(***************************************************************************)
(* The four controls of the server's front checked in one run: the cap on  *)
(* connections, the token buckets, the breadth counter and the semaphore   *)
(* before the database.  No two of them share a variable, so a property of *)
(* one cannot depend on the steps of another: each behaviour moves one of  *)
(* them, chosen at its start, and the run has the sum of their states and  *)
(* not the product.                                                        *)
(***************************************************************************)
EXTENDS Admission, ConnLimit, TokenBucket, Breadth

VARIABLE subject    \* the control that moves in this behaviour

controlVars ==
    <<subject, admissionVars, connVars, bucketVars, breadthVars>>

Controls == {"admission", "conns", "bucket", "breadth"}

ControlsInit ==
    /\ subject \in Controls
    /\ AdmissionInit /\ ConnInit /\ BucketInit /\ BreadthInit

ControlsNext ==
    /\ UNCHANGED subject
    /\ \/ /\ subject = "admission" /\ AdmissionNext
          /\ UNCHANGED <<connVars, bucketVars, breadthVars>>
       \/ /\ subject = "conns" /\ ConnNext
          /\ UNCHANGED <<admissionVars, bucketVars, breadthVars>>
       \/ /\ subject = "bucket" /\ BucketNext
          /\ UNCHANGED <<admissionVars, connVars, breadthVars>>
       \/ /\ subject = "breadth" /\ BreadthNext
          /\ UNCHANGED <<admissionVars, connVars, bucketVars>>

ControlsSpec ==
    ControlsInit /\ [][ControlsNext]_controlVars

-----------------------------------------------------------------------------
\* The shape of the four controls' state.
ControlsTypeOK == AdmissionTypeOK /\ ConnTypeOK /\ BucketTypeOK /\ BreadthTypeOK

\* A refusal is told the truth: by the wait it is given and by being one at all.
RefusalsAreTrue == RetryAfterTruthful /\ NoFalseRefusal

=============================================================================
