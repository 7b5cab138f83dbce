------------------------- MODULE WorkflowLifecycle --------------------------
(***************************************************************************)
(* What a workflow run promises to the people who approve its gated calls: *)
(*                                                                         *)
(*   - a gated call is sent only while its request is open and the run is  *)
(*     paused for it;                                                      *)
(*   - a request is approved only if its call was sent, an answer is never *)
(*     changed, and one request is open at a time;                         *)
(*   - the run goes on, and is done, only when no request is open;         *)
(*   - a run that is done or failed does nothing any more.                 *)
(*                                                                         *)
(* A run may be reported as failed although it is not.  From then on what  *)
(* its phase says is void while that is "failed"; what is promised of the  *)
(* calls and the answers is not.                                           *)
(*                                                                         *)
(* Threads, rows, retries and the other calls do not appear.               *)
(***************************************************************************)
EXTENDS FiniteSets

CONSTANT Gated   \* the calls that need approval

VARIABLES
  phase,   \* "pending", "running", "paused", "done" or "failed"
  answer,  \* what became of the request of each gated call
  sent,    \* gated calls that reached their provider
  misreported  \* whether the run was failed by somebody who did not run it

lifecycleVars == <<phase, answer, sent, misreported>>

Answers == {"none", "open", "approved", "rejected"}

Open == {c \in Gated : answer[c] = "open"}

LifecycleTypeOK ==
  /\ phase \in {"pending", "running", "paused", "done", "failed"}
  /\ answer \in [Gated -> Answers]
  /\ sent \in SUBSET Gated
  /\ misreported \in BOOLEAN

LifecycleInit ==
  /\ phase = "pending"
  /\ answer = [c \in Gated |-> "none"]
  /\ sent = {}
  /\ misreported = FALSE

\* The phase of the run, as far as it is known.
In(p) == phase = p \/ (misreported /\ phase = "failed")

Start ==
  /\ phase = "pending"
  /\ phase' = "running"
  /\ UNCHANGED <<answer, sent, misreported>>

Ask(c) ==
  /\ In("running")
  /\ Open = {}
  /\ answer[c] = "none"
  /\ answer' = [answer EXCEPT ![c] = "open"]
  /\ UNCHANGED <<phase, sent, misreported>>

Pause ==
  /\ In("running")
  /\ Open # {}
  /\ phase' = "paused"
  /\ UNCHANGED <<answer, sent, misreported>>

Send(c) ==
  /\ In("paused")
  /\ answer[c] = "open"
  /\ sent' = sent \cup {c}
  /\ UNCHANGED <<phase, answer, misreported>>

Answer(c) ==
  /\ In("paused")
  /\ answer[c] = "open"
  /\ \E reply \in {"approved", "rejected"} :
       /\ reply = "approved" => c \in sent
       /\ answer' = [answer EXCEPT ![c] = reply]
  /\ UNCHANGED <<phase, sent, misreported>>

Continue ==
  /\ In("paused")
  /\ Open = {}
  /\ phase' = "running"
  /\ UNCHANGED <<answer, sent, misreported>>

\* The loop ended: every answer is in.
Finish ==
  /\ In("running")
  /\ Open = {}
  /\ phase' \in {"done", "failed"}
  /\ UNCHANGED <<answer, sent, misreported>>

\* An exception ended the run, an open request stays open for ever.
Abort ==
  /\ phase \in {"pending", "running"}
  /\ phase' = "failed"
  /\ UNCHANGED <<answer, sent, misreported>>

Misreport ==
  /\ phase' = "failed"
  /\ misreported' = TRUE
  /\ UNCHANGED <<answer, sent>>

LifecycleNext ==
  \/ Start \/ Pause \/ Continue \/ Finish \/ Abort \/ Misreport
  \/ \E c \in Gated : Ask(c) \/ Send(c) \/ Answer(c)

LifecycleSpec == LifecycleInit /\ [][LifecycleNext]_lifecycleVars
=============================================================================
