------------------------------ MODULE Handlers ------------------------------
(***************************************************************************)
(* The threads that run the handlers of the application on one workflow    *)
(* run: a worker thread executes run_batch_workflow, a resolver thread     *)
(* executes ApprovalService._resolve.  Both end up in the same agent loop, *)
(* whose local variables are the thread's frame.  A thread identifier is   *)
(* used for one call of its handler.                                       *)
(***************************************************************************)
EXTENDS Repository

CONSTANTS
  Workers,      \* deliveries of the batch job
  Approvers,    \* HTTP requests that approve or reject
  NoCall        \* null value of a frame's call

ASSUME ThreadAssumption == Workers \cap Approvers = {}
ASSUME NoCallAssumption == NoCall \notin Calls

Threads == Workers \cup Approvers

VARIABLES
  pc,        \* the next statement of each thread
  fate,      \* whether the thread runs, and how it ended
  frame,     \* local variables of the agent loop
  effects    \* times the outside world carried out each call

threadVars == <<pc, fate, frame>>

Labels ==
  {"idle",                                                   \* not called yet
   "transcribe", "publish", "validate", "drain", "execute",  \* run_batch_workflow
   "fail", "existing", "misreport", "ack",
   "check", "inspect", "deliver", "log", "settle",           \* _resolve
   "resolve", "mark", "reopen", "resume",
   "plan", "count", "pick", "step", "save", "finish",        \* _run_loop
   "create", "invoke", "attempt", "record", "exhaust", "gate"}  \* execute

Fates == {"running", "returned", "refused", "raised", "crashed"}

Verdicts == {"awaiting_approval", "done", "failed"}

Frames ==
  [iteration : Nat,                                 \* loop counter
   todo      : SUBSET Calls,                        \* calls of the current plan
   seen      : SUBSET Calls,                        \* seen_signatures
   progress  : BOOLEAN,                             \* progress_made
   items     : SUBSET Items,                        \* task_map and decision_map
   call      : Calls \cup {NoCall},                 \* tool_call
   attempt   : Nat,                                 \* attempt_number
   outcome   : ToolExecutionStatus \cup {"none"},   \* outcome.status
   reused    : BOOLEAN,                             \* outcome.reused
   verdict   : Verdicts \cup {"none"}]              \* agent_result.status

NoFrame ==
  [iteration |-> 0, todo |-> {}, seen |-> {}, progress |-> FALSE,
   items |-> {}, call |-> NoCall, attempt |-> 0, outcome |-> "none",
   reused |-> FALSE, verdict |-> "none"]

ThreadTypeOK ==
  /\ pc \in [Threads -> Labels]
  /\ fate \in [Threads -> Fates]
  /\ frame \in [Threads -> Frames]
  /\ effects \in [Calls -> Nat]

ThreadInit ==
  /\ pc = [p \in Threads |-> "idle"]
  /\ fate = [p \in Threads |-> "running"]
  /\ frame = [p \in Threads |-> NoFrame]
  /\ effects = [c \in Calls |-> 0]

At(p, label) == fate[p] = "running" /\ pc[p] = label

Active(p) == fate[p] = "running" /\ pc[p] # "idle"

Goto(p, label) == pc' = [pc EXCEPT ![p] = label]

\* The thread ends; its stack is gone, where it stopped is remembered.
End(p, how) ==
  /\ fate' = [fate EXCEPT ![p] = how]
  /\ frame' = [frame EXCEPT ![p] = NoFrame]
  /\ UNCHANGED pc
=============================================================================
