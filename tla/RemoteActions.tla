---------------------------- MODULE RemoteActions ---------------------------
(***************************************************************************)
(* Bulk remote actions on top of the command queue.  A batch has one item  *)
(* per target; a worker that ticks every minute dispatches the batches     *)
(* that are due, creating a command per item, and closes the batches it    *)
(* sent once all their commands have finished.  The worker may die between *)
(* any two of its statements, the portal may cancel at any moment.         *)
(***************************************************************************)
EXTENDS CommandChannel

CONSTANTS
    Batches, NoBatch,
    Items,          \* items of all batches; their targets belong to this agent
    NoCommand,      \* command_id IS NULL
    BatchOf,        \* BatchOf[i]: the batch of item i
    MaxFailures     \* bound: ticks of the worker that are cut short

ASSUME ActionsAssumption ==
    /\ NoBatch \notin Batches /\ NoCommand \notin Commands
    /\ BatchOf \in [Items -> Batches]
    /\ MaxFailures \in Nat

VARIABLES
    batch,      \* batch[b]: remote_action_batches.status, "none" before create
    itemCommand,\* itemCommand[i]: remote_action_items.command_id
    madeFor,    \* madeFor[i]: commands ever created for item i
    worker,     \* what the tick is doing: "idle", "dispatch", "reconcile"
    due,        \* batches listDue returned, or listSent, still to process
    current,    \* the batch being dispatched, or NoBatch
    todo,       \* its items that had no command when itemsOf read them
    made,       \* the command created and not yet linked, or NoCommand
    failures    \* ticks cut short

batchVars == <<batch, itemCommand>>
workerVars == <<madeFor, worker, due, current, todo, made, failures>>
vars == <<commandVars, batchVars, workerVars>>

BatchStatuses ==
    {"none", "scheduled", "sent", "completed", "completed_with_errors", "cancelled"}
Closed == {"completed", "completed_with_errors"}
ItemsOf(b) == {i \in Items : BatchOf[i] = b}
With(st) == {b \in Batches : batch[b] = st}

Init ==
    /\ CommandsInit
    /\ batch = [b \in Batches |-> "none"]
    /\ itemCommand = [i \in Items |-> NoCommand]
    /\ madeFor = [i \in Items |-> {}]
    /\ worker = "idle" /\ due = {} /\ current = NoBatch
    /\ todo = {} /\ made = NoCommand
    /\ failures = 0

----------------------------------------------------------------------------
(* The portal *)

create(b) ==
    /\ batch[b] = "none"
    /\ batch' = [batch EXCEPT ![b] = "scheduled"]
    /\ UNCHANGED <<commandVars, itemCommand, workerVars>>

\* Mutant: cancels whatever the batch is doing.
cancelAlways(b) ==
    /\ batch[b] # "none"
    /\ batch' = [batch EXCEPT ![b] = "cancelled"]
    /\ UNCHANGED <<commandVars, itemCommand, workerVars>>
cancelIfScheduled(b) ==
    /\ batch[b] = "scheduled"
    /\ batch' = [batch EXCEPT ![b] = "cancelled"]
    /\ UNCHANGED <<commandVars, itemCommand, workerVars>>

----------------------------------------------------------------------------
(* The worker *)

\* Mutant: selects by date only.
listAll == With("scheduled") \cup With("cancelled")
\* scheduled_at <= now: any of the scheduled batches may be due.
listDue == With("scheduled")

TickStarts ==
    /\ worker = "idle"
    /\ worker' = "dispatch"
    /\ due' \in SUBSET listDue
    /\ UNCHANGED <<commandVars, batchVars, madeFor, current, todo, made, failures>>

\* Mutant: the check that a previous tick already made the command is missing.
unfiltered(b) == ItemsOf(b)
undispatched(b) == {i \in ItemsOf(b) : itemCommand[i] = NoCommand}

BeginBatch(b) ==
    /\ worker = "dispatch" /\ current = NoBatch /\ b \in due
    /\ current' = b
    /\ todo' = undispatched(b)
    /\ UNCHANGED <<commandVars, batchVars, madeFor, worker, due, made, failures>>

\* addCommand: the row of agent_commands exists before the item points to it.
CreateCommand(i, c) ==
    /\ i \in todo /\ made = NoCommand
    /\ insertPending(c)
    /\ made' = c
    /\ madeFor' = [madeFor EXCEPT ![i] = @ \cup {c}]
    /\ UNCHANGED <<rescans, toPush, wireVars, beatVars, agentVars, batchVars, todo,
                   worker, due, current, failures>>

\* Mutant: UPDATE ... WHERE agent_id, which takes in the agent's other items.
linkByAgent(i) ==
    /\ i \in todo /\ made # NoCommand /\ made \in madeFor[i]
    /\ itemCommand' = [j \in Items |-> made]
    /\ made' = NoCommand
    /\ todo' = todo \ {i}
    /\ UNCHANGED <<commandVars, batch, madeFor, worker, due, current, failures>>
setItemCommand(i) ==
    /\ i \in todo /\ made # NoCommand /\ made \in madeFor[i]
    /\ itemCommand' = [itemCommand EXCEPT ![i] = made]
    /\ made' = NoCommand
    /\ todo' = todo \ {i}
    /\ UNCHANGED <<commandVars, batch, madeFor, worker, due, current, failures>>

\* Mutant: the batch is marked as sent before its items are dispatched.
dispatchDone == made = NoCommand
allDispatched == todo = {} /\ made = NoCommand

\* setStatus(sent) does not look at the status again.
EndBatch ==
    /\ current # NoBatch /\ allDispatched
    /\ batch' = [batch EXCEPT ![current] = "sent"]
    /\ due' = due \ {current}
    /\ current' = NoBatch
    /\ UNCHANGED <<commandVars, itemCommand, madeFor, worker, todo, made, failures>>

StartReconcile ==
    /\ worker = "dispatch" /\ due = {}
    /\ worker' = "reconcile" /\ due' = With("sent")
    /\ UNCHANGED <<commandVars, batchVars, madeFor, current, todo, made, failures>>

commandStatus(i) == IF itemCommand[i] = NoCommand THEN "none" ELSE status[itemCommand[i]]
\* Mutant: the batch closes with the first command that finishes.
closeEarly(b) ==
    IF \A i \in ItemsOf(b) : commandStatus(i) \in {"none", "pending", "sent"}
    THEN "sent"
    ELSE "completed_with_errors"
\* The words compared are the source's: "success" is not one the WebSocket
\* writes.
aggregateStatus(b) ==
    IF \E i \in ItemsOf(b) : commandStatus(i) \in {"none", "pending", "sent"}
    THEN "sent"
    ELSE IF \A i \in ItemsOf(b) : commandStatus(i) = "success"
         THEN "completed"
         ELSE "completed_with_errors"

\* Nothing but this step writes a batch that was sent, so that the read of its
\* items and the UPDATE are one.
reconcileSent(b) ==
    /\ worker = "reconcile" /\ b \in due
    /\ batch' = [batch EXCEPT ![b] = aggregateStatus(b)]
    /\ due' = due \ {b}
    /\ UNCHANGED <<commandVars, itemCommand, madeFor, worker, current, todo, made, failures>>

TickEnds ==
    /\ worker = "reconcile" /\ due = {}
    /\ worker' = "idle"
    /\ UNCHANGED <<commandVars, batchVars, madeFor, due, current, todo, made, failures>>

\* Mutant: `running` is not reset when the tick throws.
TickFailsRunning ==
    /\ worker # "idle" /\ failures < MaxFailures
    /\ failures' = failures + 1
    /\ worker' = "running" /\ due' = {} /\ current' = NoBatch
    /\ todo' = {} /\ made' = NoCommand
    /\ UNCHANGED <<commandVars, batchVars, madeFor>>
\* A statement fails or the process dies: runGuardedTick ends the tick.
TickFails ==
    /\ worker # "idle" /\ failures < MaxFailures
    /\ failures' = failures + 1
    /\ worker' = "idle" /\ due' = {} /\ current' = NoBatch
    /\ todo' = {} /\ made' = NoCommand
    /\ UNCHANGED <<commandVars, batchVars, madeFor>>

----------------------------------------------------------------------------

WorkerStep ==
    \/ TickStarts
    \/ \E b \in Batches : BeginBatch(b) \/ reconcileSent(b)
    \/ \E i \in Items : setItemCommand(i) \/ \E c \in Commands : CreateCommand(i, c)
    \/ EndBatch \/ StartReconcile \/ TickEnds

BatchStep ==
    \/ \E b \in Batches : create(b) \/ cancelIfScheduled(b)
    \/ WorkerStep
    \/ TickFails

DeliveryStep == HeartbeatStep \/ ExecutionStep \/ SocketStep

\* Only the worker issues commands here; CommandChannel has the portal's.
Deliver(A) == A /\ UNCHANGED <<batchVars, workerVars>>
Next == BatchStep \/ Deliver(DeliveryStep)

Spec == Init /\ [][Next]_vars

----------------------------------------------------------------------------
(* Fairness.  The worker ticks every minute and looks at every due batch in *)
(* the end.  The agent beats every minute, its requests time out and its    *)
(* executions end; heartbeats tried again and again get through.            *)

Fairness ==
    /\ WF_vars(WorkerStep)
    /\ \A b \in Batches : SF_vars(TickStarts /\ b \in due')
    /\ WF_vars(Deliver(\E h \in Beats : SendHeartbeat(h)))
    /\ WF_vars(Deliver(AbandonHeartbeat) /\ beat[beating].phase = "lost")
    /\ WF_vars(Deliver(ReceiveAnswer))
    /\ \A c \in Commands : WF_vars(Deliver(HandleFromHeartbeat(c)))
    /\ WF_vars(Deliver(\E x \in running, o \in Outcomes : FinishCommand(x, o)))
    /\ \A h \in Beats :
        SF_vars(Deliver(SelectPending(h))) /\ SF_vars(Deliver(UpdateSent(h)))

FairSpec == Spec /\ Fairness

\* Besides, the agent always connects again, the cloud notices in the end that
\* a connection is gone, and a result that is sent again and again arrives.
SocketFairness ==
    \A s \in Sockets :
        /\ SF_vars(Deliver(Connect(s))) /\ SF_vars(Deliver(Register(s)))
        /\ WF_vars(Deliver(CloseSocket(s)))
        /\ SF_vars(Deliver(\E r \in up[s] : ReceiveResult(s, r)))

FairSocketSpec == FairSpec /\ SocketFairness

----------------------------------------------------------------------------

\* Every variable keeps its type, and the worker links a command only to the
\* item it was made for.
ActionsTypeOK ==
    /\ batch \in [Batches -> BatchStatuses]
    /\ itemCommand \in [Items -> Commands \cup {NoCommand}]
    /\ madeFor \in [Items -> SUBSET Commands]
    /\ worker \in {"idle", "dispatch", "reconcile"}
    /\ due \subseteq Batches
    /\ current \in Batches \cup {NoBatch}
    /\ todo \subseteq Items
    /\ made \in Commands \cup {NoCommand}
    /\ failures \in 0 .. MaxFailures
    /\ \A i \in Items : itemCommand[i] # NoCommand => itemCommand[i] \in madeFor[i]

\* A batch counts as sent only when each of its items has a command, also when
\* an earlier tick died in the middle of dispatching it (dispatchBatch).
SentIsComplete ==
    \A i \in Items : batch[BatchOf[i]] \in {"sent"} \cup Closed => itemCommand[i] # NoCommand

\* Entering again a batch that an earlier tick dispatched in part, or meeting
\* it once more after a cut tick, makes no second command for an item that has
\* one; only a command that was never linked is made again ("re-entrada tras
\* un fallo parcial: no duplicar", dispatchBatch).
NoSecondCommand ==
    [][\A i \in Items : itemCommand[i] # NoCommand => madeFor'[i] = madeFor[i]]_vars

\* A batch is closed only after the agent ran the command of every item
\* (reconcileSentBatches, aggregateStatus).
ClosedMeansRun ==
    \A i \in Items : batch[BatchOf[i]] \in Closed => runs[itemCommand[i]] > 0

\* A closed batch stays closed as it is: neither a cancellation nor a later
\* tick nor a late result rewrites it (cancelIfScheduled, listDue, listSent).
ClosedIsFinal == [][\A b \in Batches : batch[b] \in Closed => batch'[b] = batch[b]]_vars

\* A batch that is cancelled when no tick is at work stays cancelled for good:
\* only the tick that had already listed it may still send it
\* (cancelIfScheduled, listDue, setStatus in dispatchBatch).
CancelledStaysCancelled ==
    \A b \in Batches :
        [](batch[b] = "cancelled" /\ worker = "idle" => [](batch[b] = "cancelled"))

\* A due batch is eventually sent or cancelled, even if ticks are cut short.
ScheduledIsSent == \A b \in Batches : batch[b] = "scheduled" ~> batch[b] # "scheduled"

\* A pending command is eventually taken by a heartbeat, however many of them
\* are lost (AgentCommandsUseCase.takePending).
PendingIsTaken == \A c \in Commands : status[c] = "pending" ~> status[c] # "pending"

\* What the portal asked for is taken, by the worker and then by the agent.
NothingWaits == ScheduledIsSent /\ PendingIsTaken

\* A batch "completed with errors" had an error: some execution of a command of
\* its items ended in one.
ErrorsAreReal ==
    \A b \in Batches : batch[b] = "completed_with_errors" =>
        \E i \in ItemsOf(b) : "error" \in outcomes[itemCommand[i]]

\* "The reconciliation closes the batch when all its commands finished": once
\* the agent has executed each of them and none is under way.
AllFinished(b) ==
    /\ batch[b] = "sent"
    /\ \A i \in ItemsOf(b) : outcomes[itemCommand[i]] # {}
    /\ running = {}
FinishedBatchCloses == \A b \in Batches : AllFinished(b) ~> batch[b] # "sent"

=============================================================================
