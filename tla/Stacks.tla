------------------------------- MODULE Stacks -------------------------------
(***************************************************************************)
(* The CloudFormation adapter, provisioner/aws.go: a goroutine applies a   *)
(* stack (create it, or protect and update it, then wait) or deletes one   *)
(* (unprotect it, delete it, then wait).  Every call is a step of its own, *)
(* between which CloudFormation and other goroutines go on.                *)
(*                                                                         *)
(* A template is a number.  Time is kept only as far as the code compares  *)
(* it: whether a stack was last updated before or after its deletion was   *)
(* requested.                                                              *)
(***************************************************************************)
EXTENDS Naturals, Sequences, FiniteSets

CONSTANTS
    Stack,      \* the names of stacks
    Skew        \* TRUE if the clocks of AWS and of the process may differ

ASSUME SkewAssumption == Skew \in BOOLEAN

VARIABLES
    cf,    \* CloudFormation's record of each stack
    job    \* where the goroutine is that works on the stack, "idle" if none does

Stable == {"CREATE_COMPLETE", "UPDATE_COMPLETE", "UPDATE_ROLLBACK_COMPLETE"}
Complete == {"CREATE_COMPLETE", "UPDATE_COMPLETE"}
Statuses == Stable \cup
    {"NONE", "CREATE_IN_PROGRESS", "UPDATE_IN_PROGRESS",
     "UPDATE_COMPLETE_CLEANUP_IN_PROGRESS", "UPDATE_ROLLBACK_IN_PROGRESS",
     "UPDATE_ROLLBACK_FAILED", "DELETE_IN_PROGRESS", "DELETE_FAILED"}

Templates == Nat

\* A stack: its status, the template it has and the one it is changed to, its
\* termination protection, its LastUpdatedTime relative to the last deletion
\* ("before" or "after" it), and whether a deletion was accepted and has not
\* begun.
NoStack == [st |-> "NONE", tmpl |-> 0, goal |-> 0, protected |-> FALSE,
            updated |-> "never", requested |-> FALSE]

Applying == {"create", "protect", "update", "wait", "waitUnchanged"}
Deleting == {"unprotect", "delete", "waitDeletion", "waitForeignDeletion"}
Ended == {"ok", "failed"}

Exists(s) == cf[s].st # "NONE"
Goto(s, pc) == job' = [job EXCEPT ![s] = pc]
Call(s, pc, record) == cf' = [cf EXCEPT ![s] = record] /\ Goto(s, pc)
Answer(s, pc) == Goto(s, pc) /\ UNCHANGED cf

-----------------------------------------------------------------------------
(* CloudFormation itself, as the adapter relies on it *)

Begins == {<<"UPDATE_IN_PROGRESS", "UPDATE_COMPLETE_CLEANUP_IN_PROGRESS">>,
           <<"CREATE_IN_PROGRESS", "CREATE_COMPLETE">>,
           <<"UPDATE_COMPLETE_CLEANUP_IN_PROGRESS", "UPDATE_COMPLETE">>,
           <<"UPDATE_ROLLBACK_IN_PROGRESS", "UPDATE_ROLLBACK_COMPLETE">>,
           <<"UPDATE_ROLLBACK_FAILED", "UPDATE_ROLLBACK_COMPLETE">>,  \* an operator helps
           <<"DELETE_FAILED", "DELETE_IN_PROGRESS">>}                 \* and here too
Breaks == {<<"CREATE_IN_PROGRESS", "DELETE_IN_PROGRESS">>,            \* OnFailure: DELETE
           <<"UPDATE_IN_PROGRESS", "UPDATE_ROLLBACK_IN_PROGRESS">>,
           <<"UPDATE_ROLLBACK_IN_PROGRESS", "UPDATE_ROLLBACK_FAILED">>,
           <<"DELETE_IN_PROGRESS", "DELETE_FAILED">>}

\* An operation goes well and the stack has the new template when it does.
StackProgresses(s) ==
    /\ \/ ~cf[s].requested /\ \E to \in Statuses :
              /\ <<cf[s].st, to>> \in Begins
              /\ cf' = [cf EXCEPT ![s].st = to, ![s].tmpl =
                           IF cf[s].st = "UPDATE_IN_PROGRESS" THEN cf[s].goal ELSE @]
       \/ ~cf[s].requested /\ cf[s].st = "DELETE_IN_PROGRESS" /\ cf' = [cf EXCEPT ![s] = NoStack]
       \/ cf[s].requested /\ cf' = [cf EXCEPT ![s].st = "DELETE_IN_PROGRESS", ![s].requested = FALSE]
    /\ UNCHANGED job

\* It fails, or a deletion is refused: resources or exports are in use.
StackBreaks(s) ==
    /\ \/ ~cf[s].requested /\ \E to \in Statuses :
              <<cf[s].st, to>> \in Breaks /\ cf' = [cf EXCEPT ![s].st = to]
       \/ cf[s].requested /\ cf' = [cf EXCEPT ![s].requested = FALSE, ![s].updated = "after"]
    /\ UNCHANGED job

-----------------------------------------------------------------------------
(* applyStack and waitForStack *)

CreateStack(s, t) ==
    /\ job[s] = "create"
    /\ IF Exists(s) THEN Answer(s, "protect")
       ELSE Call(s, "wait", [NoStack EXCEPT !.st = "CREATE_IN_PROGRESS", !.tmpl = t,
                                            !.protected = TRUE])

ProtectStack(s) ==
    /\ job[s] = "protect"
    /\ IF cf[s].st \in {"NONE", "DELETE_IN_PROGRESS"} THEN Answer(s, "failed")
       ELSE Call(s, "update", [cf[s] EXCEPT !.protected = TRUE])

\* isStackUpdateInProgressErr: the call is made again.
UpdateInProgress(s) == cf[s].st \in {"UPDATE_IN_PROGRESS", "UPDATE_COMPLETE_CLEANUP_IN_PROGRESS"}

\* isStackNoUpdateNeededErr: the template has not changed.
NoUpdateNeeded(s, t) == cf[s].st \in Stable /\ cf[s].tmpl = t

UpdateStack(s, t) ==
    /\ job[s] = "update"
    /\ ~UpdateInProgress(s)
    /\ IF cf[s].st \in Stable /\ ~NoUpdateNeeded(s, t)
       THEN Call(s, "wait", [cf[s] EXCEPT !.st = "UPDATE_IN_PROGRESS", !.goal = t,
                                          !.updated = "before"])
       ELSE Answer(s, IF NoUpdateNeeded(s, t) THEN "waitUnchanged" ELSE "failed")

\* A bug: a stack that was rolled back counts as good.
RolledBackIsGood(s) == IF cf[s].st \in Stable THEN "ok" ELSE "failed"

WaitResult(s) == IF cf[s].st \in Complete THEN "ok" ELSE "failed"

WaitForStack(s) ==
    /\ job[s] \in {"wait", "waitUnchanged"}
    /\ cf[s].st \in Stable \cup {"NONE", "DELETE_FAILED", "UPDATE_ROLLBACK_FAILED"}
    /\ Answer(s, WaitResult(s))

-----------------------------------------------------------------------------
(* DeleteStack and waitForStackDeletion *)

\* isStackDeleting, of the status when the stack was listed
DeleteEntry(listed) == IF listed = "DELETE_IN_PROGRESS" THEN "waitForeignDeletion" ELSE "unprotect"

UnprotectStack(s) ==
    /\ job[s] = "unprotect"
    /\ IF ~Exists(s) THEN Answer(s, "ok")
       ELSE IF cf[s].st = "DELETE_IN_PROGRESS" THEN Answer(s, "failed")
       ELSE Call(s, "delete", [cf[s] EXCEPT !.protected = FALSE])

\* CloudFormation refuses to delete a stack while it is updated.
DeleteStack(s) ==
    /\ job[s] = "delete"
    /\ IF ~Exists(s) THEN Answer(s, "ok")
       ELSE IF cf[s].protected \/ cf[s].st \notin Stable \cup
                   {"CREATE_IN_PROGRESS", "UPDATE_ROLLBACK_FAILED", "DELETE_FAILED", "DELETE_IN_PROGRESS"}
       THEN Answer(s, "failed")
       ELSE Call(s, "waitDeletion",
                 [cf[s] EXCEPT !.requested = cf[s].st # "DELETE_IN_PROGRESS",
                               !.updated = IF @ = "after" THEN "before" ELSE @])

\* Whether LastUpdatedTime is after deletionStartedAt, which is zero for a
\* deletion that was not requested here.
UpdatedSince(s) ==
    IF cf[s].updated = "never" THEN {FALSE}
    ELSE IF job[s] = "waitForeignDeletion" THEN {TRUE}
    ELSE IF Skew THEN BOOLEAN ELSE {cf[s].updated = "after"}

\* A bug: a stack that is not being deleted counts as deleted.
StableIsDeleted(s) ==
    /\ job[s] \in {"waitDeletion", "waitForeignDeletion"}
    /\ \/ ~Exists(s) /\ Answer(s, "ok")
       \/ cf[s].st = "DELETE_FAILED" /\ Answer(s, "failed")
       \/ cf[s].st \in Stable /\ TRUE \in UpdatedSince(s) /\ Answer(s, "ok")

WaitForStackDeletion(s) ==
    /\ job[s] \in {"waitDeletion", "waitForeignDeletion"}
    /\ \/ ~Exists(s) /\ Answer(s, "ok")
       \/ cf[s].st = "DELETE_FAILED" /\ Answer(s, "failed")
       \/ cf[s].st \in Stable /\ TRUE \in UpdatedSince(s) /\ Answer(s, "failed")

JobStep(s, t) ==
    \/ CreateStack(s, t) \/ ProtectStack(s) \/ UpdateStack(s, t) \/ WaitForStack(s)
    \/ UnprotectStack(s) \/ DeleteStack(s) \/ WaitForStackDeletion(s)

\* A call fails, the five minutes of retries or the 25 of waiting are over, or
\* the context was cancelled.
JobFails(s) == job[s] \in Applying \cup Deleting /\ Answer(s, "failed")

\* A deletion that was refused and does not look so is given up after 25 minutes.
DeletionTimesOut(s) ==
    /\ job[s] \in {"waitDeletion", "waitForeignDeletion"}
    /\ cf[s].st \in Stable /\ ~cf[s].requested /\ FALSE \in UpdatedSince(s)
    /\ Answer(s, "failed")

=============================================================================
