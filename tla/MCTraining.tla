----------------------------- MODULE MCTraining -----------------------------
(***************************************************************************)
(* Model-checking definitions for training: the executions with the fence  *)
(* of a purge (TrainingExecution), and the purge in detail                 *)
(* (TrainingPurge).  The two have the fence in common and nothing else, so *)
(* a behaviour is one of the one or of the other.                          *)
(***************************************************************************)
EXTENDS MCTrainingExecution, TrainingPurge

VARIABLE world

trainingVars == <<world, vars, trainingPurgeVars>>

Executions == world = "executions"
Purges == world = "purges"

TrainingInit == world \in {"executions", "purges"} /\ Init /\ PurgeInit

Step(executions, purges) ==
    \/ Executions /\ executions /\ UNCHANGED <<world, trainingPurgeVars>>
    \/ Purges /\ purges /\ UNCHANGED <<world, vars>>

TrainingSpec == TrainingInit /\ [][Step(Next, PurgeNext)]_trainingVars

\* Sound for safety: jobs and commands are interchangeable too.
TrainingSymmetry ==
    Symmetry \union Permutations(RetainedJobs) \union Permutations(PurgeCommands)

(***************************************************************************)
(* Liveness.  Executions settle only where nothing outside the queue is    *)
(* against it: the requester and the department stay (otherwise see        *)
(* ClaimRowsAreLegal), a living owner renews its lease in time (the lease  *)
(* is 300 seconds, the runtime's heartbeat renews it), and an execution    *)
(* loses its worker finitely often.  The last one is also what makes       *)
(* MaxAttempts harmless: no worker is lost at the last attempt number, so  *)
(* no claim ever waits for a number beyond the bound.                      *)
(***************************************************************************)

\* The execution of w can still be reclaimed within the bound.
Spare(w) == wk[w].phase \in WorkingPhase => execs[wk[w].exec].number < MaxAttempts

\* No living owner loses its lease to the clock.
LeasesRenewed == \A w \in Workers : Owns(w) => execs'[wk[w].exec].lease > 0

\* A shutdown leaves the execution to a reclaim, like a crash.
ShutsDown(w) == wk[w].result # "shutdown" /\ wk'[w].result = "shutdown"

ExecutionsLive ==
    \/ /\ JobNext(ActiveJobs)
       /\ department' = department /\ admins' = admins
       /\ UNCHANGED execVars
    \/ Api
    \/ \E w \in Workers :
         \/ SelectCandidate(w) \/ ClaimSkips(w) \/ Claim(w)
         \/ Process(w) /\ (ShutsDown(w) => Spare(w))
         \/ RenewExecutionLease(w)
         \/ WorkerCrash(w) /\ Spare(w)
         \/ WorkerRestart(w)
    \/ Tick /\ LeasesRenewed

\* Bound: commands cross on an operation with one open job only; the safety
\* run has them crossing on any.
CrossOnOneJob ==
    \/ \A c, d \in PurgeCommands :
          command'[c].step # "idle" /\ command'[d].step # "idle" => c = d
    \/ \A i, j \in RetainedJobs :
          {reservation'[i], reservation'[j]} \subseteq ActiveReservation => i = j

\* Workers poll (--poll), go on with what they do and are restarted; a job row
\* is never locked at every poll of a worker; leases lapse in time.  Whoever
\* runs the retention of a department runs it again while an operation is
\* registered, and a command that has not died goes on.
TrainingFairness ==
    /\ \A w \in Workers :
         /\ WF_vars(Executions /\ SelectCandidate(w))
         /\ SF_vars(Executions /\ Claim(w))
         /\ WF_vars(Executions /\ Process(w))
         /\ WF_vars(Executions /\ WorkerRestart(w))
    /\ WF_vars(Executions /\ Tick /\ LeasesRenewed)
    /\ \A c \in PurgeCommands :
         /\ WF_trainingPurgeVars(Purges /\ ResumeTrainingPurge(c) /\ CrossOnOneJob)
         /\ WF_trainingPurgeVars(Purges /\ CommandStep(c))

TrainingLive ==
    /\ TrainingInit
    /\ [][Step(ExecutionsLive, PurgeNext /\ CrossOnOneJob)]_trainingVars
    /\ TrainingFairness

\* Every queued or running execution comes to an end, whichever worker was
\* lost with it: a lapsed claim is reclaimed, a requested cancellation done.
ActiveSettles == \A e \in Execs : Active(e) ~> ~Active(e)

\* Every job of a purge is purged or given up, whichever commands died or
\* crossed on it, and whatever happened to the other jobs, unless somebody
\* else has touched its bundle.
ReservedSettles ==
    \A j \in RetainedJobs :
       reservation[j] \in ActiveReservation ~>
          (reservation[j] \notin ActiveReservation \/ j \in touched)

\* What the system owes in the end: no execution is left queued or running,
\* and no reservation keeps its operation, and with it the department's next
\* purge, waiting (training_execution_queue.claim_next_execution,
\* training_job_maintenance._register_candidates).
TrainingSettles == ActiveSettles /\ ReservedSettles
=============================================================================
