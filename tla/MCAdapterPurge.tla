--------------------------- MODULE MCAdapterPurge ---------------------------
(***************************************************************************)
(* Model-checking definitions for AdapterPurge: the fair specification     *)
(* and its liveness property.                                              *)
(***************************************************************************)
EXTENDS AdapterPurge

\* An administrator runs the command again until the purge has ended, a
\* command that is alive goes on, and an unknown directory is taken away.
\* Nothing obliges anybody to register a purge.
LiveSpec ==
    /\ Spec
    /\ \A c \in Commands : WF_vars(Resume(c)) /\ WF_vars(CommandStep(c))
    /\ \A s \in Surfaces : WF_vars(SiblingRemoved(s))

\* Every purge that was registered ends, however its commands stop, meet
\* and fail: there is no scheduler, the next command takes it up
\* (_register_or_resume).
PurgeSettles ==
    \A n \in Operations :
        operation[n].status \in ActiveOperationStatus
            ~> operation[n].status \in {"completed", "completed_with_blocks"}
=============================================================================
