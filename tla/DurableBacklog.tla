--------------------------- MODULE DurableBacklog ---------------------------
(* What the job queue promises to whoever queues work and walks away        *)
(* (crash_recovery.mdx 1): an accepted task stays accepted, over any number *)
(* of process deaths, until it is ended; it is ended once; and it is never  *)
(* tried more than MaxAttempts times.  Nothing here mentions a process.     *)
EXTENDS Naturals

CONSTANTS Task, MaxAttempts

VARIABLES accepted, ended, tries

backlogVars == <<accepted, ended, tries>>

BacklogInit == accepted = {} /\ ended = {} /\ tries = [t \in Task |-> 0]

Accept(tasks) ==
    /\ tasks \cap accepted = {}
    /\ accepted' = accepted \cup tasks
    /\ UNCHANGED <<ended, tries>>

Try(t) ==
    /\ t \in accepted \ ended
    /\ tries[t] < MaxAttempts
    /\ tries' = [tries EXCEPT ![t] = @ + 1]
    /\ UNCHANGED <<accepted, ended>>

End(t) ==
    /\ t \in accepted \ ended
    /\ ended' = ended \cup {t}
    /\ UNCHANGED <<accepted, tries>>

BacklogNext ==
    \/ \E tasks \in SUBSET Task : Accept(tasks)
    \/ \E t \in Task : Try(t) \/ End(t)

BacklogSpec == BacklogInit /\ [][BacklogNext]_backlogVars
=============================================================================
