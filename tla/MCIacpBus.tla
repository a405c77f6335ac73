------------------------------ MODULE MCIacpBus ------------------------------
(* The iacp service on a small instance. *)
EXTENDS IacpBus

CONSTANTS s1, task, inbox

MCTopics == {task, inbox}
MCTaskTopics == {task}
MCEntries == (task :> 2) @@ (inbox :> 0)
MCItems == {task} \X (1..2)
MCPublishers == {s1, Rest}
\* The inbox belongs to the agent of s1.
MCMaySubscribe == s1 :> {task, inbox}
MCSockets == {s1}
=============================================================================
