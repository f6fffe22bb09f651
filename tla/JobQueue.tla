------------------------------ MODULE JobQueue ------------------------------
(***************************************************************************)
(* What a pool of threads promises: jobs are begun in the order in which    *)
(* they were submitted, each once, and each that is begun comes to its end  *)
(* - unless the process dies, which takes the jobs that have not.           *)
(***************************************************************************)
EXTENDS Sequences

CONSTANT Jobs

VARIABLES queued, running, ended

jobVars == <<queued, running, ended>>

InQueue == {queued[i] : i \in DOMAIN queued}

Init == queued = <<>> /\ running = {} /\ ended = {}

Submit(j) ==
  /\ j \notin InQueue \cup running \cup ended
  /\ queued' = Append(queued, j)
  /\ UNCHANGED <<running, ended>>

Begin ==
  /\ queued # <<>>
  /\ running' = running \cup {Head(queued)}
  /\ queued' = Tail(queued)
  /\ UNCHANGED ended

End(j) ==
  /\ j \in running
  /\ running' = running \ {j}
  /\ ended' = ended \cup {j}
  /\ UNCHANGED queued

Lose == queued' = <<>> /\ running' = {} /\ UNCHANGED ended

Next == (\E j \in Jobs : Submit(j) \/ End(j)) \/ Begin \/ Lose

Spec == Init /\ [][Next]_jobVars
=============================================================================
