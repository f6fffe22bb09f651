---------------------------- MODULE ReadersWriter ----------------------------
(***************************************************************************)
(* What the concurrent maps of FeiLib promise to the threads that use one: *)
(* any number of threads may be in read operations, or one in a write      *)
(* operation, and no read operation begins while a writer has a claim,     *)
(* from the moment it announces itself until it has withdrawn.             *)
(***************************************************************************)
CONSTANT Threads

VARIABLE phase   \* what each thread is doing with the map

Phases == {"idle", "reading", "claimed", "writing", "written"}

Init == phase = [t \in Threads |-> "idle"]

Go(t, from, to) ==
  /\ phase[t] = from
  /\ phase' = [phase EXCEPT ![t] = to]

BeginRead(t) ==
  /\ \A u \in Threads : phase[u] \in {"idle", "reading"}
  /\ Go(t, "idle", "reading")

EndRead(t) == Go(t, "reading", "idle")

Claim(t) == Go(t, "idle", "claimed")

BeginWrite(t) ==
  /\ \A u \in Threads : phase[u] \notin {"reading", "writing"}
  /\ Go(t, "claimed", "writing")

EndWrite(t) == Go(t, "writing", "written")

Withdraw(t) == Go(t, "written", "idle")

Next ==
  \E t \in Threads :
    \/ BeginRead(t) \/ EndRead(t)
    \/ Claim(t) \/ BeginWrite(t) \/ EndWrite(t) \/ Withdraw(t)

Spec == Init /\ [][Next]_phase
=============================================================================
