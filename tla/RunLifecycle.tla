---------------------------- MODULE RunLifecycle ----------------------------
(***************************************************************************)
(* What the daemon promises about the triggers it accepts, whatever its    *)
(* queue, workers and database writer do: a trigger runs at most once, its *)
(* outcome is recorded after it ended, and only a crash or a failed write  *)
(* loses it.  A daemon that stops gracefully has settled all of them.      *)
(***************************************************************************)
CONSTANT Ids       \* identities of triggers

VARIABLES stage,   \* how far each trigger has come
          serving  \* whether a daemon process is up

Stages == {"new", "queued", "running", "ended", "recorded", "lost"}

Open == {i \in Ids : stage[i] \in {"queued", "running", "ended"}}

Init == stage = [i \in Ids |-> "new"] /\ serving = FALSE

Move(i, from, to) ==
  stage[i] = from /\ stage' = [stage EXCEPT ![i] = to] /\ UNCHANGED serving

Boot == ~serving /\ serving' = TRUE /\ UNCHANGED stage

Halt == serving /\ Open = {} /\ serving' = FALSE /\ UNCHANGED stage

Die ==
  /\ serving
  /\ serving' = FALSE
  /\ stage' = [i \in Ids |-> IF i \in Open THEN "lost" ELSE stage[i]]

Next ==
  \/ Boot \/ Halt \/ Die
  \/ \E i \in Ids : /\ serving
                    /\ \/ Move(i, "new", "queued")
                       \/ Move(i, "queued", "running")
                       \/ Move(i, "running", "ended")
                       \/ Move(i, "ended", "recorded")
                       \/ Move(i, "ended", "lost")

Spec == Init /\ [][Next]_<<stage, serving>>
=============================================================================
