---------------------------- MODULE SessionStore ----------------------------
(***************************************************************************)
(* What a session handler promises, with neither table nor map, threads,   *)
(* clock or crashes: a session is made at most once and ends for good.     *)
(* Whoever is told that it was created is told so while it lives, and      *)
(* whoever is told that it was destroyed is told so as it ends.            *)
(***************************************************************************)
CONSTANT Sessions

VARIABLES state,     \* of each session: "unmade", "live" or "past"
          told       \* what the callers know of it: "nothing", "created" or "destroyed"

vars == <<state, told>>

Init == /\ state = [s \in Sessions |-> "unmade"]
        /\ told = [s \in Sessions |-> "nothing"]

Make(s) == /\ state[s] = "unmade"
           /\ state' = [state EXCEPT ![s] = "live"]
           /\ UNCHANGED told

Created(s) == /\ state[s] = "live" /\ told[s] = "nothing"
              /\ told' = [told EXCEPT ![s] = "created"]
              /\ UNCHANGED state

\* Their time is over, they were lost, or were never made and never will be.
End(ending) == /\ state' = [s \in Sessions |-> IF s \in ending THEN "past" ELSE state[s]]
               /\ UNCHANGED told

Destroyed(s) == /\ state[s] = "live" /\ told[s] = "created"
                /\ state' = [state EXCEPT ![s] = "past"]
                /\ told' = [told EXCEPT ![s] = "destroyed"]

Next == \/ \E s \in Sessions : Make(s) \/ Created(s) \/ Destroyed(s)
        \/ \E ending \in SUBSET Sessions : End(ending)

Spec == Init /\ [][Next]_vars
=============================================================================
