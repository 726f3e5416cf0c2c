---------------------------- MODULE RunLifecycle ----------------------------
(***************************************************************************)
(* What a run's status promises to everyone who reads it: the state        *)
(* machine of RunStatus, with a terminal status that is final.  A row can  *)
(* disappear in any status, when its suite is deleted.                     *)
(***************************************************************************)
CONSTANT Runs
VARIABLE life

NoRow == "none"

After(s) ==
    CASE s = NoRow     -> {"queued"}
      [] s = "queued"  -> {"running", "error", "cancelled", NoRow}
      [] s = "running" -> {"passed", "failed", "error", "cancelled", NoRow}
      [] OTHER         -> {NoRow}

Init == life \in [Runs -> {NoRow, "queued"}]

\* Each run moves along the machine or stays; a deletion moves several at once.
Next == \A r \in Runs : life'[r] = life[r] \/ life'[r] \in After(life[r])

Spec == Init /\ [][Next]_life
=============================================================================
