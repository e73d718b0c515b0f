------------------------------- MODULE JobBoard -------------------------------
(***************************************************************************)
(* What the status of a data job promises to somebody who polls             *)
(* /jobs/{id}: it goes from pending to running to succeeded or failed, it   *)
(* may be failed without having run, and what is succeeded or failed stays  *)
(* so.  A row swept as stale is the exception: its worker may still be at   *)
(* it, and then has the last word.                                         *)
(***************************************************************************)
CONSTANT Jobs
VARIABLE board   \* per job, "none", "pending", "running", "stale", "failed" or "succeeded"

BoardInit == board = [j \in Jobs |-> "none"]

\* A new job; the rows of old ones may be swept on that occasion.
Submit(j) ==
  /\ board[j] = "none"
  /\ \E S \in SUBSET {k \in Jobs : board[k] \in {"pending", "running"}} :
       board' = [k \in Jobs |-> IF k = j THEN "pending" ELSE IF k \in S THEN "stale" ELSE board[k]]

\* Its worker starts, or somebody gives up on it; its worker ends.
Work(j) == board[j] \in {"pending", "stale"} /\ board' = [board EXCEPT ![j] = "running"]
End(j) == /\ board[j] \in {"running", "stale"}
          /\ \E s \in {"failed", "succeeded"} : board' = [board EXCEPT ![j] = s]
GiveUpOn(j) == board[j] \in {"pending", "stale"} /\ board' = [board EXCEPT ![j] = "failed"]

BoardNext == \E j \in Jobs : Submit(j) \/ Work(j) \/ End(j) \/ GiveUpOn(j)
BoardSpec == BoardInit /\ [][BoardNext]_board
=============================================================================
