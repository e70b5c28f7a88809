----------------------------- MODULE SerialLock -----------------------------
(* What withTrajectoryLock promises its callers: calls with the same key run  *)
(* one at a time and in the order they came; a call that waits may be         *)
(* rejected instead, and then it never runs.                                  *)
CONSTANTS Calls,
          KeyOf    \* the key of each call

VARIABLES status,   \* what has become of each call
          ahead     \* the calls with its key that came before it

vars == <<status, ahead>>

Init == /\ status = [c \in Calls |-> "idle"]
        /\ ahead = [c \in Calls |-> {}]

Came(k) == {d \in Calls : KeyOf[d] = k /\ status[d] # "idle"}

Request(c) == /\ status[c] = "idle"
              /\ status' = [status EXCEPT ![c] = "waiting"]
              /\ ahead' = [ahead EXCEPT ![c] = Came(KeyOf[c])]

Move(c, from, to) == /\ status[c] = from
                     /\ status' = [status EXCEPT ![c] = to]
                     /\ UNCHANGED ahead

Grant(c) == /\ \A d \in ahead[c] : status[d] \in {"done", "rejected"}
            /\ Move(c, "waiting", "holding")

Reject(c) == Move(c, "waiting", "rejected")

Release(c) == Move(c, "holding", "done")

Next == \E c \in Calls : Request(c) \/ Grant(c) \/ Reject(c) \/ Release(c)

Spec == Init /\ [][Next]_vars
=============================================================================
