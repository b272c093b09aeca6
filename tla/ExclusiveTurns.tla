--------------------------- MODULE ExclusiveTurns ---------------------------
(* What the lease promises the stream workers of one subreddit: every attempt
   gets at most one turn at producing, a turn is never resumed once it is over,
   and turns never overlap.  Lease implements this specification.            *)
CONSTANT Token

VARIABLE turn

Init == turn = [t \in Token |-> "waiting"]

Begin(t) ==
    /\ turn[t] = "waiting"
    /\ \A s \in Token : turn[s] # "producing"
    /\ turn' = [turn EXCEPT ![t] = "producing"]

End(t) ==
    /\ turn[t] \in {"waiting", "producing"}
    /\ turn' = [turn EXCEPT ![t] = "over"]

Next == \E t \in Token : Begin(t) \/ End(t)

Spec == Init /\ [][Next]_turn
=============================================================================
