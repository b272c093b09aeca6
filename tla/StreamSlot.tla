----------------------------- MODULE StreamSlot -----------------------------
(* What the registry promises about one subreddit: the entry that its Redis keys
   spell out together is a single slot.  One creator at a time claims it and
   opens it; a stream that may be at work never loses its entry; only a dead
   entry is retired, and only an entry nobody has touched yet is taken back.  A
   late word of an earlier run may kill an entry that has just been opened.    *)

VARIABLE slot

Init == slot \in {"free", "running"}

Move(from, to) == slot = from /\ slot' = to

Claim  == Move("free", "claimed")
Open   == Move("claimed", "starting")
Run    == Move("starting", "running") \/ Move("dead", "running")
Die    == Move("running", "dead") \/ Move("starting", "dead")
Retire == Move("dead", "free")
Undo   == Move("starting", "free")

Next == Claim \/ Open \/ Run \/ Die \/ Retire \/ Undo

Spec == Init /\ [][Next]_slot
=============================================================================
