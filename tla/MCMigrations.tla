---------------------------- MODULE MCMigrations ----------------------------
(* Three releases at once: an old one, a newer one with a file between those of
   the old one, and one that edits a file of the others and adds another.      *)
EXTENDS Migrations

CONSTANTS r1, r2, r3

MCImage == [r \in Runner |->
               CASE r = r1 -> <<<<1, "a">>, <<3, "b">>>>
                 [] r = r2 -> <<<<1, "a">>, <<2, "c">>, <<3, "b">>>>
                 [] r = r3 -> <<<<1, "a">>, <<3, "edited">>, <<4, "d">>>>]
=============================================================================
