---------------------------- MODULE SchemaHistory ----------------------------
(* What the migration runner promises about one database, whoever runs it: the
   schema changes only by upgrades, each of which runs, in one step and in the
   order of their names, all the files of some release that have not been run.
   A release with another content under a name that was run changes nothing, and
   nothing is ever taken back.  Files of a later release may have lower names than
   files that were run before.  Migrations implements this specification.      *)
EXTENDS Naturals, Sequences

CONSTANT Release   \* the releases, each the set of its files <<name, checksum>>

VARIABLE schema    \* the files that were run, in order

Init == schema = <<>>

Done == {schema[n] : n \in 1..Len(schema)}

\* No file of the release was run with another content.
Agrees(release) == \A f \in release, g \in Done : f[1] = g[1] => f = g

\* The places of the schema that the step fills.
New == (Len(schema) + 1)..Len(schema')

Upgrade(release) ==
    /\ Agrees(release)
    /\ Len(schema') >= Len(schema)
    /\ \A n \in 1..Len(schema) : schema'[n] = schema[n]
    /\ {schema'[n] : n \in New} = release \ Done
    /\ \A m, n \in New : m < n => schema'[m][1] < schema'[n][1]

Next == \E release \in Release : Upgrade(release)

Spec == Init /\ [][Next]_schema
=============================================================================
