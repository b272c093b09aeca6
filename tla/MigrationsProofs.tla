-------------------------- MODULE MigrationsProofs --------------------------
(* Proofs about Migrations for any number of runners, whatever their releases
   hold, wherever they fail, are killed or try again.                          *)
EXTENDS Migrations, SequenceTheorems, TLAPS

-----------------------------------------------------------------------------
(* The inductive invariant. *)

\* A runner is between its read of schema_migrations and its commit.
Reading(r) == pc[r] \in {"files", "record"}

\* A script that was run is one of the release.
RecordsAFile == \A r \in Runner : pc[r] = "record" => at[r] <= Len(Image[r])

\* A runner sleeps only before its deadline.
SleepsInTime == \A r \in Runner : pc[r] = "sleep" => elapsed[r] < MaxWait

TypeInv == TypeOK /\ RecordsAFile /\ SleepsInTime

\* The advisory lock is held from before the read until the transaction ends.
LockIsHeld == \A r \in Runner : Reading(r) \/ pc[r] = "read" => lock = r

\* Whatever an earlier attempt did is gone when the next one begins.
StartsAfresh ==
    \A r \in Runner : ~Reading(r) => at[r] = 1 /\ ran[r] = <<>> /\ rows[r] = {}

\* The files of the release of r that it has dealt with: those before this one,
\* and this one once it was run.
Reached(r) == IF pc[r] = "record" THEN at[r] ELSE at[r] - 1

Passed(r) == {Image[r][v] : v \in 1..Reached(r)}

\* None of them was recorded with another checksum, and the transaction has run,
\* in the order of their names, the ones that were not recorded.
ContinuesSchema(r) ==
    /\ at[r] <= Len(Image[r]) + 1
    /\ \A f \in Passed(r), g \in recorded : f[1] = g[1] => f = g
    /\ Scripts(ran[r]) = Passed(r) \ recorded
    /\ \A m, n \in 1..Len(ran[r]) : m < n => ran[r][m][1] < ran[r][n][1]
    /\ pc[r] = "record" => FileOf(r) \notin recorded
    /\ rows[r] = {f \in Scripts(ran[r]) : pc[r] = "record" => f # FileOf(r)}

TransactionsContinue == \A r \in Runner : Reading(r) => ContinuesSchema(r)

MigrationsInv ==
    /\ TypeInv /\ LockIsHeld /\ StartsAfresh /\ AppliedIsCurrent
    /\ RecordedWithSchema /\ TransactionsContinue /\ WholeReleases

-----------------------------------------------------------------------------
(* Types. *)

\* A file of a release is a file, and the files are sorted by name.
LEMMA FilesAreTyped ==
  ASSUME NEW r \in Runner, NEW v \in Nat \ {0}, v <= Len(Image[r])
  PROVE  /\ v \in 1..Len(Image[r]) /\ Image[r][v] \in File
         /\ \A w \in 1..(v - 1) : Image[r][w] \in File /\ Image[r][w][1] < Image[r][v][1]
<1>1. Image[r] \in Seq(File)
  BY MigrationsAssumption DEF File
<1>2. v \in 1..Len(Image[r]) /\ Len(Image[r]) \in Nat
  BY <1>1, LenProperties
<1>3. \A w \in 1..(v - 1) : w \in 1..Len(Image[r]) /\ w < v
  BY <1>2
<1> QED
  BY <1>1, <1>2, <1>3, ElementOfSeq, MigrationsAssumption

\* The end of a transaction keeps the types.
LEMMA EndIsTyped ==
  ASSUME TypeOK, NEW r \in Runner, EndTransaction(r)
  PROVE  /\ lock' \in Runner \cup {None}
         /\ applied' \in [Runner -> SUBSET File] /\ at' \in [Runner -> Nat \ {0}]
         /\ ran' \in [Runner -> Seq(File)] /\ rows' \in [Runner -> SUBSET File]
<1>1. <<>> \in Seq(File)
  BY EmptySeq
<1> QED
  BY <1>1 DEF TypeOK, EndTransaction, Forget

\* The types, with what they rest on.
LEMMA MigrationTypes == TypeInv /\ [Next]_vars => TypeInv'
<1> SUFFICES ASSUME TypeInv, [Next]_vars PROVE TypeInv'
  OBVIOUS
<1> USE MigrationsAssumption DEF TypeInv, RecordsAFile, SleepsInTime, committed, transaction,
                                 Goto, Attempting, Ended
<1>1. ASSUME NEW r \in Runner, Lock(r) PROVE TypeInv'
  BY <1>1 DEF TypeOK, Lock
<1>2. ASSUME NEW r \in Runner, ReadApplied(r) PROVE TypeInv'
  BY <1>2 DEF TypeOK, ReadApplied
<1>3. ASSUME NEW r \in Runner, Skip(r) PROVE TypeInv'
  BY <1>3 DEF TypeOK, Skip, AtFile
<1>4. ASSUME NEW r \in Runner, EndTransaction(r), UNCHANGED <<committed, elapsed>>,
             \E l \in Ended : Goto(r, l)
      PROVE  TypeInv'
  BY <1>4, EndIsTyped DEF TypeOK, EndTransaction, Forget
<1>5. ASSUME NEW r \in Runner, Execute(r) PROVE TypeInv'
  <2>1. at[r] \in Nat \ {0} /\ at[r] <= Len(Image[r]) /\ ran[r] \in Seq(File)
    BY <1>5 DEF TypeOK, Execute, AtFile
  <2>2. FileOf(r) \in File
    BY <2>1, FilesAreTyped DEF FileOf
  <2>3. Append(ran[r], FileOf(r)) \in Seq(File)
    BY <2>1, <2>2, AppendProperties
  <2> QED
    BY <1>5, <2>1, <2>3 DEF TypeOK, Execute
<1>6. ASSUME NEW r \in Runner, Record(r) PROVE TypeInv'
  <2>1. FileOf(r) \in File
    BY <1>6, FilesAreTyped DEF TypeOK, Record, FileOf
  <2> QED
    BY <1>6, <2>1 DEF TypeOK, Record
<1>7. ASSUME NEW r \in Runner, Commit(r) PROVE TypeInv'
  <2>1. schema' \in Seq(File)
    BY <1>7, ConcatProperties DEF TypeOK, Commit
  <2>2. recorded' \subseteq File
    BY <1>7 DEF TypeOK, Commit
  <2> QED
    BY <1>7, <2>1, <2>2, EndIsTyped DEF TypeOK, Commit, EndTransaction, Forget
<1>8. ASSUME NEW r \in Runner, Return(r) PROVE TypeInv'
  BY <1>8 DEF TypeOK, Return
<1>9. ASSUME NEW r \in Runner, Sleep(r) PROVE TypeInv'
  BY <1>9 DEF TypeOK, Sleep
<1>10. ASSUME NEW r \in Runner, Fault(r) PROVE TypeInv'
  <2>1. PICK now \in elapsed[r]..MaxWait :
            /\ elapsed' = [elapsed EXCEPT ![r] = now]
            /\ Goto(r, IF now < MaxWait THEN "sleep" ELSE "failed")
    BY <1>10 DEF Fault
  <2>2. now \in 0..MaxWait
    BY DEF TypeOK
  <2> QED
    BY <1>10, <2>1, <2>2, EndIsTyped DEF TypeOK, Fault, EndTransaction, Forget
<1>11. CASE UNCHANGED vars
  BY <1>11 DEF TypeOK, vars
<1> QED
  BY <1>1, <1>2, <1>3, <1>4, <1>5, <1>6, <1>7, <1>8, <1>9, <1>10, <1>11
  DEF Next, Step, Refuse, ScriptFault, Crash

-----------------------------------------------------------------------------
(* The steps. *)

\* Only the holder of the lock is between its read and its commit.
LEMMA OneReader ==
  ASSUME LockIsHeld, NEW r \in Runner, NEW q \in Runner, lock = r,
         Reading(q) \/ pc[q] = "read"
  PROVE  q = r
BY DEF LockIsHeld

\* A runner that is left alone continues the same schema as before.
LEMMA OthersContinue ==
  ASSUME NEW q \in Runner, ContinuesSchema(q),
         UNCHANGED <<recorded, pc[q], at[q], ran[q], rows[q]>>
  PROVE  ContinuesSchema(q)'
<1>1. Passed(q)' = Passed(q) /\ FileOf(q)' = FileOf(q)
  BY DEF Passed, Reached, FileOf
<1> QED
  BY <1>1 DEF ContinuesSchema, Scripts

\* A step that ends the transaction of r and commits nothing.
LEMMA AbortKeepsInv ==
  ASSUME MigrationsInv, TypeInv', NEW r \in Runner, NEW l, EndTransaction(r), Goto(r, l),
         l \in {"sleep", "failed", "crashed"}, UNCHANGED committed
  PROVE  MigrationsInv'
<1> USE DEF MigrationsInv
<1>1. pc' = [pc EXCEPT ![r] = l] /\ pc \in [Runner -> Attempting \cup {"sleep"} \cup Ended]
  BY DEF Goto, TypeInv, TypeOK
<1>2. ~Reading(r)' /\ pc'[r] # "read"
  BY <1>1 DEF Reading
<1>3. \A q \in Runner : q # r => UNCHANGED <<pc[q], applied[q], at[q], ran[q], rows[q]>>
  BY <1>1 DEF EndTransaction, Forget, TypeInv, TypeOK
<1>4. UNCHANGED <<schema, recorded>>
  BY DEF committed
<1>5. LockIsHeld'
  BY <1>2, <1>3 DEF LockIsHeld, Reading, EndTransaction
<1>6. StartsAfresh'
  BY <1>2, <1>3 DEF StartsAfresh, Reading, EndTransaction, Forget, TypeInv, TypeOK
<1>7. AppliedIsCurrent'
  BY <1>2, <1>3, <1>4 DEF AppliedIsCurrent, Reading
<1>8. TransactionsContinue'
  BY <1>2, <1>3, <1>4, OthersContinue DEF TransactionsContinue, Reading
<1> QED
  BY <1>4, <1>5, <1>6, <1>7, <1>8 DEF RecordedWithSchema, WholeReleases

\* A step of the holder of the lock that commits nothing and goes on.
LEMMA HolderKeepsInv ==
  ASSUME MigrationsInv, TypeInv', NEW r \in Runner, lock = r, UNCHANGED <<committed, lock>>,
         \A q \in Runner : q # r => UNCHANGED <<pc[q], applied[q], at[q], ran[q], rows[q]>>,
         Reading(r)', applied'[r] = recorded, ContinuesSchema(r)'
  PROVE  MigrationsInv'
<1> USE DEF MigrationsInv
<1>1. UNCHANGED <<schema, recorded, lock>>
  BY DEF committed
<1>2. LockIsHeld'
  BY <1>1 DEF LockIsHeld, Reading
<1>3. StartsAfresh'
  BY DEF StartsAfresh, Reading
<1>4. AppliedIsCurrent'
  BY <1>1 DEF AppliedIsCurrent, Reading
<1>5. TransactionsContinue'
  BY <1>1, OthersContinue DEF TransactionsContinue, Reading
<1> QED
  BY <1>1, <1>2, <1>3, <1>4, <1>5 DEF RecordedWithSchema, WholeReleases

\* Reading schema_migrations begins a transaction that continues the schema with
\* nothing yet.
LEMMA ReadKeepsInv ==
  ASSUME MigrationsInv, TypeInv', NEW r \in Runner, ReadApplied(r)
  PROVE  MigrationsInv'
<1> USE DEF MigrationsInv
<1>1. lock = r /\ at[r] = 1 /\ ran[r] = <<>> /\ rows[r] = {}
  BY DEF ReadApplied, LockIsHeld, StartsAfresh, Reading
<1>2. pc'[r] = "files" /\ applied'[r] = recorded
  BY DEF ReadApplied, Goto, TypeInv, TypeOK
<1>3. Len(Image[r]) \in Nat /\ Len(<<>>) = 0
  BY LenProperties, MigrationsAssumption
<1>4. ContinuesSchema(r)'
  <2>1. at'[r] = 1 /\ ran'[r] = <<>> /\ rows'[r] = {}
    BY <1>1 DEF ReadApplied
  <2>2. Reached(r)' = 0
    BY <1>2, <2>1 DEF Reached
  <2>3. Passed(r)' = {} /\ Scripts(ran'[r]) = {}
    BY <1>3, <2>1, <2>2 DEF Passed, Scripts
  <2> QED
    BY <1>2, <1>3, <2>1, <2>3 DEF ContinuesSchema
<1>5. \A q \in Runner : q # r => UNCHANGED <<pc[q], applied[q], at[q], ran[q], rows[q]>>
  BY DEF ReadApplied, Goto, TypeInv, TypeOK
<1> QED
  BY <1>1, <1>2, <1>4, <1>5, HolderKeepsInv DEF ReadApplied, Reading

\* Two recorded files have different names.
LEMMA RecordedNamesDiffer ==
  ASSUME RecordedWithSchema, NEW f \in recorded, NEW g \in recorded, f[1] = g[1]
  PROVE  f = g
<1>1. PICK m \in 1..Len(schema) : f = schema[m]
  BY DEF RecordedWithSchema, Scripts
<1>2. PICK n \in 1..Len(schema) : g = schema[n]
  BY DEF RecordedWithSchema, Scripts
<1> QED
  BY <1>1, <1>2 DEF RecordedWithSchema

\* What holds when a runner looks at a file or has just run it.
LEMMA AtAFile ==
  ASSUME MigrationsInv, NEW r \in Runner, Reading(r), at[r] <= Len(Image[r])
  PROVE  /\ lock = r /\ ContinuesSchema(r) /\ applied[r] = recorded
         /\ Len(Image[r]) \in Nat /\ at[r] \in 1..Len(Image[r])
         /\ FileOf(r) = Image[r][at[r]] /\ FileOf(r) \in File
         /\ \A v \in 1..(at[r] - 1) : Image[r][v][1] < FileOf(r)[1]
         /\ ran[r] \in Seq(File) /\ Len(ran[r]) \in Nat
<1> USE DEF MigrationsInv
<1>1. lock = r /\ ContinuesSchema(r) /\ applied[r] = recorded
  BY DEF LockIsHeld, Reading, TransactionsContinue, AppliedIsCurrent
<1>2. ran[r] \in Seq(File) /\ at[r] \in Nat \ {0}
  BY DEF TypeInv, TypeOK
<1>3. Len(ran[r]) \in Nat /\ Len(Image[r]) \in Nat
  BY <1>2, LenProperties, MigrationsAssumption
<1> QED
  BY <1>1, <1>2, <1>3, FilesAreTyped DEF FileOf

\* Dealing with one more file.
LEMMA PassedGrows ==
  ASSUME NEW r \in Runner, NEW n \in Nat \ {0}
  PROVE  {Image[r][v] : v \in 1..n} = {Image[r][v] : v \in 1..(n - 1)} \cup {Image[r][n]}
<1>1. 1..n = 1..(n - 1) \cup {n}
  OBVIOUS
<1> QED
  BY <1>1

\* A file that is skipped is the recorded one of its name.
LEMMA SkipKeepsInv ==
  ASSUME MigrationsInv, TypeInv', NEW r \in Runner, Skip(r)
  PROVE  MigrationsInv'
<1>1. Reading(r) /\ pc[r] = "files" /\ at[r] <= Len(Image[r])
  BY DEF Skip, AtFile, Reading
<1>2. /\ lock = r /\ ContinuesSchema(r) /\ applied[r] = recorded
      /\ Len(Image[r]) \in Nat /\ at[r] \in 1..Len(Image[r])
  BY <1>1, AtAFile
<1>3. FileOf(r) \in recorded /\ FileOf(r) = Image[r][at[r]]
  BY <1>1, <1>2, AtAFile DEF Skip
<1>4. at'[r] = at[r] + 1 /\ pc'[r] = "files" /\ UNCHANGED <<recorded, ran, rows>>
  BY <1>1 DEF Skip, committed, MigrationsInv, TypeInv, TypeOK
<1>5. ContinuesSchema(r)'
  <2>1. Passed(r)' = Passed(r) \cup {FileOf(r)}
    BY <1>1, <1>2, <1>3, <1>4, PassedGrows DEF Passed, Reached
  <2>2. \A f \in Passed(r)', g \in recorded : f[1] = g[1] => f = g
    BY <1>2, <1>3, <2>1, RecordedNamesDiffer DEF ContinuesSchema, MigrationsInv
  <2>3. Scripts(ran[r]) = Passed(r)' \ recorded
    BY <1>2, <1>3, <2>1 DEF ContinuesSchema
  <2>4. rows[r] = Scripts(ran[r])
    BY <1>1, <1>2 DEF ContinuesSchema
  <2>5. at'[r] <= Len(Image[r]) + 1
    BY <1>2, <1>4
  <2> QED
    BY <1>2, <1>4, <2>2, <2>3, <2>4, <2>5 DEF ContinuesSchema, Scripts
<1>6. \A q \in Runner : q # r => UNCHANGED <<pc[q], applied[q], at[q], ran[q], rows[q]>>
  BY DEF Skip, MigrationsInv, TypeInv, TypeOK
<1> QED
  BY <1>1, <1>2, <1>5, <1>6, HolderKeepsInv DEF Skip, Reading

\* A script that is run has a name that is not recorded, and a higher one than those
\* that were run before it.
LEMMA ExecuteKeepsInv ==
  ASSUME MigrationsInv, TypeInv', NEW r \in Runner, Execute(r)
  PROVE  MigrationsInv'
<1>1. Reading(r) /\ pc[r] = "files" /\ at[r] <= Len(Image[r])
  BY DEF Execute, AtFile, Reading
<1>2. /\ lock = r /\ ContinuesSchema(r) /\ applied[r] = recorded
      /\ Len(Image[r]) \in Nat /\ at[r] \in 1..Len(Image[r])
      /\ FileOf(r) = Image[r][at[r]] /\ FileOf(r) \in File
      /\ \A v \in 1..(at[r] - 1) : Image[r][v][1] < FileOf(r)[1]
      /\ ran[r] \in Seq(File) /\ Len(ran[r]) \in Nat
  BY <1>1, AtAFile
<1>3. \A g \in recorded : g[1] # FileOf(r)[1]
  BY <1>2 DEF Execute, IsApplied
<1>4. /\ at'[r] = at[r] /\ pc'[r] = "record" /\ UNCHANGED <<recorded, rows>>
      /\ ran'[r] = Append(ran[r], FileOf(r))
  BY DEF Execute, Goto, committed, MigrationsInv, TypeInv, TypeOK
<1>5. /\ Len(ran'[r]) = Len(ran[r]) + 1
      /\ \A k \in 1..Len(ran[r]) : ran'[r][k] = ran[r][k]
      /\ ran'[r][Len(ran[r]) + 1] = FileOf(r)
  BY <1>2, <1>4, AppendProperties
<1>6. Scripts(ran'[r]) = Scripts(ran[r]) \cup {FileOf(r)}
  <2>1. 1..Len(ran'[r]) = 1..Len(ran[r]) \cup {Len(ran[r]) + 1}
    BY <1>2, <1>5
  <2> QED
    BY <1>5, <2>1 DEF Scripts
<1>7. \A k \in 1..Len(ran[r]) : ran[r][k][1] < FileOf(r)[1] /\ ran[r][k] # FileOf(r)
  <2> TAKE k \in 1..Len(ran[r])
  <2>1. ran[r][k] \in Passed(r)
    BY <1>2 DEF ContinuesSchema, Scripts
  <2>2. PICK v \in 1..(at[r] - 1) : ran[r][k] = Image[r][v]
    BY <1>1, <2>1 DEF Passed, Reached
  <2>3. Image[r][v] \in File
    BY <1>2, FilesAreTyped
  <2> QED
    BY <1>2, <2>2, <2>3 DEF File
<1>8. ContinuesSchema(r)'
  <2>1. Passed(r)' = Passed(r) \cup {FileOf(r)} /\ FileOf(r)' = FileOf(r)
    BY <1>1, <1>2, <1>4, PassedGrows DEF Passed, Reached, FileOf
  <2>2. \A f \in Passed(r)', g \in recorded : f[1] = g[1] => f = g
    BY <1>2, <1>3, <2>1 DEF ContinuesSchema
  <2>3. Scripts(ran'[r]) = Passed(r)' \ recorded
    BY <1>2, <1>3, <1>6, <2>1 DEF ContinuesSchema
  <2>4. \A m, n \in 1..Len(ran'[r]) : m < n => ran'[r][m][1] < ran'[r][n][1]
    <3> SUFFICES ASSUME NEW m \in 1..Len(ran'[r]), NEW n \in 1..Len(ran'[r]), m < n
                 PROVE  ran'[r][m][1] < ran'[r][n][1]
      OBVIOUS
    <3>1. m \in 1..Len(ran[r]) /\ ran'[r][m] = ran[r][m]
      BY <1>2, <1>5
    <3>2. CASE n \in 1..Len(ran[r])
      BY <1>2, <1>5, <3>1, <3>2 DEF ContinuesSchema
    <3>3. CASE n = Len(ran[r]) + 1
      BY <1>5, <1>7, <3>1, <3>3
    <3> QED
      BY <1>2, <1>5, <3>2, <3>3
  <2>5. rows[r] = {f \in Scripts(ran'[r]) : f # FileOf(r)}
    <3>1. rows[r] = Scripts(ran[r])
      BY <1>1, <1>2 DEF ContinuesSchema
    <3>2. FileOf(r) \notin Scripts(ran[r])
      BY <1>7 DEF Scripts
    <3> QED
      BY <1>6, <3>1, <3>2
  <2>6. FileOf(r) \notin recorded /\ at'[r] <= Len(Image[r]) + 1
    BY <1>2, <1>3, <1>4
  <2> QED
    BY <1>4, <2>1, <2>2, <2>3, <2>4, <2>5, <2>6 DEF ContinuesSchema
<1>9. \A q \in Runner : q # r => UNCHANGED <<pc[q], applied[q], at[q], ran[q], rows[q]>>
  BY DEF Execute, Goto, MigrationsInv, TypeInv, TypeOK
<1> QED
  BY <1>2, <1>4, <1>8, <1>9, HolderKeepsInv DEF Execute, Reading

\* The row of a script joins the transaction that has run it.
LEMMA RecordKeepsInv ==
  ASSUME MigrationsInv, TypeInv', NEW r \in Runner, Record(r)
  PROVE  MigrationsInv'
<1>1. Reading(r) /\ pc[r] = "record" /\ at[r] <= Len(Image[r])
  BY DEF Record, Reading, MigrationsInv, TypeInv, RecordsAFile
<1>2. /\ lock = r /\ ContinuesSchema(r) /\ applied[r] = recorded
      /\ Len(Image[r]) \in Nat /\ at[r] \in 1..Len(Image[r])
      /\ FileOf(r) = Image[r][at[r]]
  BY <1>1, AtAFile
<1>3. /\ pc'[r] = "files" /\ at'[r] = at[r] + 1 /\ UNCHANGED <<recorded, ran>>
      /\ rows'[r] = rows[r] \cup {FileOf(r)}
  BY DEF Record, Goto, committed, MigrationsInv, TypeInv, TypeOK
<1>4. ContinuesSchema(r)'
  <2>1. Passed(r)' = Passed(r)
    BY <1>1, <1>2, <1>3 DEF Passed, Reached
  <2>2. FileOf(r) \in Scripts(ran[r])
    BY <1>1, <1>2 DEF ContinuesSchema, Passed, Reached
  <2>3. rows'[r] = Scripts(ran[r])
    BY <1>1, <1>2, <1>3, <2>2 DEF ContinuesSchema
  <2>4. at'[r] <= Len(Image[r]) + 1
    BY <1>2, <1>3
  <2>5. Scripts(ran[r])' = Scripts(ran[r])
    BY <1>3 DEF Scripts
  <2> QED
    BY <1>2, <1>3, <2>1, <2>3, <2>4, <2>5 DEF ContinuesSchema
<1>5. \A q \in Runner : q # r => UNCHANGED <<pc[q], applied[q], at[q], ran[q], rows[q]>>
  BY DEF Record, Goto, MigrationsInv, TypeInv, TypeOK
<1> QED
  BY <1>2, <1>3, <1>4, <1>5, HolderKeepsInv DEF Record, Reading

\* A transaction is committed at the end of the release: the schema grows by the
\* files of the release that were not recorded, in the order of their names.
LEMMA CommitUpgrades ==
  ASSUME MigrationsInv, NEW r \in Runner, Commit(r)
  PROVE  /\ lock = r
         /\ \A f \in Scripts(Image[r]), g \in recorded : f[1] = g[1] => f = g
         /\ Scripts(ran[r]) = Scripts(Image[r]) \ recorded
         /\ recorded' = recorded \cup Scripts(Image[r])
         /\ Len(schema) \in Nat /\ Len(ran[r]) \in Nat
         /\ Len(schema') = Len(schema) + Len(ran[r])
         /\ \A n \in 1..Len(schema) : schema'[n] = schema[n]
         /\ \A k \in 1..Len(ran[r]) : ran[r][k] \in File /\ schema'[Len(schema) + k] = ran[r][k]
         /\ \A m, n \in 1..Len(ran[r]) : m < n => ran[r][m][1] < ran[r][n][1]
<1>1. lock = r /\ ContinuesSchema(r) /\ pc[r] = "files"
  BY DEF Commit, LockIsHeld, Reading, TransactionsContinue, MigrationsInv
<1>2. /\ schema \in Seq(File) /\ ran[r] \in Seq(File)
      /\ Len(schema) \in Nat /\ Len(ran[r]) \in Nat /\ Len(Image[r]) \in Nat
      /\ at[r] \in Nat \ {0}
  BY LenProperties, MigrationsAssumption DEF MigrationsInv, TypeInv, TypeOK
<1>3. at[r] = Len(Image[r]) + 1
  BY <1>1, <1>2 DEF Commit, ContinuesSchema
<1>4. Passed(r) = Scripts(Image[r])
  BY <1>1, <1>2, <1>3 DEF Passed, Reached, Scripts
<1>5. recorded' = recorded \cup Scripts(ran[r])
  BY <1>1 DEF Commit, ContinuesSchema
<1>6. schema' = schema \o ran[r]
  BY DEF Commit
<1>7. /\ Len(schema') = Len(schema) + Len(ran[r])
      /\ \A n \in 1..(Len(schema) + Len(ran[r])) :
            schema'[n] = IF n <= Len(schema) THEN schema[n] ELSE ran[r][n - Len(schema)]
  BY <1>2, <1>6, ConcatProperties
<1>8. \A n \in 1..Len(schema) : schema'[n] = schema[n]
  BY <1>2, <1>7
<1>9. \A k \in 1..Len(ran[r]) : schema'[Len(schema) + k] = ran[r][k] /\ ran[r][k] \in File
  <2> TAKE k \in 1..Len(ran[r])
  <2>1. /\ Len(schema) + k \in 1..(Len(schema) + Len(ran[r]))
        /\ ~(Len(schema) + k <= Len(schema)) /\ (Len(schema) + k) - Len(schema) = k
    BY <1>2
  <2> QED
    BY <1>2, <1>7, <2>1, ElementOfSeq
<1> QED
  BY <1>1, <1>2, <1>4, <1>5, <1>7, <1>8, <1>9 DEF ContinuesSchema

\* The schema after a commit, place by place.
LEMMA CommittedPlaces ==
  ASSUME MigrationsInv, NEW r \in Runner, Commit(r), NEW n \in 1..Len(schema')
  PROVE  \/ n \in 1..Len(schema) /\ schema'[n] = schema[n]
         \/ \E k \in 1..Len(ran[r]) : n = Len(schema) + k /\ schema'[n] = ran[r][k]
<1>1. /\ Len(schema) \in Nat /\ Len(ran[r]) \in Nat
      /\ Len(schema') = Len(schema) + Len(ran[r])
      /\ \A m \in 1..Len(schema) : schema'[m] = schema[m]
      /\ \A k \in 1..Len(ran[r]) : schema'[Len(schema) + k] = ran[r][k]
  BY CommitUpgrades
<1>2. CASE n <= Len(schema)
  BY <1>1, <1>2
<1>3. CASE n > Len(schema)
  <2>1. n - Len(schema) \in 1..Len(ran[r]) /\ n = Len(schema) + (n - Len(schema))
    BY <1>1, <1>3
  <2> QED
    BY <1>1, <2>1
<1> QED
  BY <1>1, <1>2, <1>3

\* After a commit the rows are still the scripts, each once.
LEMMA CommitRecords ==
  ASSUME MigrationsInv, NEW r \in Runner, Commit(r)
  PROVE  RecordedWithSchema'
<1>1. /\ \A f \in Scripts(Image[r]), g \in recorded : f[1] = g[1] => f = g
      /\ Scripts(ran[r]) = Scripts(Image[r]) \ recorded
      /\ recorded' = recorded \cup Scripts(Image[r])
      /\ Len(schema) \in Nat /\ Len(ran[r]) \in Nat
      /\ Len(schema') = Len(schema) + Len(ran[r])
      /\ \A n \in 1..Len(schema) : schema'[n] = schema[n]
      /\ \A k \in 1..Len(ran[r]) : ran[r][k] \in File /\ schema'[Len(schema) + k] = ran[r][k]
      /\ \A m, n \in 1..Len(ran[r]) : m < n => ran[r][m][1] < ran[r][n][1]
  BY CommitUpgrades
<1>2. recorded = Scripts(schema) /\ \A m, n \in 1..Len(schema) : schema[m][1] = schema[n][1] => m = n
  BY DEF MigrationsInv, RecordedWithSchema
<1>3. Scripts(schema') = Scripts(schema) \cup Scripts(ran[r])
  <2>1. Scripts(schema') \subseteq Scripts(schema) \cup Scripts(ran[r])
    <3> SUFFICES ASSUME NEW n \in 1..Len(schema')
                 PROVE  schema'[n] \in Scripts(schema) \cup Scripts(ran[r])
      BY DEF Scripts
    <3>1. \/ n \in 1..Len(schema) /\ schema'[n] = schema[n]
          \/ \E k \in 1..Len(ran[r]) : n = Len(schema) + k /\ schema'[n] = ran[r][k]
      BY CommittedPlaces
    <3> QED
      BY <3>1 DEF Scripts
  <2>2. Scripts(schema) \subseteq Scripts(schema')
    BY <1>1 DEF Scripts
  <2>3. Scripts(ran[r]) \subseteq Scripts(schema')
    <3>1. \A k \in 1..Len(ran[r]) : Len(schema) + k \in 1..Len(schema')
      BY <1>1
    <3>2. \A k \in 1..Len(ran[r]) : ran[r][k] \in Scripts(schema')
      <4> TAKE k \in 1..Len(ran[r])
      <4>1. schema'[Len(schema) + k] = ran[r][k]
        BY <1>1
      <4> QED
        BY <3>1, <4>1 DEF Scripts
    <3> QED
      BY <3>2 DEF Scripts
  <2> QED
    BY <2>1, <2>2, <2>3
<1>4. recorded' = Scripts(schema')
  BY <1>1, <1>2, <1>3
<1>5. \A n \in 1..Len(schema), k \in 1..Len(ran[r]) : schema[n][1] # ran[r][k][1]
  <2>1. \A k \in 1..Len(ran[r]) : ran[r][k] \in Scripts(Image[r]) /\ ran[r][k] \notin recorded
    BY <1>1 DEF Scripts
  <2>2. \A n \in 1..Len(schema) : schema[n] \in recorded
    BY <1>2 DEF Scripts
  <2> QED
    BY <1>1, <2>1, <2>2
<1>6. \A j, k \in 1..Len(ran[r]) : ran[r][j][1] = ran[r][k][1] => j = k
  <2> SUFFICES ASSUME NEW j \in 1..Len(ran[r]), NEW k \in 1..Len(ran[r]),
                      ran[r][j][1] = ran[r][k][1], j # k
               PROVE  FALSE
    OBVIOUS
  <2>1. ran[r][j][1] \in Nat /\ ran[r][k][1] \in Nat
    BY <1>1 DEF File
  <2>2. j < k \/ k < j
    BY <1>1
  <2> QED
    BY <1>1, <2>1, <2>2
<1>7. \A m, n \in 1..Len(schema') : schema'[m][1] = schema'[n][1] => m = n
  <2> SUFFICES ASSUME NEW m \in 1..Len(schema'), NEW n \in 1..Len(schema'),
                      schema'[m][1] = schema'[n][1]
               PROVE  m = n
    OBVIOUS
  <2>1. \/ m \in 1..Len(schema) /\ schema'[m] = schema[m]
        \/ \E k \in 1..Len(ran[r]) : m = Len(schema) + k /\ schema'[m] = ran[r][k]
    BY CommittedPlaces
  <2>2. \/ n \in 1..Len(schema) /\ schema'[n] = schema[n]
        \/ \E k \in 1..Len(ran[r]) : n = Len(schema) + k /\ schema'[n] = ran[r][k]
    BY CommittedPlaces
  <2> QED
    BY <1>2, <1>5, <1>6, <2>1, <2>2
<1> QED
  BY <1>4, <1>7 DEF RecordedWithSchema

\* After a commit one more release is there as a whole.
LEMMA CommitKeepsInv ==
  ASSUME MigrationsInv, TypeInv', NEW r \in Runner, Commit(r)
  PROVE  MigrationsInv'
<1> USE DEF MigrationsInv
<1>1. lock = r /\ recorded' = recorded \cup Scripts(Image[r])
  BY CommitUpgrades
<1>2. RecordedWithSchema' /\ WholeReleases'
  <2>1. PICK S \in SUBSET Runner : recorded = UNION {Scripts(Image[q]) : q \in S}
    BY DEF WholeReleases
  <2>2. recorded' = UNION {Scripts(Image[q]) : q \in S \cup {r}}
    BY <1>1, <2>1
  <2>3. WholeReleases'
    BY <2>2 DEF WholeReleases
  <2> QED
    BY <2>3, CommitRecords
<1>3. \A q \in Runner : ~Reading(q)' /\ pc'[q] # "read"
  <2> TAKE q \in Runner
  <2>1. CASE q = r
    BY <2>1 DEF Commit, Goto, Reading, TypeInv, TypeOK
  <2>2. CASE q # r
    BY <1>1, <2>2, OneReader DEF Commit, Goto, Reading, TypeInv, TypeOK
  <2> QED
    BY <2>1, <2>2
<1>4. StartsAfresh'
  <2>1. \A q \in Runner : q # r => UNCHANGED <<pc[q], at[q], ran[q], rows[q]>>
    BY DEF Commit, Goto, EndTransaction, Forget, TypeInv, TypeOK
  <2>2. at'[r] = 1 /\ ran'[r] = <<>> /\ rows'[r] = {}
    BY DEF Commit, EndTransaction, Forget, TypeInv, TypeOK
  <2> QED
    BY <1>3, <2>1, <2>2 DEF StartsAfresh, Reading
<1> QED
  BY <1>2, <1>3, <1>4 DEF LockIsHeld, AppliedIsCurrent, TransactionsContinue, Reading

\* Getting the lock, the answer to the commit and the sleep touch no transaction.
LEMMA OutsideKeepsInv ==
  ASSUME MigrationsInv, TypeInv', NEW r \in Runner, Lock(r) \/ Return(r) \/ Sleep(r)
  PROVE  MigrationsInv'
<1> USE DEF MigrationsInv
<1>1. UNCHANGED <<schema, recorded, applied, at, ran, rows>>
  BY DEF Lock, Return, Sleep, committed, transaction
<1>2. ~Reading(r) /\ ~Reading(r)' /\ (pc'[r] = "read" => lock' = r)
  BY DEF Lock, Return, Sleep, Goto, Reading, TypeInv, TypeOK
<1>3. \A q \in Runner : q # r => UNCHANGED pc[q]
  BY DEF Lock, Return, Sleep, Goto, TypeInv, TypeOK
<1>4. LockIsHeld'
  <2>1. CASE lock = None
    BY <1>2, <1>3, <2>1, MigrationsAssumption DEF LockIsHeld, Reading
  <2>2. CASE UNCHANGED lock
    BY <1>2, <1>3, <2>2 DEF LockIsHeld, Reading
  <2> QED
    BY <2>1, <2>2 DEF Lock, Return, Sleep
<1>5. StartsAfresh' /\ AppliedIsCurrent'
  BY <1>1, <1>2, <1>3 DEF StartsAfresh, AppliedIsCurrent, Reading
<1>6. TransactionsContinue'
  BY <1>1, <1>2, <1>3, OthersContinue DEF TransactionsContinue, Reading
<1> QED
  BY <1>1, <1>4, <1>5, <1>6 DEF RecordedWithSchema, WholeReleases

-----------------------------------------------------------------------------
(* The theorems. *)

\* The invariant holds in the beginning.
LEMMA InitEstablishesInv == Init => MigrationsInv
<1> SUFFICES ASSUME Init PROVE MigrationsInv
  OBVIOUS
<1>1. <<>> \in Seq(File) /\ Len(<<>>) = 0
  BY EmptySeq
<1>2. TypeInv
  BY <1>1, MigrationsAssumption
  DEF Init, TypeInv, TypeOK, RecordsAFile, SleepsInTime, Attempting, Ended
<1>3. \A r \in Runner : ~Reading(r) /\ pc[r] # "read"
  BY DEF Init, Reading
<1>4. RecordedWithSchema
  BY <1>1 DEF Init, RecordedWithSchema, Scripts
<1>5. WholeReleases
  <2>1. recorded = UNION {Scripts(Image[q]) : q \in {}}
    BY DEF Init
  <2> QED
    BY <2>1 DEF WholeReleases
<1> QED
  BY <1>2, <1>3, <1>4, <1>5
  DEF Init, MigrationsInv, LockIsHeld, StartsAfresh, AppliedIsCurrent, TransactionsContinue,
      Reading

\* Every step keeps the invariant.
LEMMA NextKeepsInv == MigrationsInv /\ [Next]_vars => MigrationsInv'
<1> SUFFICES ASSUME MigrationsInv, [Next]_vars PROVE MigrationsInv'
  OBVIOUS
<1>1. TypeInv'
  BY MigrationTypes DEF MigrationsInv
<1>2. ASSUME NEW r \in Runner, Refuse(r) \/ ScriptFault(r) \/ Crash(r) PROVE MigrationsInv'
  <2>1. PICK l \in {"failed", "crashed"} : Goto(r, l)
    BY <1>2 DEF Refuse, ScriptFault, Crash
  <2>2. EndTransaction(r) /\ UNCHANGED committed
    BY <1>2 DEF Refuse, ScriptFault, Crash
  <2> QED
    BY <1>1, <2>1, <2>2, AbortKeepsInv
<1>3. ASSUME NEW r \in Runner, Fault(r) PROVE MigrationsInv'
  <2>1. PICK l \in {"sleep", "failed"} : Goto(r, l)
    BY <1>3 DEF Fault
  <2>2. EndTransaction(r) /\ UNCHANGED committed
    BY <1>3 DEF Fault
  <2> QED
    BY <1>1, <2>1, <2>2, AbortKeepsInv
<1>4. CASE UNCHANGED vars
  <2>1. UNCHANGED <<schema, recorded, lock, pc, applied, at, ran, rows>>
    BY <1>4 DEF vars
  <2>2. LockIsHeld' /\ StartsAfresh' /\ AppliedIsCurrent'
    BY <2>1 DEF MigrationsInv, LockIsHeld, StartsAfresh, AppliedIsCurrent, Reading
  <2>3. RecordedWithSchema' /\ WholeReleases'
    BY <2>1 DEF MigrationsInv, RecordedWithSchema, WholeReleases, Scripts
  <2>4. TransactionsContinue'
    BY <2>1, OthersContinue DEF MigrationsInv, TransactionsContinue, Reading
  <2> QED
    BY <1>1, <2>2, <2>3, <2>4 DEF MigrationsInv
<1> QED
  BY <1>1, <1>2, <1>3, <1>4, ReadKeepsInv, SkipKeepsInv, ExecuteKeepsInv, RecordKeepsInv,
     CommitKeepsInv, OutsideKeepsInv
  DEF Next, Step

\* The invariant always holds.
LEMMA InvAlways == Spec => []MigrationsInv
BY InitEstablishesInv, NextKeepsInv, PTL DEF Spec

\* The database, the lock and every runner stay within their types, and no runner
\* waits past its deadline, for any runners and releases.
THEOREM MigrationsTypeCorrect == Spec => []TypeOK
<1>1. MigrationsInv => TypeOK
  BY DEF MigrationsInv, TypeInv
<1> QED
  BY <1>1, InvAlways, PTL

\* A migration is recorded in the transaction that runs it: the rows of
\* schema_migrations are the scripts that took effect, each once, whatever fails.
THEOREM RecordsAreAtomic == Spec => []RecordedWithSchema
<1>1. MigrationsInv => RecordedWithSchema
  BY DEF MigrationsInv
<1> QED
  BY <1>1, InvAlways, PTL

\* Runners of any releases, in any order, leave whole releases behind: no failure
\* makes a part of one visible.
THEOREM ReleasesAreWhole == Spec => []WholeReleases
<1>1. MigrationsInv => WholeReleases
  BY DEF MigrationsInv
<1> QED
  BY <1>1, InvAlways, PTL

\* The advisory lock keeps what a runner has read of schema_migrations current.
THEOREM ReadsStayCurrent == Spec => []AppliedIsCurrent
<1>1. MigrationsInv => AppliedIsCurrent
  BY DEF MigrationsInv
<1> QED
  BY <1>1, InvAlways, PTL

\* Only a commit changes the schema.
LEMMA OnlyCommitsUpgrade ==
  ASSUME NEW r \in Runner,
         \/ Lock(r) \/ ReadApplied(r) \/ Skip(r) \/ Refuse(r) \/ Execute(r) \/ Record(r)
         \/ Return(r) \/ Sleep(r) \/ Fault(r) \/ ScriptFault(r) \/ Crash(r)
  PROVE  schema' = schema
BY DEF Lock, ReadApplied, Skip, Refuse, Execute, Record, Return, Sleep, Fault,
       ScriptFault, Crash, committed

\* The runners implement SchemaHistory: whatever releases they belong to, however
\* they take turns, fail, die and try again, the committed schema only ever grows, in
\* one step and in order, by all that it lacks of a release that agrees with it.
THEOREM MigrationsImplementHistory == Spec => ImplementsHistory
<1>1. Init => History!Init
  BY DEF Init, History!Init
<1>2. MigrationsInv /\ [Next]_vars => [History!Next]_schema
  <2> SUFFICES ASSUME MigrationsInv, [Next]_vars, schema' # schema
               PROVE  History!Next
    OBVIOUS
  <2>1. PICK r \in Runner : Commit(r)
    BY OnlyCommitsUpgrade DEF Next, Step, vars
  <2>2. /\ \A f \in Scripts(Image[r]), g \in recorded : f[1] = g[1] => f = g
        /\ Scripts(ran[r]) = Scripts(Image[r]) \ recorded
        /\ Len(schema) \in Nat /\ Len(ran[r]) \in Nat
        /\ Len(schema') = Len(schema) + Len(ran[r])
        /\ \A n \in 1..Len(schema) : schema'[n] = schema[n]
        /\ \A k \in 1..Len(ran[r]) : schema'[Len(schema) + k] = ran[r][k]
        /\ \A m, n \in 1..Len(ran[r]) : m < n => ran[r][m][1] < ran[r][n][1]
    BY <2>1, CommitUpgrades
  <2>3. recorded = History!Done
    BY DEF MigrationsInv, RecordedWithSchema, Scripts, History!Done
  <2>4. \A n \in History!New : /\ n - Len(schema) \in 1..Len(ran[r])
                               /\ n = Len(schema) + (n - Len(schema))
                               /\ schema'[n] = ran[r][n - Len(schema)]
    BY <2>2 DEF History!New
  <2>5. {schema'[n] : n \in History!New} = Scripts(ran[r])
    <3>1. {schema'[n] : n \in History!New} \subseteq Scripts(ran[r])
      BY <2>4 DEF Scripts
    <3>2. \A k \in 1..Len(ran[r]) : Len(schema) + k \in History!New
      BY <2>2 DEF History!New
    <3>3. Scripts(ran[r]) \subseteq {schema'[n] : n \in History!New}
      <4> SUFFICES ASSUME NEW k \in 1..Len(ran[r])
                   PROVE  ran[r][k] \in {schema'[n] : n \in History!New}
        BY DEF Scripts
      <4>1. schema'[Len(schema) + k] = ran[r][k]
        BY <2>2
      <4> QED
        BY <3>2, <4>1
    <3> QED
      BY <3>1, <3>3
  <2>6. \A m, n \in History!New : m < n => schema'[m][1] < schema'[n][1]
    <3> SUFFICES ASSUME NEW m \in History!New, NEW n \in History!New, m < n
                 PROVE  schema'[m][1] < schema'[n][1]
      OBVIOUS
    <3>1. m - Len(schema) < n - Len(schema)
      BY <2>2 DEF History!New
    <3> QED
      BY <2>2, <2>4, <3>1
  <2>7. History!Agrees(Scripts(Image[r]))
    BY <2>2, <2>3 DEF History!Agrees
  <2>8. History!Upgrade(Scripts(Image[r]))
    BY <2>2, <2>3, <2>5, <2>6, <2>7 DEF History!Upgrade
  <2> QED
    BY <2>8 DEF History!Next
<1> QED
  BY <1>1, <1>2, InvAlways, PTL DEF Spec, ImplementsHistory, History!Spec
=============================================================================
