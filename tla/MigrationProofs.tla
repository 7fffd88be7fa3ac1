--------------------------- MODULE MigrationProofs ---------------------------
(***************************************************************************)
(* StampIsTrue for any number of instances, failures and crashes, and any  *)
(* released database.  The invariant it needs says what an instance knows  *)
(* at each place: who is past the snapshot has one of the original beside  *)
(* it (or met the latest version), the version it works from is never      *)
(* ahead of the file, and nobody is past the last check before v5.         *)
(***************************************************************************)
EXTENDS Migration, TLAPS, FiniteSetTheorems, WellFoundedInduction

Places == {"off", "refused", "backup", "read", "step", "reread", "pool", "boot", "serving"}

LayersOf(v) == 1 .. v \cap 1 .. 4

Shape(d) ==
    d = [version |-> d.version, layers |-> d.layers, sound |-> d.sound,
         rows |-> d.rows, run |-> d.run, mission |-> d.mission]

Types ==
    /\ Shape(db) /\ db.version \in 0 .. 6
    /\ original.version \in 0 .. 6
    /\ at \in [Instances -> Places]
    /\ current \in [Instances -> 0 .. 6]

Known == original.version \in 1 .. 5 /\ original.layers = LayersOf(original.version)

Truth ==
    /\ db.version \in original.version .. 5
    /\ db.layers = LayersOf(db.version)
    /\ db.version < 5 => db.rows = original.rows
    /\ db.version # original.version => original \in backups

Untouched == db.version = original.version /\ db.version < 5 => db = original

Snapshot == \A i \in Instances :
    at[i] \in {"read", "step", "reread"} => original.version = 5 \/ original \in backups

Behind == \A i \in Instances :
    at[i] = "step" => current[i] \in 1 .. 5 /\ current[i] <= db.version

AtLatest == \A i \in Instances : at[i] \in {"pool", "boot", "serving"} => db.version = 5

Account == Known => Truth /\ Untouched /\ Snapshot /\ Behind /\ AtLatest

IInv == Types /\ Account

(* The place and version of the instance that moved, of the others.        *)
LEMMA Moves ==
    ASSUME Types, NEW i \in Instances, NEW l \in Places, NEW v \in 0 .. 6,
           GotoWith(i, l, v)
    PROVE  /\ at' \in [Instances -> Places] /\ current' \in [Instances -> 0 .. 6]
           /\ at'[i] = l /\ current'[i] = v
           /\ \A j \in Instances \ {i} : at'[j] = at[j] /\ current'[j] = current[j]
BY DEF GotoWith, Types

LEMMA GoesTo ==
    ASSUME Types, NEW i \in Instances, NEW l \in Places, Goto(i, l)
    PROVE  /\ at' \in [Instances -> Places] /\ current' \in [Instances -> 0 .. 6]
           /\ at'[i] = l
           /\ \A j \in Instances \ {i} : at'[j] = at[j] /\ current'[j] = current[j]
BY DEF Goto, Types

(* Steps that leave the file and its snapshots alone.                      *)
LEMMA FileKept ==
    ASSUME IInv, UNCHANGED <<db, original, backups>>,
           NEW i \in Instances,
           at' \in [Instances -> Places], current' \in [Instances -> 0 .. 6],
           \A j \in Instances \ {i} : at'[j] = at[j] /\ current'[j] = current[j],
           Known => /\ at'[i] \in {"read", "step", "reread"} =>
                          original.version = 5 \/ original \in backups
                    /\ at'[i] = "step" => current'[i] \in 1 .. 5 /\ current'[i] <= db.version
                    /\ at'[i] \in {"pool", "boot", "serving"} => db.version = 5
    PROVE  IInv'
<1>1. Types' BY DEF IInv, Types, Shape
<1>2. ASSUME Known' PROVE (Truth /\ Untouched /\ Snapshot /\ Behind /\ AtLatest)'
  <2>0. Known BY <1>2 DEF Known
  <2>1. Truth' /\ Untouched' BY <2>0 DEF IInv, Account, Truth, Untouched
  <2>2. Snapshot' BY <2>0 DEF IInv, Account, Snapshot
  <2>3. Behind' BY <2>0 DEF IInv, Account, Behind
  <2>4. AtLatest' BY <2>0 DEF IInv, Account, AtLatest
  <2> QED BY <2>1, <2>2, <2>3, <2>4
<1> QED BY <1>1, <1>2 DEF IInv, Account

LEMMA Starts == Init => IInv
<1> SUFFICES ASSUME Init PROVE IInv OBVIOUS
<1>1. db \in [version : 0 .. 5 + 1, layers : SUBSET (1 .. 4), sound : BOOLEAN,
              rows : {db.rows}, run : {db.run}, mission : {db.mission}]
  BY ReleasedAssumption DEF Init, Latest
<1>2. Types BY <1>1 DEF Init, Types, Shape, Places
<1>3. Account BY <1>1 DEF Init, Account, Known, Truth, Untouched, Snapshot, Behind, AtLatest
<1> QED BY <1>2, <1>3 DEF IInv

(* A step that commits raises the stamp by one or, for the data of v5,     *)
(* sets it to 5 again.                                                     *)
LEMMA UpgradedIsTrue ==
    ASSUME Shape(db), Truth, Known, NEW target \in 2 .. 5, Applicable(db, target)
    PROVE  LET d == Upgraded(db, target)
           IN /\ Shape(d) /\ d.version = target
              /\ d.version \in db.version .. 5
              /\ d.layers = LayersOf(d.version)
              /\ d.version < 5 => d.rows = db.rows /\ d.version # db.version
<1> DEFINE d == Upgraded(db, target)
<1>0. db.version \in 1 .. 5 /\ db.layers = LayersOf(db.version) BY DEF Truth, Known
<1>1. /\ d.version = target
      /\ d.layers = IF target <= 4 THEN db.layers \cup {target} ELSE db.layers
      /\ target # 5 => d.rows = db.rows
      /\ Shape(d)
  <2> DEFINE V == target
             L == IF target <= 4 THEN db.layers \cup {target} ELSE db.layers
             W == IF target = 5 THEN Promoted(db.rows) ELSE db.rows
             N == IF target = 4 THEN db.run ELSE db.mission
  <2>1. d = [version |-> V, layers |-> L, sound |-> db.sound, rows |-> W,
             run |-> db.run, mission |-> N]
    BY DEF Upgraded
  <2> HIDE DEF V, L, W, N
  <2>2. /\ d.version = V /\ d.layers = L /\ d.rows = W /\ Shape(d)
    BY <2>1 DEF Shape
  <2> QED BY <2>2 DEF V, L, W
<1> HIDE DEF d
<1>2. CASE target \in 2 .. 4
  <2>1. target - 1 \in db.layers /\ target \notin db.layers BY <1>2 DEF Applicable
  <2>2. target = db.version + 1
    <3>1. target - 1 \in 1 .. db.version /\ target - 1 \in 1 .. 4
      BY <1>0, <1>2, <2>1 DEF LayersOf
    <3>2. target \notin 1 .. db.version BY <1>0, <1>2, <2>1 DEF LayersOf
    <3> QED BY <1>0, <3>1, <3>2
  <2>3. d.layers = LayersOf(d.version) BY <1>0, <1>1, <1>2, <2>2 DEF LayersOf
  <2> QED BY <1>0, <1>1, <1>2, <2>2, <2>3 DEF d
<1>3. CASE target = 5
  <2>1. 4 \in db.layers BY <1>3 DEF Applicable
  <2>2. d.layers = LayersOf(d.version) BY <1>0, <1>1, <1>3, <2>1 DEF LayersOf
  <2> QED BY <1>0, <1>1, <1>3, <2>2 DEF d
<1> QED BY <1>2, <1>3

(* The step of an instance that commits.                                   *)
LEMMA CommitKeeps ==
    ASSUME IInv, NEW i \in Instances,
           at[i] = "step", current[i] < Latest,
           Applicable(db, current[i] + 1), db' = Upgraded(db, current[i] + 1),
           Leave(i, "reread"), UNCHANGED <<original, backups, faults, crashes>>
    PROVE  IInv'
<1> DEFINE target == current[i] + 1
<1>1. current[i] \in 0 .. 4 /\ target \in 1 .. 5 BY DEF IInv, Types, Latest
<1>2. /\ at' \in [Instances -> Places] /\ current' \in [Instances -> 0 .. 6]
      /\ at'[i] = "reread"
      /\ \A j \in Instances \ {i} : at'[j] = at[j] /\ current'[j] = current[j]
  BY Moves DEF IInv, Leave, Places
<1>3. db'.version = target /\ Shape(db') BY DEF IInv, Types, Shape, Upgraded
<1>4. Types' BY <1>1, <1>2, <1>3 DEF IInv, Types
<1>5. ASSUME Known' PROVE (Truth /\ Untouched /\ Snapshot /\ Behind /\ AtLatest)'
  <2>0. Known /\ Truth BY <1>5 DEF Known, IInv, Account
  <2>1. current[i] \in 1 .. 5 /\ current[i] <= db.version /\ target \in 2 .. 5
    BY <2>0, <1>1 DEF IInv, Account, Behind
  <2>2. original.version = 5 \/ original \in backups BY <2>0 DEF IInv, Account, Snapshot
  <2>3. /\ db'.version \in db.version .. 5
        /\ db'.layers = LayersOf(db'.version)
        /\ db'.version < 5 => db'.rows = db.rows /\ db'.version # db.version
    BY <2>0, <2>1, UpgradedIsTrue DEF IInv, Types
  <2>4. db.version \in 1 .. 5 /\ original.version \in 1 .. 5 /\ db.version >= original.version
    BY <2>0 DEF Known, Truth
  <2>5. db'.version \in original.version .. 5 BY <2>3, <2>4
  <2>6. db'.version < 5 => db'.rows = original.rows
    BY <2>0, <2>3, <2>4 DEF Truth
  <2>7. db'.version # original.version => original \in backups
    BY <2>2, <2>5
  <2>8. Truth' BY <2>3, <2>5, <2>6, <2>7 DEF Truth
  <2>9. Untouched' BY <2>3, <2>4 DEF Untouched
  <2>10. Snapshot' BY <2>0, <1>2, <2>2 DEF IInv, Account, Snapshot
  <2>11. ASSUME NEW j \in Instances, at'[j] = "step"
         PROVE  current'[j] \in 1 .. 5 /\ current'[j] <= db'.version
    <3>1. j # i BY <1>2, <2>11
    <3>2. current[j] \in 1 .. 5 /\ current[j] <= db.version
      BY <3>1, <1>2, <2>0, <2>11 DEF IInv, Account, Behind
    <3> QED BY <3>1, <3>2, <1>2, <2>3, <2>4
  <2>12. Behind' BY <2>11 DEF Behind
  <2>13. AtLatest'
    <3>1. \A j \in Instances : at'[j] \in {"pool", "boot", "serving"} => db.version = 5
      BY <1>2, <2>0 DEF IInv, Account, AtLatest
    <3> QED BY <3>1, <2>3, <2>4 DEF AtLatest
  <2> QED BY <2>8, <2>9, <2>10, <2>12, <2>13
<1> QED BY <1>4, <1>5 DEF IInv, Account

LEMMA ApplyKeeps ==
    ASSUME IInv, NEW i \in Instances, Apply(i) PROVE IInv'
<1>1. CASE Applicable(db, current[i] + 1) /\ db' = Upgraded(db, current[i] + 1) /\ Leave(i, "reread")
  BY <1>1, CommitKeeps DEF Apply
<1>2. CASE Leave(i, "refused") /\ UNCHANGED db
  <2>1. /\ at' \in [Instances -> Places] /\ current' \in [Instances -> 0 .. 6]
        /\ at'[i] = "refused"
        /\ \A j \in Instances \ {i} : at'[j] = at[j] /\ current'[j] = current[j]
    BY <1>2, Moves DEF IInv, Leave, Places
  <2>2. UNCHANGED <<db, original, backups>> BY <1>2 DEF Apply
  <2> QED BY <2>1, <2>2, FileKept
<1> QED BY <1>1, <1>2 DEF Apply

LEMMA BackupKeeps ==
    ASSUME IInv, NEW i \in Instances, Backup(i) PROVE IInv'
<1>1. /\ at' \in [Instances -> Places] /\ current' \in [Instances -> 0 .. 6]
      /\ at'[i] = "read"
      /\ \A j \in Instances \ {i} : at'[j] = at[j] /\ current'[j] = current[j]
  BY GoesTo DEF IInv, Backup, Places
<1>2. UNCHANGED <<db, original>> /\ backups' = backups \cup {db} BY DEF Backup
<1>3. Types' BY <1>1, <1>2 DEF IInv, Types, Shape
<1>4. ASSUME Known' PROVE (Truth /\ Untouched /\ Snapshot /\ Behind /\ AtLatest)'
  <2>0. Known BY <1>2, <1>4 DEF Known
  <2>1. Truth' /\ Untouched' BY <2>0, <1>2 DEF IInv, Account, Truth, Untouched
  <2>2. original.version = 5 \/ original \in backups'
    BY <2>0, <1>2 DEF IInv, Account, Truth, Untouched, Known
  <2>3. Snapshot' BY <1>2, <2>2 DEF Snapshot
  <2>4. Behind' BY <2>0, <1>1, <1>2 DEF IInv, Account, Behind
  <2>5. AtLatest' BY <2>0, <1>1, <1>2 DEF IInv, Account, AtLatest
  <2> QED BY <2>1, <2>3, <2>4, <2>5
<1> QED BY <1>3, <1>4 DEF IInv, Account

LEMMA RecoverKeeps ==
    ASSUME IInv, NEW i \in Instances, RecoverInterruptedRuns(i) PROVE IInv'
<1>1. /\ at' \in [Instances -> Places] /\ current' \in [Instances -> 0 .. 6]
      /\ at'[i] = "serving" /\ at[i] = "boot"
      /\ \A j \in Instances \ {i} : at'[j] = at[j] /\ current'[j] = current[j]
  BY GoesTo DEF IInv, RecoverInterruptedRuns, Places
<1>2. /\ UNCHANGED <<original, backups>> /\ Shape(db')
      /\ db'.version = db.version /\ db'.layers = db.layers /\ db'.rows = db.rows
  BY DEF RecoverInterruptedRuns, IInv, Types, Shape
<1>3. Types' BY <1>1, <1>2 DEF IInv, Types
<1>4. ASSUME Known' PROVE (Truth /\ Untouched /\ Snapshot /\ Behind /\ AtLatest)'
  <2>0. Known BY <1>2, <1>4 DEF Known
  <2>1. db.version = 5 BY <2>0, <1>1 DEF IInv, Account, AtLatest
  <2>2. Truth' BY <2>0, <1>2 DEF IInv, Account, Truth
  <2>3. Untouched' BY <1>2, <2>1 DEF Untouched
  <2>4. Snapshot' BY <2>0, <1>1, <1>2 DEF IInv, Account, Snapshot
  <2>5. Behind' BY <2>0, <1>1, <1>2 DEF IInv, Account, Behind
  <2>6. AtLatest' BY <1>2, <2>1 DEF AtLatest
  <2> QED BY <2>2, <2>3, <2>4, <2>5, <2>6
<1> QED BY <1>3, <1>4 DEF IInv, Account

(* A start either takes a snapshot or has met v5.                          *)
LEMMA LaunchKeeps ==
    ASSUME IInv, NEW i \in Instances, Launch(i) PROVE IInv'
<1> DEFINE l == IF NeedsBackup(db.version) THEN "backup" ELSE "read"
<1>1. l \in Places BY DEF Places
<1>2. /\ at' \in [Instances -> Places] /\ current' \in [Instances -> 0 .. 6]
      /\ at'[i] = l
      /\ \A j \in Instances \ {i} : at'[j] = at[j] /\ current'[j] = current[j]
  BY <1>1, GoesTo DEF IInv, Launch
<1>3. Known /\ l = "read" => original.version = 5 \/ original \in backups
  BY DEF Known, IInv, Account, Truth, NeedsBackup, Latest
<1>4. UNCHANGED <<db, original, backups>> BY DEF Launch
<1> QED BY <1>2, <1>3, <1>4, FileKept

LEMMA MigrateKeeps ==
    ASSUME IInv, NEW i \in Instances, Migrate(i) \/ Reread(i) PROVE IInv'
<1>1. UNCHANGED <<db, original, backups>> /\ at[i] \in {"read", "reread"}
      /\ (Leave(i, "refused") \/ GotoWith(i, "step", db.version))
  BY DEF Migrate, Reread
<1>2. db.version \in 0 .. 6 BY DEF IInv, Types
<1>3. \E l \in {"refused", "step"} :
      /\ at' \in [Instances -> Places] /\ current' \in [Instances -> 0 .. 6]
      /\ at'[i] = l /\ (l = "step" => current'[i] = db.version)
      /\ \A j \in Instances \ {i} : at'[j] = at[j] /\ current'[j] = current[j]
  BY <1>1, <1>2, Moves DEF IInv, Leave, Places
<1>4. Known => /\ original.version = 5 \/ original \in backups
               /\ db.version \in 1 .. 5
  BY <1>1 DEF IInv, Account, Snapshot, Truth, Known
<1> QED BY <1>1, <1>2, <1>3, <1>4, FileKept

LEMMA CheckKeeps ==
    ASSUME IInv, NEW i \in Instances, Check(i) \/ OpenPool(i) PROVE IInv'
<1>1. UNCHANGED <<db, original, backups>> BY DEF Check, OpenPool
<1>2. \E l \in {"refused", "pool", "boot"} :
      /\ at' \in [Instances -> Places] /\ current' \in [Instances -> 0 .. 6]
      /\ at'[i] = l
      /\ \A j \in Instances \ {i} : at'[j] = at[j] /\ current'[j] = current[j]
  BY Moves, GoesTo DEF IInv, Check, OpenPool, Leave, Places
<1>3. Known /\ at'[i] \in {"pool", "boot"} => db.version = 5
  <2>1. CASE Check(i)
    <3>1. Known => current[i] \in 1 .. 5 /\ current[i] <= db.version /\ db.version \in 1 .. 5
      BY <2>1 DEF Check, IInv, Account, Behind, Truth, Known
    <3> QED BY <3>1, <2>1 DEF Check, Latest
  <2>2. CASE OpenPool(i)
    <3>1. at[i] = "pool" BY <2>2 DEF OpenPool
    <3> QED BY <3>1 DEF IInv, Account, AtLatest
  <2> QED BY <2>1, <2>2
<1> QED BY <1>1, <1>2, <1>3, FileKept

LEMMA LeaveKeeps ==
    ASSUME IInv, NEW i \in Instances, Close(i) \/ Crash(i) \/ Fail(i) PROVE IInv'
<1>1. UNCHANGED <<db, original, backups>> /\ (Leave(i, "off") \/ Leave(i, "refused"))
  BY DEF Close, Crash, Fail, Fault
<1>2. \E l \in {"off", "refused"} :
      /\ at' \in [Instances -> Places] /\ current' \in [Instances -> 0 .. 6]
      /\ at'[i] = l
      /\ \A j \in Instances \ {i} : at'[j] = at[j] /\ current'[j] = current[j]
  BY <1>1, Moves DEF IInv, Leave, Places
<1> QED BY <1>1, <1>2, FileKept

LEMMA NextKeeps == IInv /\ [Next]_vars => IInv'
<1> SUFFICES ASSUME IInv, [Next]_vars PROVE IInv' OBVIOUS
<1>1. CASE UNCHANGED vars
  BY <1>1 DEF vars, IInv, Types, Shape, Account, Known, Truth, Untouched, Snapshot, Behind, AtLatest
<1>2. CASE Next
  BY <1>2, ApplyKeeps, BackupKeeps, RecoverKeeps, LaunchKeeps, MigrateKeeps, CheckKeeps, LeaveKeeps
  DEF Next
<1> QED BY <1>1, <1>2

(* The stamp of a released database is true, and a snapshot of what it was *)
(* lies beside it once it has moved, for any number of instances that open *)
(* it, whatever fails and whenever one dies (storage/db.rs, migrations.rs).*)
THEOREM StampStaysTrue == Spec => []StampIsTrue
<1>1. IInv => StampIsTrue
  BY DEF IInv, Account, Known, Truth, StampIsTrue, LayersOf, Latest
<1> QED BY <1>1, Starts, NextKeeps, PTL DEF Spec

(* Nobody serves anything but the latest version of a released database.   *)
THEOREM ServesLatest ==
    Spec => [](Known => \A i \in Instances : at[i] = "serving" => db.version = Latest)
<1>1. IInv => (Known => \A i \in Instances : at[i] = "serving" => db.version = Latest)
  BY DEF IInv, Account, AtLatest, Latest
<1> QED BY <1>1, Starts, NextKeeps, PTL DEF Spec

-----------------------------------------------------------------------------
(* Finite sets and sums over them *)

(* What holds of a set once it holds of every smaller one holds of all.    *)
LEMMA SmallerFirst ==
  ASSUME NEW F, IsFiniteSet(F), NEW T,
         \A U \in SUBSET F : (\A V \in SUBSET U : V # U => V \in T) => U \in T
  PROVE  \A U \in SUBSET F : U \in T
<1> DEFINE R == StrictSubsetOrdering(F)
           B == {U \in SUBSET F : U \notin T}
<1>1. IsWellFoundedOn(R, FiniteSubsetsOf(F)) BY FS_StrictSubsetOrderingWellFounded
<1>2. B \subseteq FiniteSubsetsOf(F) BY FS_Subset DEF FiniteSubsetsOf
<1>3. SUFFICES ASSUME B # {} PROVE FALSE OBVIOUS
<1>4. PICK b \in B : \A c \in B : ~(<<c, b>> \in R)
  <2> HIDE DEF B, R
  <2> QED BY <1>1, <1>2, <1>3, WFMin
<1>5. \A V \in SUBSET b : V # b => V \in T
  <2>1. SUFFICES ASSUME NEW V \in SUBSET b, V # b, V \notin T PROVE FALSE OBVIOUS
  <2>2. V \in B /\ V \in SUBSET F /\ b \in SUBSET F BY <2>1
  <2>3. <<V, b>> \in R BY <2>1, <2>2 DEF StrictSubsetOrdering
  <2> QED BY <1>4, <2>2, <2>3
<1> QED BY <1>4, <1>5

LEMMA LeastOf ==
  ASSUME NEW F \in SUBSET Nat, IsFiniteSet(F), F # {}
  PROVE  Min(F) \in F /\ \A y \in F : Min(F) <= y
<1> DEFINE T == {U \in SUBSET F : U # {} => \E x \in U : \A y \in U : x <= y}
<1>1. ASSUME NEW U \in SUBSET F, \A V \in SUBSET U : V # U => V \in T PROVE U \in T
  <2>1. CASE U = {} BY <2>1
  <2>2. CASE U # {}
    <3>1. PICK x \in U : TRUE BY <2>2
    <3>2. U \ {x} \in T BY <1>1, <3>1
    <3>3. CASE U \ {x} = {}
      <4>1. x \in Nat /\ \A y \in U : y = x BY <3>1, <3>3
      <4> QED BY <3>1, <4>1
    <3>4. CASE U \ {x} # {}
      <4>1. PICK z \in U \ {x} : \A y \in U \ {x} : z <= y BY <3>2, <3>4
      <4>2. x \in Nat /\ z \in Nat /\ \A y \in U : y \in Nat OBVIOUS
      <4>3. CASE z <= x BY <4>1, <4>2, <4>3
      <4>4. CASE x < z BY <4>1, <4>2, <4>4
      <4> QED BY <4>2, <4>3, <4>4
    <3> QED BY <3>3, <3>4
  <2> QED BY <2>1, <2>2
<1> HIDE DEF T
<1>2. F \in T BY <1>1, SmallerFirst
<1> QED BY <1>2 DEF T, Min

(* The sum of c over a set, by the recursion of the community module.      *)
Tally(c, S) == MapThenSumSet(LAMBDA h : c[h], S)

Pick(U) == CHOOSE x \in U : TRUE

Tallies(s, c, S) ==
  s = [U \in SUBSET S |-> IF U = {} THEN 0 ELSE c[Pick(U)] + s[U \ {Pick(U)}]]

LEMMA TallyIsChosen ==
  ASSUME NEW c, NEW S
  PROVE  Tally(c, S) = (CHOOSE s : Tallies(s, c, S))[S]
BY DEF Tally, Tallies, Pick, MapThenSumSet, MapThenFoldSet

LEMMA TalliesSay ==
  ASSUME NEW c, NEW S, NEW s, Tallies(s, c, S), NEW U \in SUBSET S
  PROVE  s[U] = IF U = {} THEN 0 ELSE c[Pick(U)] + s[U \ {Pick(U)}]
<1>1. s = [V \in SUBSET S |-> IF V = {} THEN 0 ELSE c[Pick(V)] + s[V \ {Pick(V)}]] BY DEF Tallies
<1> QED BY <1>1

LEMMA TalliesAgree ==
  ASSUME NEW c, NEW S, IsFiniteSet(S), NEW R \in SUBSET S,
         NEW s, Tallies(s, c, S), NEW r, Tallies(r, c, R)
  PROVE  \A U \in SUBSET R : s[U] = r[U]
<1> DEFINE T == {U \in SUBSET R : s[U] = r[U]}
<1>1. ASSUME NEW U \in SUBSET R, \A V \in SUBSET U : V # U => V \in T PROVE U \in T
  <2>1. U \in SUBSET S OBVIOUS
  <2>2. s[U] = IF U = {} THEN 0 ELSE c[Pick(U)] + s[U \ {Pick(U)}] BY <2>1, TalliesSay
  <2>3. r[U] = IF U = {} THEN 0 ELSE c[Pick(U)] + r[U \ {Pick(U)}] BY TalliesSay
  <2>4. CASE U = {} BY <2>2, <2>3, <2>4
  <2>5. CASE U # {}
    <3>1. Pick(U) \in U BY <2>5 DEF Pick
    <3>2. U \ {Pick(U)} \in T BY <1>1, <3>1
    <3> QED BY <2>2, <2>3, <2>5, <3>2
  <2> QED BY <2>4, <2>5
<1>2. IsFiniteSet(R) BY FS_Subset
<1> HIDE DEF T
<1>3. \A U \in SUBSET R : U \in T BY <1>1, <1>2, SmallerFirst
<1> QED BY <1>3 DEF T

LEMMA TalliesExist ==
  ASSUME NEW c, NEW S, IsFiniteSet(S)
  PROVE  Tallies([U \in SUBSET S |-> Tally(c, U)], c, S)
<1> DEFINE Sol(U) == CHOOSE s : Tallies(s, c, U)
           T == {U \in SUBSET S : \E s : Tallies(s, c, U)}
           Step(U) == IF U = {} THEN 0 ELSE c[Pick(U)] + Sol(U \ {Pick(U)})[U \ {Pick(U)}]
<1>1. ASSUME NEW U \in SUBSET S, \E s : Tallies(s, c, U)
      PROVE  Tallies(Sol(U), c, U)
  BY <1>1
<1> HIDE DEF Sol
<1>2. ASSUME NEW U \in SUBSET S, \E s : Tallies(s, c, U),
             \A V \in SUBSET U : V # U => \E s : Tallies(s, c, V)
      PROVE  Sol(U)[U] = Step(U)
  <2>1. Tallies(Sol(U), c, U) BY <1>1, <1>2
  <2>2. Sol(U)[U] = IF U = {} THEN 0 ELSE c[Pick(U)] + Sol(U)[U \ {Pick(U)}] BY <2>1, TalliesSay
  <2>3. CASE U = {} BY <2>2, <2>3
  <2>4. CASE U # {}
    <3> DEFINE W == U \ {Pick(U)}
    <3>1. Pick(U) \in U BY <2>4 DEF Pick
    <3>2. W \in SUBSET U /\ W # U /\ W \in SUBSET S BY <3>1
    <3>3. Tallies(Sol(W), c, W) BY <1>1, <1>2, <3>2
    <3>4. IsFiniteSet(U) BY FS_Subset
    <3>5. Sol(U)[W] = Sol(W)[W] BY <2>1, <3>2, <3>3, <3>4, TalliesAgree
    <3> QED BY <2>2, <2>4, <3>5
  <2> QED BY <2>3, <2>4
<1>3. ASSUME NEW U \in SUBSET S, \A V \in SUBSET U : V # U => V \in T PROVE U \in T
  <2> DEFINE s == [V \in SUBSET U |-> Step(V)]
  <2>1. \A V \in SUBSET U : V # {} => Pick(V) \in V BY DEF Pick
  <2>2. \A V \in SUBSET U : V # U => \E r : Tallies(r, c, V) BY <1>3
  <2>3. ASSUME NEW V \in SUBSET U, V # {}
        PROVE  s[V] = c[Pick(V)] + s[V \ {Pick(V)}]
    <3> DEFINE W == V \ {Pick(V)}
    <3>1. W \in SUBSET U /\ W # U /\ W \in SUBSET S BY <2>1, <2>3
    <3>2. \A X \in SUBSET W : X # U BY <2>1, <2>3
    <3>3. (\E r : Tallies(r, c, W)) /\ \A X \in SUBSET W : X # W => \E r : Tallies(r, c, X)
      BY <2>2, <3>1, <3>2
    <3> HIDE DEF Step
    <3>4. Sol(W)[W] = Step(W) BY <1>2, <3>1, <3>3
    <3>5. s[W] = Step(W) /\ s[V] = Step(V) BY <3>1
    <3>6. Step(V) = c[Pick(V)] + Sol(W)[W] BY <2>3 DEF Step
    <3> QED BY <3>4, <3>5, <3>6
  <2>4. {} \in SUBSET U /\ s[{}] = 0 OBVIOUS
  <2> HIDE DEF Step
  <2>5. s = [V \in SUBSET U |-> s[V]] OBVIOUS
  <2> HIDE DEF s
  <2>6. \A V \in SUBSET U : s[V] = IF V = {} THEN 0 ELSE c[Pick(V)] + s[V \ {Pick(V)}]
    BY <2>3, <2>4
  <2>7. Tallies(s, c, U) BY <2>5, <2>6 DEF Tallies
  <2> QED BY <2>7
<1>4. \A U \in SUBSET S : U \in T
  <2> HIDE DEF T
  <2> QED BY <1>3, SmallerFirst
<1>5. \A U \in SUBSET S : \A V \in SUBSET U : \E s : Tallies(s, c, V) BY <1>4
<1>6. \A U \in SUBSET S : Tally(c, U) = Sol(U)[U] BY TallyIsChosen DEF Sol
<1>7. \A U \in SUBSET S : Tally(c, U) = Step(U)
  <2> HIDE DEF Step
  <2> QED BY <1>2, <1>5, <1>6
<1> DEFINE t == [U \in SUBSET S |-> Tally(c, U)]
<1>8. \A U \in SUBSET S : U # {} => U \ {Pick(U)} \in SUBSET S OBVIOUS
<1>9. \A U \in SUBSET S : U # {} => Sol(U \ {Pick(U)})[U \ {Pick(U)}] = t[U \ {Pick(U)}]
  BY <1>6, <1>8
<1>10. \A U \in SUBSET S : t[U] = IF U = {} THEN 0 ELSE c[Pick(U)] + t[U \ {Pick(U)}]
  BY <1>7, <1>9
<1>11. t = [U \in SUBSET S |-> t[U]] OBVIOUS
<1> HIDE DEF t
<1>12. t = [U \in SUBSET S |-> IF U = {} THEN 0 ELSE c[Pick(U)] + t[U \ {Pick(U)}]]
  BY <1>10, <1>11
<1>13. Tallies(t, c, S) BY <1>12 DEF Tallies
<1> QED BY <1>13 DEF t

LEMMA TallySteps ==
  ASSUME NEW c, NEW S, IsFiniteSet(S)
  PROVE  Tally(c, S) = IF S = {} THEN 0 ELSE c[Pick(S)] + Tally(c, S \ {Pick(S)})
<1> DEFINE t == [U \in SUBSET S |-> Tally(c, U)]
<1>1. Tallies(t, c, S) BY TalliesExist
<1>2. S \in SUBSET S /\ S \ {Pick(S)} \in SUBSET S OBVIOUS
<1>3. t[S] = Tally(c, S) /\ t[S \ {Pick(S)}] = Tally(c, S \ {Pick(S)}) BY <1>2
<1> HIDE DEF t
<1>4. t[S] = IF S = {} THEN 0 ELSE c[Pick(S)] + t[S \ {Pick(S)}] BY <1>1, <1>2, TalliesSay
<1> QED BY <1>3, <1>4

LEMMA TallyType ==
  ASSUME NEW c, NEW S, IsFiniteSet(S), \A h \in S : c[h] \in Int
  PROVE  Tally(c, S) \in Int
<1> DEFINE T == {U \in SUBSET S : Tally(c, U) \in Int}
<1>1. ASSUME NEW U \in SUBSET S, \A V \in SUBSET U : V # U => V \in T PROVE U \in T
  <2>1. IsFiniteSet(U) BY FS_Subset
  <2>2. Tally(c, U) = IF U = {} THEN 0 ELSE c[Pick(U)] + Tally(c, U \ {Pick(U)})
    BY <2>1, TallySteps
  <2>3. CASE U = {} BY <2>2, <2>3
  <2>4. CASE U # {}
    <3>1. Pick(U) \in U BY <2>4 DEF Pick
    <3>2. U \ {Pick(U)} \in T BY <1>1, <3>1
    <3> QED BY <2>2, <2>4, <3>1, <3>2
  <2> QED BY <2>3, <2>4
<1> HIDE DEF T
<1>2. S \in T BY <1>1, SmallerFirst
<1> QED BY <1>2 DEF T

LEMMA TallyAdds ==
  ASSUME NEW c, NEW S, IsFiniteSet(S), \A h \in S : c[h] \in Int
  PROVE  \A x \in S : Tally(c, S) = c[x] + Tally(c, S \ {x})
<1> DEFINE T == {U \in SUBSET S : \A x \in U : Tally(c, U) = c[x] + Tally(c, U \ {x})}
<1>1. ASSUME NEW U \in SUBSET S, \A V \in SUBSET U : V # U => V \in T PROVE U \in T
  <2>1. SUFFICES ASSUME NEW x \in U PROVE Tally(c, U) = c[x] + Tally(c, U \ {x}) OBVIOUS
  <2>2. IsFiniteSet(U) BY FS_Subset
  <2>3. PICK y : y = Pick(U) OBVIOUS
  <2>4. y \in U BY <2>3 DEF Pick
  <2>5. Tally(c, U) = c[y] + Tally(c, U \ {y}) BY <2>2, <2>3, TallySteps
  <2>6. CASE y = x BY <2>5, <2>6
  <2>7. CASE y # x
    <3>1. U \ {x} \in T /\ U \ {y} \in T BY <1>1, <2>4
    <3>2. y \in U \ {x} /\ x \in U \ {y} BY <2>4, <2>7
    <3>3. (U \ {x}) \ {y} = (U \ {y}) \ {x} OBVIOUS
    <3>4. PICK W : W = (U \ {x}) \ {y} OBVIOUS
    <3>5. Tally(c, U \ {x}) = c[y] + Tally(c, W) BY <3>1, <3>2, <3>4
    <3>6. Tally(c, U \ {y}) = c[x] + Tally(c, W) BY <3>1, <3>2, <3>3, <3>4
    <3>7. W \in SUBSET S BY <3>4
    <3>8. Tally(c, W) \in Int /\ c[x] \in Int /\ c[y] \in Int
      <4>1. IsFiniteSet(W) /\ \A h \in W : c[h] \in Int BY <3>7, FS_Subset
      <4> QED BY <2>4, <4>1, TallyType
    <3>9. PICK a, b, w \in Int : a = c[x] /\ b = c[y] /\ w = Tally(c, W) BY <3>8
    <3>10. b + (a + w) = a + (b + w) OBVIOUS
    <3> QED BY <2>5, <3>5, <3>6, <3>9, <3>10
  <2> QED BY <2>6, <2>7
<1> HIDE DEF T
<1>2. S \in T BY <1>1, SmallerFirst
<1> QED BY <1>2 DEF T

LEMMA TallyUnion ==
  ASSUME NEW c, NEW A, NEW B, IsFiniteSet(A), IsFiniteSet(B), A \cap B = {},
         \A h \in A \cup B : c[h] \in Int
  PROVE  Tally(c, A \cup B) = Tally(c, A) + Tally(c, B)
<1> DEFINE T == {U \in SUBSET B : Tally(c, A \cup U) = Tally(c, A) + Tally(c, U)}
<1>1. ASSUME NEW U \in SUBSET B, \A V \in SUBSET U : V # U => V \in T PROVE U \in T
  <2>1. IsFiniteSet(U) /\ IsFiniteSet(A \cup U) BY FS_Subset, FS_Union
  <2>2. \A h \in A \cup U : c[h] \in Int OBVIOUS
  <2>3. Tally(c, A) \in Int BY TallyType
  <2>4. CASE U = {}
    <3>1. A \cup U = A /\ Tally(c, U) = 0 BY <2>1, <2>4, TallySteps
    <3> QED BY <2>3, <3>1
  <2>5. CASE U # {}
    <3>1. PICK x \in U : TRUE BY <2>5
    <3>2. U \ {x} \in T BY <1>1
    <3>3. (A \cup U) \ {x} = A \cup (U \ {x}) OBVIOUS
    <3>4. Tally(c, A \cup U) = c[x] + Tally(c, (A \cup U) \ {x}) BY <2>1, <2>2, TallyAdds
    <3>5. Tally(c, U) = c[x] + Tally(c, U \ {x}) BY <2>1, <2>2, TallyAdds
    <3>6. Tally(c, U \ {x}) \in Int
      <4>1. IsFiniteSet(U \ {x}) /\ \A h \in U \ {x} : c[h] \in Int
        BY <2>1, FS_Subset
      <4> QED BY <4>1, TallyType
    <3>7. PICK a, b, w \in Int : a = Tally(c, A) /\ b = c[x] /\ w = Tally(c, U \ {x})
      BY <2>3, <3>6
    <3>8. Tally(c, A \cup (U \ {x})) = a + w BY <3>2, <3>7
    <3>9. b + (a + w) = a + (b + w) OBVIOUS
    <3> QED BY <3>3, <3>4, <3>5, <3>7, <3>8, <3>9
  <2> QED BY <2>4, <2>5
<1> HIDE DEF T
<1>2. B \in T BY <1>1, SmallerFirst
<1> QED BY <1>2 DEF T

-----------------------------------------------------------------------------
(* What a finding becomes *)

Merged(d, f) == Migratable(d, f) /\ \E x \in Variants(d, f) : Mergeable(d, x)

LEMMA KeptFindings ==
  ASSUME NEW o
  PROVE  Promoted(o).findings = {Canonical(o, f) : f \in o.findings}
BY DEF Promoted

LEMMA KeptReviews ==
  ASSUME NEW o
  PROVE  Promoted(o).review = o.review /\ Promoted(o).noted = o.noted
BY DEF Promoted

LEMMA KeptRows ==
  ASSUME NEW o, NEW n \in Relations
  PROVE  Promoted(o).rel[n] = {<<Canonical(o, r[1]), r[2]>> : r \in o.rel[n]}
BY DEF Promoted

LEMMA NewCount ==
  ASSUME NEW o, NEW f \in Findings
  PROVE  Promoted(o).count[f] =
            IF f \in Promoted(o).findings THEN Occurrences(o, f) ELSE o.count[f]
BY DEF Promoted

LEMMA NewPrint ==
  ASSUME NEW o, NEW f \in Findings
  PROVE  Promoted(o).print[f] =
            IF \E x \in Variants(o, f) : Mergeable(o, x) /\ f \in Group(o, x)
            THEN CHOOSE x \in Variants(o, f) : TRUE ELSE o.print[f]
BY DEF Promoted

LEMMA FindingsAreFinite ==
  ASSUME NEW o, Keyed(o), NEW S \in SUBSET o.findings
  PROVE  S \in SUBSET Nat /\ IsFiniteSet(S)
BY FindingsAssumption, FS_Subset DEF Keyed

LEMMA VariantIsOne ==
  ASSUME NEW o, Keyed(o), NEW f \in o.findings, Migratable(o, f)
  PROVE  \E x : Variants(o, f) = {x}
<1> DEFINE S == {r \in o.rel["links"] : r[1] = f}
           V == Variants(o, f)
           g == [r \in S |-> IdentityOf(r[2])]
<1>1. IsFiniteSet(S)
  <2>1. "links" \in Relations BY DEF Relations
  <2>2. IsFiniteSet(o.rel["links"]) BY <2>1 DEF Keyed
  <2> QED BY <2>2, FS_Subset
<1>2. V = {IdentityOf(r[2]) : r \in S} BY DEF Variants, Of
<1>3. g \in Surjection(S, V) BY <1>2 DEF Surjection
<1>4. IsFiniteSet(V)
  <2> HIDE DEF S, V, g
  <2> QED BY <1>1, <1>3, FS_Surjection
<1>5. Cardinality(V) = 1 BY DEF Migratable
<1> HIDE DEF V
<1>6. \E x : V = {x} BY <1>4, <1>5, FS_Singleton
<1> QED BY <1>6 DEF V

LEMMA Alone ==
  ASSUME NEW o, NEW f, ~Merged(o, f)
  PROVE  Canonical(o, f) = f
BY DEF Merged, Canonical

LEMMA InGroup ==
  ASSUME NEW o, Keyed(o), NEW f \in o.findings, Merged(o, f)
  PROVE  \E x : /\ Variants(o, f) = {x} /\ Mergeable(o, x) /\ f \in Group(o, x)
                /\ Canonical(o, f) = Min(Group(o, x))
                /\ Canonical(o, f) \in Group(o, x)
<1>1. Migratable(o, f) BY DEF Merged
<1>2. PICK x : Variants(o, f) = {x} BY <1>1, VariantIsOne
<1>3. Mergeable(o, x) BY <1>2 DEF Merged
<1>4. f \in Group(o, x) BY <1>1, <1>2 DEF Group
<1>5. {h \in o.findings : Migratable(o, h) /\ Variants(o, h) = Variants(o, f)} = Group(o, x)
  BY <1>2 DEF Group
<1>6. Canonical(o, f) = Min(Group(o, x)) BY <1>5 DEF Canonical, Merged
<1>7. Group(o, x) \in SUBSET o.findings BY DEF Group
<1>8. Group(o, x) \in SUBSET Nat /\ IsFiniteSet(Group(o, x)) BY <1>7, FindingsAreFinite
<1>9. Min(Group(o, x)) \in Group(o, x) BY <1>4, <1>8, LeastOf
<1> QED BY <1>2, <1>3, <1>4, <1>6, <1>9

LEMMA OfGroup ==
  ASSUME NEW o, NEW x, NEW f \in Group(o, x), Mergeable(o, x)
  PROVE  f \in o.findings /\ Variants(o, f) = {x} /\ Merged(o, f)
BY DEF Group, Merged

LEMMA CanonicalKept ==
  ASSUME NEW o, Keyed(o), NEW f \in o.findings
  PROVE  /\ Canonical(o, f) \in o.findings
         /\ Canonical(o, Canonical(o, f)) = Canonical(o, f)
<1>1. CASE ~Merged(o, f) BY <1>1, Alone
<1>2. CASE Merged(o, f)
  <2>1. PICK x : /\ Variants(o, f) = {x} /\ Mergeable(o, x) /\ f \in Group(o, x)
                 /\ Canonical(o, f) = Min(Group(o, x)) /\ Canonical(o, f) \in Group(o, x)
    BY <1>2, InGroup
  <2>2. PICK c : c = Canonical(o, f) OBVIOUS
  <2>3. c \in o.findings /\ Variants(o, c) = {x} /\ Merged(o, c) BY <2>1, <2>2, OfGroup
  <2>4. PICK y : Variants(o, c) = {y} /\ Canonical(o, c) = Min(Group(o, y)) BY <2>3, InGroup
  <2>5. y = x BY <2>3, <2>4
  <2> QED BY <2>1, <2>2, <2>3, <2>4, <2>5
<1> QED BY <1>1, <1>2

(* Two findings become one row only as members of one mergeable group.     *)
LEMMA Together ==
  ASSUME NEW o, Keyed(o), NEW f \in o.findings, NEW h \in o.findings, f # h,
         Canonical(o, f) = Canonical(o, h)
  PROVE  \E x : /\ Mergeable(o, x) /\ f \in Group(o, x) /\ h \in Group(o, x)
                /\ Variants(o, f) = {x} /\ Variants(o, h) = {x}
<1>1. ASSUME NEW a \in o.findings, NEW b \in o.findings, a # b,
             Canonical(o, a) = Canonical(o, b), Merged(o, a)
      PROVE  Merged(o, b)
  <2>1. PICK x : Mergeable(o, x) /\ Canonical(o, a) \in Group(o, x) BY <1>1, InGroup
  <2>2. SUFFICES ASSUME ~Merged(o, b) PROVE FALSE OBVIOUS
  <2>3. b \in Group(o, x) BY <1>1, <2>1, <2>2, Alone
  <2> QED BY <2>1, <2>2, <2>3, OfGroup
<1>2. Merged(o, f) /\ Merged(o, h)
  <2>1. Merged(o, f) \/ Merged(o, h)
    <3>1. SUFFICES ASSUME ~Merged(o, f), ~Merged(o, h) PROVE FALSE OBVIOUS
    <3> QED BY <3>1, Alone
  <2> QED BY <1>1, <2>1
<1>3. PICK x : /\ Variants(o, f) = {x} /\ Mergeable(o, x) /\ f \in Group(o, x)
               /\ Canonical(o, f) \in Group(o, x)
  BY <1>2, InGroup
<1>4. PICK y : /\ Variants(o, h) = {y} /\ Mergeable(o, y) /\ h \in Group(o, y)
               /\ Canonical(o, h) \in Group(o, y)
  BY <1>2, InGroup
<1>5. {x} = {y}
  <2>1. Variants(o, Canonical(o, f)) = {x} BY <1>3, OfGroup
  <2>2. Variants(o, Canonical(o, h)) = {y} BY <1>4, OfGroup
  <2> QED BY <2>1, <2>2
<1>6. x = y BY <1>5
<1> QED BY <1>3, <1>4, <1>6

(* Members of a mergeable group of two differ in nothing that was decided. *)
LEMMA NothingBetween ==
  ASSUME NEW o, Keyed(o), NEW x, Mergeable(o, x),
         NEW f \in Group(o, x), NEW h \in Group(o, x), f # h
  PROVE  /\ o.review[f] = o.review[h] /\ ~o.noted[f] /\ ~o.noted[h]
         /\ Of(o.rel["decisions"], f) \cap Of(o.rel["decisions"], h) = {}
         /\ Of(o.rel["links"], f) \cap Of(o.rel["links"], h) = {}
<1>1. SameReview(o, Group(o, x)) BY DEF Mergeable
<1>2. Cardinality(Group(o, x)) > 1
  <2>1. Group(o, x) \in SUBSET o.findings BY DEF Group
  <2>2. IsFiniteSet(Group(o, x)) BY <2>1, FindingsAreFinite
  <2>3. {f} \cup {h} \in SUBSET Group(o, x) OBVIOUS
  <2>4. Cardinality({f} \cup {h}) = 2
    <3>1. IsFiniteSet({f}) /\ Cardinality({f}) = 1 BY FS_Singleton
    <3> QED BY <3>1, FS_AddElement
  <2>5. Cardinality({f} \cup {h}) <= Cardinality(Group(o, x)) BY <2>2, <2>3, FS_Subset
  <2>6. Cardinality(Group(o, x)) \in Nat BY <2>2, FS_CardinalityType
  <2> QED BY <2>4, <2>5, <2>6
<1>3. ~SharedAuditLinks(o, Group(o, x)) BY <1>2 DEF Mergeable
<1>4. o.review[f] = o.review[h] /\ ~o.noted[f] /\ ~o.noted[h] BY <1>1 DEF SameReview
<1> QED BY <1>3, <1>4 DEF SharedAuditLinks

-----------------------------------------------------------------------------
(* What v5 merges loses nothing *)

LEMMA FiniteImage ==
  ASSUME NEW o, NEW R, IsFiniteSet(R), R \subseteq o.findings \X {row[2] : row \in R}
  PROVE  IsFiniteSet({<<Canonical(o, r[1]), r[2]>> : r \in R})
<1> DEFINE I == {<<Canonical(o, r[1]), r[2]>> : r \in R}
           g == [r \in R |-> <<Canonical(o, r[1]), r[2]>>]
<1>1. g \in Surjection(R, I) BY DEF Surjection
<1> HIDE DEF I, g
<1>2. IsFiniteSet(I) BY <1>1, FS_Surjection
<1> QED BY <1>2 DEF I

(* No two rows of an audited table become one.                             *)
LEMMA RowsStayApart ==
  ASSUME NEW o, Keyed(o), NEW n \in Relations \ {"refs"},
         NEW p \in o.rel[n], NEW q \in o.rel[n],
         Canonical(o, p[1]) = Canonical(o, q[1]), p[2] = q[2]
  PROVE  p = q
<1>1. o.rel[n] \subseteq o.findings \X {row[2] : row \in o.rel[n]} BY DEF Keyed
<1>2. /\ p = <<p[1], p[2]>> /\ q = <<q[1], q[2]>>
      /\ p[1] \in o.findings /\ q[1] \in o.findings
  BY <1>1
<1>3. CASE p[1] = q[1] BY <1>2, <1>3
<1>4. CASE n = "events" BY <1>4 DEF Keyed
<1>5. CASE p[1] # q[1] /\ n # "events"
  <2>1. PICK x : Mergeable(o, x) /\ p[1] \in Group(o, x) /\ q[1] \in Group(o, x)
    BY <1>2, <1>5, Together
  <2>2. n = "links" \/ n = "decisions" BY <1>5 DEF Relations
  <2>3. Of(o.rel[n], p[1]) \cap Of(o.rel[n], q[1]) = {}
    BY <1>5, <2>1, <2>2, NothingBetween
  <2>4. p[2] \in Of(o.rel[n], p[1]) /\ q[2] \in Of(o.rel[n], q[1]) BY DEF Of
  <2> QED BY <2>3, <2>4
<1> QED BY <1>3, <1>4, <1>5

LEMMA RowsCounted ==
  ASSUME NEW o, Keyed(o), NEW n \in Relations \ {"refs"}
  PROVE  Cardinality(Promoted(o).rel[n]) = Cardinality(o.rel[n])
<1> DEFINE R == o.rel[n]
           I == {<<Canonical(o, r[1]), r[2]>> : r \in R}
           g == [r \in R |-> <<Canonical(o, r[1]), r[2]>>]
<1>1. Promoted(o).rel[n] = I BY KeptRows
<1>2. IsFiniteSet(R) BY DEF Keyed
<1>3. g \in Surjection(R, I) BY DEF Surjection
<1>4. \A p, q \in R : g[p] = g[q] => p = q
  <2>1. SUFFICES ASSUME NEW p \in R, NEW q \in R, g[p] = g[q] PROVE p = q OBVIOUS
  <2>2. Canonical(o, p[1]) = Canonical(o, q[1]) /\ p[2] = q[2] BY <2>1
  <2> QED BY <2>2, RowsStayApart
<1>5. g \in Injection(R, I)
  <2>1. g \in [R -> I] BY <1>3 DEF Surjection
  <2> HIDE DEF g, I, R
  <2> QED BY <1>4, <2>1 DEF Injection, IsInjective
<1> HIDE DEF g, I, R
<1>6. Cardinality(I) = Cardinality(R) BY <1>2, <1>3, <1>5, FS_Surjection
<1> QED BY <1>1, <1>6 DEF R

LEMMA FindsHeir ==
  ASSUME NEW o, Keyed(o), NEW f \in o.findings
  PROVE  \E c \in Promoted(o).findings : Heir(o, Promoted(o), f, c)
<1> DEFINE d == Promoted(o)
<1>1. PICK c : c = Canonical(o, f) OBVIOUS
<1>2. c \in o.findings /\ Canonical(o, c) = c BY <1>1, CanonicalKept
<1>3. c \in d.findings BY <1>1, KeptFindings
<1>4. d.review = o.review /\ d.noted = o.noted BY KeptReviews
<1>5. \A n \in Relations : Of(o.rel[n], f) \subseteq Of(d.rel[n], c)
  <2>1. SUFFICES ASSUME NEW n \in Relations, NEW v \in Of(o.rel[n], f)
                 PROVE v \in Of(d.rel[n], c)
    OBVIOUS
  <2>2. PICK r \in o.rel[n] : r[1] = f /\ r[2] = v BY <2>1 DEF Of
  <2>3. d.rel[n] = {<<Canonical(o, q[1]), q[2]>> : q \in o.rel[n]} BY KeptRows
  <2>4. <<c, v>> \in d.rel[n] BY <1>1, <2>2, <2>3
  <2>5. \E q \in {q \in d.rel[n] : q[1] = c} : q[2] = v BY <2>4
  <2> QED BY <2>5 DEF Of
<1>6. CASE c = f
  <2>1. Heir(o, d, f, c) BY <1>4, <1>5, <1>6 DEF Heir
  <2> QED BY <1>3, <2>1
<1>7. CASE c # f
  <2>1. PICK x : Mergeable(o, x) /\ f \in Group(o, x) /\ c \in Group(o, x)
    BY <1>1, <1>2, <1>7, Together
  <2>2. o.review[f] = o.review[c] /\ ~o.noted[f] /\ ~o.noted[c]
    BY <1>7, <2>1, NothingBetween
  <2>3. f \notin d.findings
    <3>1. SUFFICES ASSUME f \in d.findings PROVE FALSE OBVIOUS
    <3>2. PICK h \in o.findings : f = Canonical(o, h) BY <3>1, KeptFindings
    <3>3. Canonical(o, f) = f BY <3>2, CanonicalKept
    <3> QED BY <1>1, <1>7, <3>3
  <2>4. Heir(o, d, f, c) BY <1>4, <1>5, <2>2, <2>3 DEF Heir
  <2> QED BY <1>3, <2>4
<1> QED BY <1>6, <1>7

LEMMA OccurrencesAdd ==
  ASSUME NEW o, Keyed(o)
  PROVE  Tally(Promoted(o).count, Promoted(o).findings) = Tally(o.count, o.findings)
<1> DEFINE kept == Promoted(o).findings
           count == Promoted(o).count
           From(K) == {h \in o.findings : Canonical(o, h) \in K}
           T == {K \in SUBSET kept : Tally(count, K) = Tally(o.count, From(K))}
<1>1. kept = {Canonical(o, f) : f \in o.findings} BY KeptFindings
<1>2. kept \in SUBSET o.findings BY <1>1, CanonicalKept
<1>3. IsFiniteSet(kept) BY <1>2, FindingsAreFinite
<1>4. \A f \in o.findings : o.count[f] \in Int BY DEF Keyed
<1>5. ASSUME NEW S \in SUBSET o.findings
      PROVE  IsFiniteSet(S) /\ Tally(o.count, S) \in Int /\ \A h \in S : o.count[h] \in Int
  <2>1. IsFiniteSet(S) BY FindingsAreFinite
  <2> QED BY <1>4, <2>1, TallyType
<1>6. \A k \in kept : count[k] = Tally(o.count, From({k}))
  <2>1. SUFFICES ASSUME NEW k \in kept PROVE count[k] = Tally(o.count, From({k})) OBVIOUS
  <2>2. k \in Findings BY <1>2 DEF Keyed
  <2>3. count[k] = Occurrences(o, k) BY <2>2, NewCount
  <2>4. Absorbed(o, k) = From({k}) BY DEF Absorbed
  <2>5. Occurrences(o, k) = Tally(o.count, Absorbed(o, k)) BY DEF Occurrences, Tally
  <2> QED BY <2>3, <2>4, <2>5
<1>7. \A k \in kept : count[k] \in Int
  <2>1. \A k \in kept : From({k}) \in SUBSET o.findings OBVIOUS
  <2> HIDE DEF From, count, kept
  <2> QED BY <1>5, <1>6, <2>1
<1>8. ASSUME NEW K \in SUBSET kept, \A V \in SUBSET K : V # K => V \in T PROVE K \in T
  <2>1. IsFiniteSet(K) BY <1>3, FS_Subset
  <2>2. CASE K = {}
    <3>1. From(K) = {} BY <2>2
    <3>2. Tally(count, {}) = 0 /\ Tally(o.count, {}) = 0 BY FS_EmptySet, TallySteps
    <3> QED BY <2>2, <3>1, <3>2
  <2>3. CASE K # {}
    <3>1. PICK k \in K : TRUE BY <2>3
    <3>2. K \ {k} \in T BY <1>8
    <3>3. /\ From(K) = From(K \ {k}) \cup From({k}) /\ From(K \ {k}) \cap From({k}) = {}
          /\ From(K \ {k}) \in SUBSET o.findings /\ From({k}) \in SUBSET o.findings
          /\ From(K \ {k}) \cup From({k}) \in SUBSET o.findings
      BY <3>1
    <3>4. Tally(count, K \ {k}) = Tally(o.count, From(K \ {k})) BY <3>2
    <3> HIDE DEF From, count, kept, T
    <3>5. Tally(o.count, From(K)) = Tally(o.count, From(K \ {k})) + Tally(o.count, From({k}))
      <4>1. PICK A, B : A = From(K \ {k}) /\ B = From({k}) OBVIOUS
      <4>2. /\ A \in SUBSET o.findings /\ B \in SUBSET o.findings /\ A \cap B = {}
            /\ A \cup B \in SUBSET o.findings /\ From(K) = A \cup B
        BY <3>3, <4>1
      <4>3. /\ IsFiniteSet(A) /\ IsFiniteSet(B) /\ \A h \in A \cup B : o.count[h] \in Int
        BY <1>5, <4>2
      <4>4. Tally(o.count, A \cup B) = Tally(o.count, A) + Tally(o.count, B)
        BY <4>2, <4>3, TallyUnion
      <4> QED BY <4>1, <4>2, <4>4
    <3>6. Tally(count, K) = count[k] + Tally(count, K \ {k}) BY <1>7, <2>1, TallyAdds
    <3>7. PICK a, b \in Int : a = Tally(o.count, From(K \ {k})) /\ b = Tally(o.count, From({k}))
      BY <1>5, <3>3
    <3>8. a + b = b + a OBVIOUS
    <3>9. Tally(count, K) = Tally(o.count, From(K)) BY <1>6, <3>4, <3>5, <3>6, <3>7, <3>8
    <3> QED BY <3>9 DEF T
  <2> QED BY <2>2, <2>3
<1>9. kept \in T
  <2> HIDE DEF T, kept
  <2> QED BY <1>3, <1>8, SmallerFirst
<1>10. From(kept) = o.findings BY <1>1
<1> QED BY <1>9, <1>10

(* Verifications of a row that was made of many are all of its gap.        *)
LEMMA OneGap ==
  ASSUME NEW o, Keyed(o), NEW f \in Promoted(o).findings, NEW x, Mergeable(o, x), f \in Group(o, x)
  PROVE  \A v \in Of(Promoted(o).rel["links"], f) : IdentityOf(v) = x
<1>1. "links" \in Relations BY DEF Relations
<1>2. SUFFICES ASSUME NEW v \in Of(Promoted(o).rel["links"], f) PROVE IdentityOf(v) = x OBVIOUS
<1>3. Promoted(o).rel["links"] = {<<Canonical(o, q[1]), q[2]>> : q \in o.rel["links"]}
  BY <1>1, KeptRows
<1>4. PICK r \in Promoted(o).rel["links"] : r[1] = f /\ r[2] = v BY <1>2 DEF Of
<1>5. PICK q \in o.rel["links"] : Canonical(o, q[1]) = f /\ q[2] = v BY <1>3, <1>4
<1>6. q[1] \in o.findings
  <2>1. o.rel["links"] \subseteq o.findings \X {row[2] : row \in o.rel["links"]}
    BY <1>1 DEF Keyed
  <2> QED BY <2>1
<1>7. f \in o.findings /\ Variants(o, f) = {x} BY OfGroup
<1>8. Canonical(o, f) = f BY <1>5, <1>6, CanonicalKept
<1>9. Variants(o, q[1]) = {x}
  <2>1. CASE q[1] = f BY <1>7, <2>1
  <2>2. CASE q[1] # f
    <3>1. \E y : Variants(o, q[1]) = {y} /\ Variants(o, f) = {y}
      BY <1>5, <1>6, <1>7, <1>8, <2>2, Together
    <3> QED BY <1>7, <3>1
  <2> QED BY <2>1, <2>2
<1>10. v \in Of(o.rel["links"], q[1]) BY <1>5 DEF Of
<1>11. IdentityOf(v) \in Variants(o, q[1]) BY <1>10 DEF Variants
<1> QED BY <1>9, <1>11

LEMMA ClaimsItsGap ==
  ASSUME NEW o, Keyed(o), NEW f \in Promoted(o).findings, Promoted(o).print[f] # o.print[f]
  PROVE  \A v \in Of(Promoted(o).rel["links"], f) : IdentityOf(v) = Promoted(o).print[f]
<1>1. f \in o.findings /\ f \in Findings
  <2>1. f \in o.findings BY KeptFindings, CanonicalKept
  <2> QED BY <2>1 DEF Keyed
<1>2. Promoted(o).print[f] = IF \E x \in Variants(o, f) : Mergeable(o, x) /\ f \in Group(o, x)
                             THEN CHOOSE x \in Variants(o, f) : TRUE ELSE o.print[f]
  BY <1>1, NewPrint
<1>3. PICK x \in Variants(o, f) : Mergeable(o, x) /\ f \in Group(o, x) BY <1>2
<1>4. Variants(o, f) = {x} BY <1>3, OfGroup
<1>5. Promoted(o).print[f] = x BY <1>2, <1>3, <1>4
<1> QED BY <1>3, <1>5, OneGap

LEMMA PromotionLosesNothing ==
  ASSUME NEW o, Keyed(o), CanPromote(o)
  PROVE  NothingLost(o, Promoted(o))
<1>1. Promoted(o).findings \subseteq o.findings BY KeptFindings, CanonicalKept
<1>2. UniquePrints(Promoted(o)) BY DEF CanPromote
<1>3. MapThenSumSet(LAMBDA f : Promoted(o).count[f], Promoted(o).findings)
        = MapThenSumSet(LAMBDA f : o.count[f], o.findings)
  BY OccurrencesAdd DEF Tally
<1> QED BY <1>1, <1>2, <1>3, FindsHeir, RowsCounted, ClaimsItsGap DEF NothingLost

LEMMA NothingChanged ==
  ASSUME NEW o, UniquePrints(o)
  PROVE  NothingLost(o, o)
BY DEF NothingLost, Heir

-----------------------------------------------------------------------------
(* An instance that was late may apply the step to a file that has it: it  *)
(* finds nothing left to merge.                                            *)

LEMMA KeptIsItself ==
  ASSUME NEW o, Keyed(o), NEW f \in Promoted(o).findings
  PROVE  f \in o.findings /\ Canonical(o, f) = f
BY KeptFindings, CanonicalKept

LEMMA SameOf ==
  ASSUME NEW o, Keyed(o), NEW f \in Promoted(o).findings, ~Merged(o, f), NEW n \in Relations
  PROVE  Of(Promoted(o).rel[n], f) = Of(o.rel[n], f)
<1>1. f \in o.findings /\ Canonical(o, f) = f BY KeptIsItself
<1>2. Promoted(o).rel[n] = {<<Canonical(o, q[1]), q[2]>> : q \in o.rel[n]} BY KeptRows
<1>3. o.rel[n] \subseteq o.findings \X {row[2] : row \in o.rel[n]} BY DEF Keyed
<1>4. ASSUME NEW q \in o.rel[n] PROVE Canonical(o, q[1]) = f <=> q[1] = f
  <2>1. q[1] \in o.findings BY <1>3
  <2>2. ASSUME Canonical(o, q[1]) = f, q[1] # f PROVE FALSE
    <3>1. \E x : Mergeable(o, x) /\ f \in Group(o, x) BY <1>1, <2>1, <2>2, Together
    <3> QED BY <3>1, OfGroup
  <2> QED BY <1>1, <2>2
<1>5. \A v : v \in Of(Promoted(o).rel[n], f) <=> \E q \in o.rel[n] : Canonical(o, q[1]) = f /\ q[2] = v
  <2>1. \A v : v \in Of(Promoted(o).rel[n], f) <=>
                \E r \in Promoted(o).rel[n] : r[1] = f /\ r[2] = v
    BY DEF Of
  <2>2. ASSUME NEW v, NEW q \in o.rel[n], Canonical(o, q[1]) = f, q[2] = v
        PROVE  \E r \in Promoted(o).rel[n] : r[1] = f /\ r[2] = v
    <3>1. <<f, v>> \in Promoted(o).rel[n] BY <1>2, <2>2
    <3> QED BY <3>1
  <2>3. ASSUME NEW v, NEW r \in Promoted(o).rel[n], r[1] = f, r[2] = v
        PROVE  \E q \in o.rel[n] : Canonical(o, q[1]) = f /\ q[2] = v
    <3>1. PICK q \in o.rel[n] : r = <<Canonical(o, q[1]), q[2]>> BY <1>2
    <3> QED BY <2>3, <3>1
  <2> QED BY <2>1, <2>2, <2>3
<1>6. \A v : v \in Of(o.rel[n], f) <=> \E q \in o.rel[n] : q[1] = f /\ q[2] = v BY DEF Of
<1>7. \A v : v \in Of(Promoted(o).rel[n], f) <=> v \in Of(o.rel[n], f) BY <1>4, <1>5, <1>6
<1> QED BY <1>7

LEMMA SameVariants ==
  ASSUME NEW o, Keyed(o), NEW f \in Promoted(o).findings
  PROVE  Variants(Promoted(o), f) = Variants(o, f)
<1>0. "links" \in Relations BY DEF Relations
<1>1. CASE ~Merged(o, f) BY <1>0, <1>1, SameOf DEF Variants
<1>2. CASE Merged(o, f)
  <2>1. f \in o.findings /\ Canonical(o, f) = f BY KeptIsItself
  <2>2. PICK x : Variants(o, f) = {x} /\ Mergeable(o, x) /\ f \in Group(o, x)
    BY <1>2, <2>1, InGroup
  <2>3. \A v \in Of(Promoted(o).rel["links"], f) : IdentityOf(v) = x BY <2>2, OneGap
  <2>4. PICK v \in Of(o.rel["links"], f) : IdentityOf(v) = x BY <2>2 DEF Variants
  <2>5. PICK r \in o.rel["links"] : r[1] = f /\ r[2] = v BY <2>4 DEF Of
  <2>6. <<f, v>> \in Promoted(o).rel["links"] BY <1>0, <2>1, <2>5, KeptRows
  <2>7. v \in Of(Promoted(o).rel["links"], f)
    <3>1. \E q \in {q \in Promoted(o).rel["links"] : q[1] = f} : q[2] = v BY <2>6
    <3> QED BY <3>1 DEF Of
  <2>8. Variants(Promoted(o), f) = {x} BY <2>3, <2>7 DEF Variants
  <2> QED BY <2>2, <2>8
<1> QED BY <1>1, <1>2

LEMMA MembersOf ==
  ASSUME NEW o, Keyed(o), NEW x
  PROVE  Group(Promoted(o), x) = Group(o, x) \cap Promoted(o).findings
<1>1. \A f \in Promoted(o).findings :
        f \in o.findings /\ Variants(Promoted(o), f) = Variants(o, f)
  BY SameVariants, KeptIsItself
<1> QED BY <1>1 DEF Group, Migratable

(* What was held apart still is.                                           *)
LEMMA StaysApart ==
  ASSUME NEW o, Keyed(o), NEW x, Mergeable(Promoted(o), x)
  PROVE  Mergeable(o, x)
<1> DEFINE d == Promoted(o)
<1>1. SUFFICES ASSUME ~Mergeable(o, x) PROVE FALSE OBVIOUS
<1>2. \A g \in Group(o, x) : g \in o.findings /\ Variants(o, g) = {x} BY DEF Group
<1>3. \A g \in Group(o, x) : ~Merged(o, g) BY <1>1, <1>2 DEF Merged
<1>4. \A g \in Group(o, x) : g \in d.findings
  <2>1. SUFFICES ASSUME NEW g \in Group(o, x) PROVE g \in d.findings OBVIOUS
  <2>2. g \in o.findings /\ Canonical(o, g) = g BY <1>2, <1>3, Alone
  <2> QED BY <2>2, KeptFindings
<1>5. Group(d, x) = Group(o, x) BY <1>4, MembersOf
<1>6. \A g \in Group(o, x) : /\ Of(d.rel["links"], g) = Of(o.rel["links"], g)
                             /\ Of(d.rel["decisions"], g) = Of(o.rel["decisions"], g)
  <2>1. "links" \in Relations /\ "decisions" \in Relations BY DEF Relations
  <2> QED BY <1>3, <1>4, <2>1, SameOf
<1>7. SharedAuditLinks(d, Group(o, x)) <=> SharedAuditLinks(o, Group(o, x))
  BY <1>6 DEF SharedAuditLinks
<1>8. SameReview(d, Group(o, x)) <=> SameReview(o, Group(o, x))
  BY KeptReviews DEF SameReview
<1> QED BY <1>1, <1>5, <1>7, <1>8 DEF Mergeable

(* What is merged is merged.                                               *)
LEMMA MergedOnce ==
  ASSUME NEW o, Keyed(o), NEW f \in Promoted(o).findings
  PROVE  Canonical(Promoted(o), f) = f
<1> DEFINE d == Promoted(o)
<1>1. CASE ~Merged(d, f) BY <1>1, Alone
<1>2. CASE Merged(d, f)
  <2>1. f \in o.findings /\ Canonical(o, f) = f BY KeptIsItself
  <2>2. Variants(d, f) = Variants(o, f) BY SameVariants
  <2>3. Migratable(o, f) BY <1>2, <2>2 DEF Merged, Migratable
  <2>4. PICK x : Variants(o, f) = {x} BY <2>1, <2>3, VariantIsOne
  <2>5. Mergeable(d, x) BY <1>2, <2>2, <2>4 DEF Merged
  <2>6. f \in Group(o, x) BY <2>1, <2>3, <2>4 DEF Group
  <2>7. Mergeable(o, x) BY <2>5, StaysApart
  <2>8. Merged(o, f) BY <2>6, <2>7, OfGroup
  <2>9. f = Min(Group(o, x))
    <3>1. PICK y : Variants(o, f) = {y} /\ Canonical(o, f) = Min(Group(o, y))
      BY <2>1, <2>8, InGroup
    <3>2. x = y BY <2>4, <3>1
    <3> QED BY <2>1, <3>1, <3>2
  <2>10. \A h \in Group(d, x) : h = f
    <3>1. SUFFICES ASSUME NEW h \in Group(d, x) PROVE h = f OBVIOUS
    <3>2. h \in Group(o, x) /\ h \in d.findings BY MembersOf
    <3>3. h \in o.findings /\ Variants(o, h) = {x} /\ Merged(o, h) BY <2>7, <3>2, OfGroup
    <3>4. PICK y : Variants(o, h) = {y} /\ Canonical(o, h) = Min(Group(o, y))
      BY <3>3, InGroup
    <3>5. x = y BY <3>3, <3>4
    <3>6. Canonical(o, h) = h BY <3>2, KeptIsItself
    <3> QED BY <2>9, <3>4, <3>5, <3>6
  <2>11. {h \in d.findings : Migratable(d, h) /\ Variants(d, h) = Variants(d, f)} = {f}
    <3>1. {h \in d.findings : Migratable(d, h) /\ Variants(d, h) = Variants(d, f)} = Group(d, x)
      BY <2>2, <2>4 DEF Group
    <3>2. f \in Group(d, x) BY <2>6, MembersOf
    <3> QED BY <2>10, <3>1, <3>2
  <2>12. Canonical(d, f) = Min({f}) BY <1>2, <2>11 DEF Canonical, Merged
  <2>13. {f} \in SUBSET Nat /\ IsFiniteSet({f})
    <3>1. {f} \in SUBSET o.findings BY <2>1
    <3> QED BY <3>1, FindingsAreFinite
  <2>14. Min({f}) = f BY <2>13, LeastOf
  <2> QED BY <2>12, <2>14
<1> QED BY <1>1, <1>2

LEMMA PromotedTwice ==
  ASSUME NEW o, Keyed(o)
  PROVE  Promoted(Promoted(o)) = Promoted(o)
<1> DEFINE d == Promoted(o)
           e == Promoted(d)
<1>1. e.findings = d.findings
  <2>1. e.findings = {Canonical(d, f) : f \in d.findings} BY KeptFindings
  <2>2. \A f \in d.findings : Canonical(d, f) = f BY MergedOnce
  <2> HIDE DEF d, e
  <2> QED BY <2>1, <2>2
<1>2. e.review = d.review /\ e.noted = d.noted BY KeptReviews
<1>3. \A f \in Findings : e.count[f] = d.count[f]
  <2>1. SUFFICES ASSUME NEW f \in Findings PROVE e.count[f] = d.count[f] OBVIOUS
  <2>2. CASE f \notin d.findings BY <1>1, <2>2, NewCount
  <2>3. CASE f \in d.findings
    <3>1. e.count[f] = Occurrences(d, f) BY <1>1, <2>3, NewCount
    <3>2. Absorbed(d, f) = {f} BY <2>3, MergedOnce DEF Absorbed
    <3>3. Occurrences(d, f) = Tally(d.count, {f}) BY <3>2 DEF Occurrences, Tally
    <3>4. IsFiniteSet({f}) /\ Pick({f}) = f /\ {f} \ {f} = {} BY FS_Singleton DEF Pick
    <3>5. Tally(d.count, {f}) = d.count[f] + Tally(d.count, {}) BY <3>4, TallySteps
    <3>6. Tally(d.count, {}) = 0 BY FS_EmptySet, TallySteps
    <3>7. d.count[f] \in Int
      <4>1. Absorbed(o, f) \in SUBSET o.findings BY DEF Absorbed
      <4>2. IsFiniteSet(Absorbed(o, f)) BY <4>1, FindingsAreFinite
      <4>3. \A h \in Absorbed(o, f) : o.count[h] \in Int BY <4>1 DEF Keyed
      <4>4. Tally(o.count, Absorbed(o, f)) \in Int BY <4>2, <4>3, TallyType
      <4>5. Occurrences(o, f) = Tally(o.count, Absorbed(o, f)) BY DEF Occurrences, Tally
      <4> QED BY <2>3, <4>4, <4>5, NewCount
    <3> QED BY <3>1, <3>3, <3>5, <3>6, <3>7
  <2> QED BY <2>2, <2>3
<1>4. \A f \in Findings : e.print[f] = d.print[f]
  <2>1. SUFFICES ASSUME NEW f \in Findings,
                        NEW x \in Variants(d, f), Mergeable(d, x), f \in Group(d, x)
                 PROVE  e.print[f] = d.print[f]
    BY NewPrint
  <2>2. e.print[f] = CHOOSE y \in Variants(d, f) : TRUE BY <2>1, NewPrint
  <2>3. f \in d.findings /\ Variants(d, f) = {x} BY <2>1, OfGroup
  <2>4. e.print[f] = x BY <2>2, <2>3
  <2>5. Variants(o, f) = {x} /\ f \in Group(o, x) BY <2>1, <2>3, SameVariants, MembersOf
  <2>6. Mergeable(o, x) BY <2>1, StaysApart
  <2>7. d.print[f] = CHOOSE y \in Variants(o, f) : TRUE BY <2>5, <2>6, NewPrint
  <2> QED BY <2>4, <2>5, <2>7
<1>5. \A n \in Relations : e.rel[n] = d.rel[n]
  <2>1. SUFFICES ASSUME NEW n \in Relations PROVE e.rel[n] = d.rel[n] OBVIOUS
  <2>2. e.rel[n] = {<<Canonical(d, r[1]), r[2]>> : r \in d.rel[n]} BY KeptRows
  <2>3. \A r \in d.rel[n] : r = <<Canonical(d, r[1]), r[2]>>
    <3>1. SUFFICES ASSUME NEW r \in d.rel[n] PROVE r = <<Canonical(d, r[1]), r[2]>> OBVIOUS
    <3>2. d.rel[n] = {<<Canonical(o, q[1]), q[2]>> : q \in o.rel[n]} BY KeptRows
    <3>3. PICK q \in o.rel[n] : r = <<Canonical(o, q[1]), q[2]>> BY <3>2
    <3>4. q[1] \in o.findings
      <4>1. o.rel[n] \subseteq o.findings \X {row[2] : row \in o.rel[n]} BY DEF Keyed
      <4> QED BY <4>1
    <3>5. Canonical(o, q[1]) \in d.findings BY <3>4, KeptFindings
    <3>6. Canonical(d, Canonical(o, q[1])) = Canonical(o, q[1]) BY <3>5, MergedOnce
    <3> QED BY <3>3, <3>6
  <2>4. ASSUME NEW r PROVE r \in e.rel[n] <=> r \in d.rel[n]
    <3> HIDE DEF d, e
    <3> QED BY <2>2, <2>3
  <2>5. \A r : r \in e.rel[n] <=> r \in d.rel[n] BY <2>4
  <2>6. e.rel[n] = {r \in d.rel[n] : TRUE}
    <3> HIDE DEF d, e
    <3> QED BY <2>2, <2>3, <2>5
  <2> QED BY <2>6
<1>6. \A r : Promoted(r) =
        [findings |-> Promoted(r).findings, review |-> Promoted(r).review,
         noted |-> Promoted(r).noted, count |-> [f \in Findings |-> Promoted(r).count[f]],
         print |-> [f \in Findings |-> Promoted(r).print[f]],
         rel |-> [n \in Relations |-> Promoted(r).rel[n]]]
  <2>1. SUFFICES ASSUME NEW r
                 PROVE  Promoted(r) =
        [findings |-> Promoted(r).findings, review |-> Promoted(r).review,
         noted |-> Promoted(r).noted, count |-> [f \in Findings |-> Promoted(r).count[f]],
         print |-> [f \in Findings |-> Promoted(r).print[f]],
         rel |-> [n \in Relations |-> Promoted(r).rel[n]]]
    OBVIOUS
  <2> DEFINE K == {Canonical(r, f) : f \in r.findings}
             C == [f \in Findings |-> IF f \in K THEN Occurrences(r, f) ELSE r.count[f]]
             P == [f \in Findings |->
                      IF \E x \in Variants(r, f) : Mergeable(r, x) /\ f \in Group(r, x)
                      THEN CHOOSE x \in Variants(r, f) : TRUE ELSE r.print[f]]
             R == [n \in Relations |-> {<<Canonical(r, q[1]), q[2]>> : q \in r.rel[n]}]
  <2>2. Promoted(r) = [findings |-> K, review |-> r.review, noted |-> r.noted,
                       count |-> C, print |-> P, rel |-> R]
    BY DEF Promoted
  <2>3. C = [f \in Findings |-> C[f]] OBVIOUS
  <2>4. P = [f \in Findings |-> P[f]] OBVIOUS
  <2>5. R = [n \in Relations |-> R[n]] OBVIOUS
  <2> HIDE DEF K, C, P, R
  <2> QED BY <2>2, <2>3, <2>4, <2>5
<1> HIDE DEF d, e
<1>7. e = [findings |-> e.findings, review |-> e.review, noted |-> e.noted,
           count |-> [f \in Findings |-> e.count[f]], print |-> [f \in Findings |-> e.print[f]],
           rel |-> [n \in Relations |-> e.rel[n]]]
  BY <1>6 DEF e
<1>8. d = [findings |-> d.findings, review |-> d.review, noted |-> d.noted,
           count |-> [f \in Findings |-> d.count[f]], print |-> [f \in Findings |-> d.print[f]],
           rel |-> [n \in Relations |-> d.rel[n]]]
  BY <1>6 DEF d
<1>9. /\ [f \in Findings |-> e.count[f]] = [f \in Findings |-> d.count[f]]
      /\ [f \in Findings |-> e.print[f]] = [f \in Findings |-> d.print[f]]
      /\ [n \in Relations |-> e.rel[n]] = [n \in Relations |-> d.rel[n]]
  BY <1>3, <1>4, <1>5
<1>10. e = d BY <1>1, <1>2, <1>7, <1>8, <1>9
<1> QED BY <1>10 DEF e, d

-----------------------------------------------------------------------------
(* The rows are those of the start, or what v5 makes of them. *)

RowsAccount ==
    /\ original \in Released /\ Shape(db) /\ db.sound = original.sound
    /\ \/ db.rows = original.rows
       \/ /\ original.sound /\ CanPromote(original.rows)
          /\ db.rows = Promoted(original.rows)

LEMMA RowsStart == Init => RowsAccount
<1> SUFFICES ASSUME Init PROVE RowsAccount OBVIOUS
<1>1. db \in [version : 0 .. 5 + 1, layers : SUBSET (1 .. 4), sound : BOOLEAN,
              rows : {db.rows}, run : {db.run}, mission : {db.mission}]
  BY ReleasedAssumption DEF Init, Latest
<1>2. Shape(db) BY <1>1 DEF Shape
<1> QED BY <1>2 DEF Init, RowsAccount

LEMMA UpgradedRows ==
    ASSUME NEW d, NEW target
    PROVE  /\ Shape(Upgraded(d, target)) /\ Upgraded(d, target).sound = d.sound
           /\ Upgraded(d, target).rows = IF target = 5 THEN Promoted(d.rows) ELSE d.rows
<1> DEFINE L == IF target <= 4 THEN d.layers \cup {target} ELSE d.layers
           W == IF target = 5 THEN Promoted(d.rows) ELSE d.rows
           N == IF target = 4 THEN d.run ELSE d.mission
<1>1. Upgraded(d, target) = [version |-> target, layers |-> L, sound |-> d.sound, rows |-> W,
                             run |-> d.run, mission |-> N]
  BY DEF Upgraded
<1> HIDE DEF L, W, N
<1>2. /\ Shape(Upgraded(d, target)) /\ Upgraded(d, target).sound = d.sound
      /\ Upgraded(d, target).rows = W
  BY <1>1 DEF Shape
<1> QED BY <1>2 DEF W

LEMMA CommitRows ==
    ASSUME RowsAccount, NEW target \in Nat, Applicable(db, target),
           Valid(Upgraded(db, target), target), db' = Upgraded(db, target), original' = original
    PROVE  RowsAccount'
<1>1. Shape(db') /\ db'.sound = db.sound BY UpgradedRows
<1>2. db.sound BY UpgradedRows DEF Valid
<1>3. original.sound /\ Keyed(original.rows) BY <1>2, KeysAssumption DEF RowsAccount
<1>4. CASE target # 5
  <2>1. db'.rows = db.rows BY <1>4, UpgradedRows
  <2> QED BY <1>1, <2>1 DEF RowsAccount
<1>5. CASE target = 5
  <2>1. db'.rows = Promoted(db.rows) /\ CanPromote(db.rows) BY <1>5, UpgradedRows DEF Applicable
  <2>2. CASE db.rows = original.rows BY <1>1, <1>3, <2>1, <2>2 DEF RowsAccount
  <2>3. CASE CanPromote(original.rows) /\ db.rows = Promoted(original.rows)
    <3>1. db'.rows = Promoted(original.rows) BY <1>3, <2>1, <2>3, PromotedTwice
    <3> QED BY <1>1, <1>3, <2>3, <3>1 DEF RowsAccount
  <2> QED BY <2>2, <2>3 DEF RowsAccount
<1> QED BY <1>4, <1>5

LEMMA RowsKept == IInv /\ RowsAccount /\ [Next]_vars => RowsAccount'
<1> SUFFICES ASSUME IInv, RowsAccount, [Next]_vars PROVE RowsAccount' OBVIOUS
<1>1. ASSUME UNCHANGED <<db, original>> PROVE RowsAccount' BY <1>1 DEF RowsAccount, Shape
<1>2. ASSUME NEW i \in Instances, Apply(i) PROVE RowsAccount'
  <2>1. original' = original BY <1>2 DEF Apply
  <2>2. current[i] + 1 \in Nat BY DEF IInv, Types
  <2>3. \/ UNCHANGED db
        \/ /\ Applicable(db, current[i] + 1) /\ Valid(Upgraded(db, current[i] + 1), current[i] + 1)
           /\ db' = Upgraded(db, current[i] + 1)
    BY <1>2 DEF Apply
  <2> QED BY <1>1, <2>1, <2>2, <2>3, CommitRows
<1>3. ASSUME NEW i \in Instances, RecoverInterruptedRuns(i) PROVE RowsAccount'
  <2>1. /\ original' = original /\ Shape(db')
        /\ db'.rows = db.rows /\ db'.sound = db.sound
    BY <1>3 DEF RecoverInterruptedRuns, RowsAccount, Shape
  <2> QED BY <2>1 DEF RowsAccount
<1>4. CASE UNCHANGED vars BY <1>1, <1>4 DEF vars
<1>5. ASSUME NEW i \in Instances,
             Launch(i) \/ Backup(i) \/ Migrate(i) \/ Reread(i) \/ Check(i)
                \/ OpenPool(i) \/ Close(i) \/ Crash(i) \/ Fail(i)
      PROVE  RowsAccount'
  <2>1. UNCHANGED <<db, original>>
    BY <1>5 DEF Launch, Backup, Migrate, Reread, Check, OpenPool, Close, Crash, Fail, Fault
  <2> QED BY <1>1, <2>1
<1> QED BY <1>2, <1>3, <1>4, <1>5 DEF Next

LEMMA RowsSay == RowsAccount => NothingAuditedIsLost
<1> SUFFICES ASSUME RowsAccount PROVE NothingLost(original.rows, db.rows)
  BY DEF NothingAuditedIsLost
<1>1. UniquePrints(original.rows) /\ (original.sound => Keyed(original.rows))
  BY KeysAssumption DEF RowsAccount
<1>2. CASE db.rows = original.rows BY <1>1, <1>2, NothingChanged
<1>3. CASE original.sound /\ CanPromote(original.rows) /\ db.rows = Promoted(original.rows)
  BY <1>1, <1>3, PromotionLosesNothing
<1> QED BY <1>2, <1>3 DEF RowsAccount

(* Whatever findings, verifications, decisions and notes a database of an  *)
(* older build holds, and however many instances upgrade it: v5 merges     *)
(* repetitions only, and nothing that was reviewed, decided or counted is  *)
(* gone (migrate_security_baseline_findings).                              *)
THEOREM NothingIsLost == Spec => []NothingAuditedIsLost
<1>1. Init => IInv /\ RowsAccount BY Starts, RowsStart
<1>2. (IInv /\ RowsAccount) /\ [Next]_vars => (IInv /\ RowsAccount)'
  BY NextKeeps, RowsKept
<1>3. IInv /\ RowsAccount => NothingAuditedIsLost BY RowsSay
<1> QED BY <1>1, <1>2, <1>3, PTL DEF Spec
=============================================================================
