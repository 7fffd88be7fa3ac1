------------------------------ MODULE Migration ------------------------------
(***************************************************************************)
(* How the application opens its database (storage/db.rs and migrations.rs *)
(* as lib.rs calls them): read the version, snapshot a released database,  *)
(* apply one step after the other, each in a transaction of its own, check *)
(* the result, interrupt what a crash left running, serve.                 *)
(*                                                                         *)
(* Any SQLite call can fail, the process can die anywhere, and nothing     *)
(* keeps a second instance of the application from opening the same file.  *)
(***************************************************************************)
EXTENDS BaselineMerge

CONSTANTS Instances,   \* processes of the application
          Released,    \* the databases an older build may have left, of one start
          MaxFaults,   \* bound: SQLite calls that fail (busy, disk full, io)
          MaxCrashes   \* bound

Latest == 5   \* LATEST_SCHEMA_VERSION

ASSUME MigrationBounds == MaxFaults \in Nat /\ MaxCrashes \in Nat

(* The keys of the rows that v5 touches: a count each, rows of the other   *)
(* tables that refer to a finding that is there, events of one finding.    *)
Keyed(r) ==
    /\ r.findings \subseteq Findings /\ r.count \in [Findings -> Nat]
    /\ \A n \in Relations :
          /\ IsFiniteSet(r.rel[n])
          /\ r.rel[n] \subseteq r.findings \X {row[2] : row \in r.rel[n]}
    /\ \A p, q \in r.rel["events"] : p[2] = q[2] => p = q

ASSUME ReleasedAssumption ==
    \A d \in Released :
        d \in [version : 0 .. Latest + 1, layers : SUBSET (1 .. 4), sound : BOOLEAN,
               rows : {d.rows}, run : {d.run}, mission : {d.mission}]

(* The index on fingerprints is unique; what foreign_key_check refuses is  *)
(* not sound.                                                              *)
ASSUME KeysAssumption == \A d \in Released : UniquePrints(d.rows) /\ (d.sound => Keyed(d.rows))

VARIABLES
    db,        \* the file: version, layers of DDL, soundness, rows, a run and its mission
    original,  \* history: the file as this build first met it
    backups,   \* the snapshots beside it
    at,        \* where each instance is
    current,   \* the version migrate works from
    faults, crashes  \* how many so far

vars == <<db, original, backups, at, current, faults, crashes>>

NetworkStatuses == {"discovering", "planning", "executing", "verifying"}
ActiveStatuses == NetworkStatuses \cup {"queued"}

Init ==
    /\ db \in Released /\ original = db /\ backups = {}
    /\ at = [i \in Instances |-> "off"]
    /\ current = [i \in Instances |-> 0]
    /\ faults = 0 /\ crashes = 0

Goto(i, l) == at' = [at EXCEPT ![i] = l] /\ UNCHANGED current

(* With the version it works from: none when it is done with migrating.    *)
GotoWith(i, l, v) == at' = [at EXCEPT ![i] = l] /\ current' = [current EXCEPT ![i] = v]

Leave(i, l) == GotoWith(i, l, 0)

Fault(i) ==
    /\ faults < MaxFaults /\ faults' = faults + 1
    /\ Leave(i, "refused")
    /\ UNCHANGED <<db, original, backups, crashes>>

(* The tables, indexes, triggers and foreign keys listed for each version  *)
(* are told apart by the version that brought them; v5 brought none.       *)
Demanded(v) == 1 .. v \cap 1 .. 4

(* Sound: their columns, quick_check and foreign_key_check.                *)
Valid(d, v) == v \in 1 .. Latest /\ d.sound /\ Demanded(v) \subseteq d.layers

-----------------------------------------------------------------------------
(* One step: DDL or data, validation, stamp, commit.                       *)

NeedsBackup(v) == v > 0 /\ v < Latest

(* Mutant: every step creates only what does not exist, as the first does. *)
AlwaysApplicable(d, target) == TRUE

(* Step 1 creates IF NOT EXISTS; each later one fails on what is there and *)
(* without the one before.                                                 *)
Applicable(d, target) ==
    /\ target \in 2 .. 4 => target - 1 \in d.layers /\ target \notin d.layers
    /\ target = 5 => 4 \in d.layers /\ CanPromote(d.rows)

(* v4 also shows every old run as a read-only mission of its status.       *)
Upgraded(d, target) ==
    [version |-> target,
     layers |-> IF target <= 4 THEN d.layers \cup {target} ELSE d.layers,
     sound |-> d.sound,
     rows |-> IF target = 5 THEN Promoted(d.rows) ELSE d.rows,
     run |-> d.run,
     mission |-> IF target = 4 THEN d.run ELSE d.mission]

Apply(i) ==
    LET target == current[i] + 1
        after  == Upgraded(db, target)
    IN /\ at[i] = "step" /\ current[i] < Latest
       /\ \/ /\ Applicable(db, target) /\ Valid(after, target)
             /\ db' = after
             /\ Leave(i, "reread")
          \/ /\ ~(Applicable(db, target) /\ Valid(after, target))
             /\ Leave(i, "refused")
             /\ UNCHANGED db
       /\ UNCHANGED <<original, backups, faults, crashes>>

Reread(i) ==
    /\ at[i] = "reread"
    /\ GotoWith(i, "step", db.version)
    /\ UNCHANGED <<db, original, backups, faults, crashes>>

-----------------------------------------------------------------------------
Launch(i) ==
    /\ at[i] \in {"off", "refused"}
    /\ Goto(i, IF NeedsBackup(db.version) THEN "backup" ELSE "read")
    /\ UNCHANGED <<db, original, backups, faults, crashes>>

(* VACUUM INTO: a committed snapshot, under a name nothing has yet.        *)
Backup(i) ==
    /\ at[i] = "backup"
    /\ backups' = backups \cup {db}
    /\ Goto(i, "read")
    /\ UNCHANGED <<db, original, faults, crashes>>

(* migrate reads the version again.                                        *)
Migrate(i) ==
    /\ at[i] = "read"
    /\ IF db.version > Latest THEN Leave(i, "refused") ELSE GotoWith(i, "step", db.version)
    /\ UNCHANGED <<db, original, backups, faults, crashes>>

Check(i) ==
    /\ at[i] = "step" /\ current[i] >= Latest
    /\ Leave(i, IF Valid(db, current[i]) THEN "pool" ELSE "refused")
    /\ UNCHANGED <<db, original, backups, faults, crashes>>

OpenPool(i) ==
    /\ at[i] = "pool"
    /\ Goto(i, IF db.version = Latest THEN "boot" ELSE "refused")
    /\ UNCHANGED <<db, original, backups, faults, crashes>>

(* sync_from_run_on looks for missions that are not legacy: none here.     *)
RecoverInterruptedRuns(i) ==
    /\ at[i] = "boot"
    /\ db' = [db EXCEPT !.run = IF @ \in ActiveStatuses THEN "interrupted" ELSE @]
    /\ Goto(i, "serving")
    /\ UNCHANGED <<original, backups, faults, crashes>>

Close(i) ==
    /\ at[i] = "serving"
    /\ Leave(i, "off")
    /\ UNCHANGED <<db, original, backups, faults, crashes>>

(* An open transaction is rolled back.                                     *)
Crash(i) ==
    /\ at[i] \notin {"off", "refused"} /\ crashes < MaxCrashes
    /\ crashes' = crashes + 1
    /\ Leave(i, "off")
    /\ UNCHANGED <<db, original, backups, faults>>

Fail(i) == at[i] \notin {"off", "refused", "serving"} /\ Fault(i)

Next ==
    \E i \in Instances :
        \/ Launch(i) \/ Backup(i) \/ Migrate(i) \/ Apply(i) \/ Reread(i) \/ Check(i)
        \/ OpenPool(i) \/ RecoverInterruptedRuns(i) \/ Close(i) \/ Crash(i) \/ Fail(i)

Spec == Init /\ [][Next]_vars

-----------------------------------------------------------------------------
(* Whatever fails and however many instances start, a database of a        *)
(* released version never says more or less of itself than it is: it has   *)
(* the layers its version stands for, only ever moves up, keeps its        *)
(* findings untouched until v5, and once it has moved, a snapshot of what  *)
(* it was lies beside it.                                                  *)
StampIsTrue ==
    original.version \in 1 .. Latest /\ original.layers = 1 .. original.version \cap 1 .. 4 =>
        /\ db.version \in original.version .. Latest
        /\ db.layers = 1 .. db.version \cap 1 .. 4
        /\ db.version < Latest => db.rows = original.rows
        /\ db.version # original.version => original \in backups

(* What a finding of o becomes in d.                                       *)
Heir(o, d, f, c) ==
    /\ o.review[f] = d.review[c]
    /\ c # f => f \notin d.findings /\ ~o.noted[f] /\ ~o.noted[c]
    /\ \A n \in Relations : Of(o.rel[n], f) \subseteq Of(d.rel[n], c)

(* What is kept between two states of the rows.                            *)
NothingLost(o, d) ==
    LET Total(r) == MapThenSumSet(LAMBDA f : r.count[f], r.findings)
    IN /\ d.findings \subseteq o.findings
       /\ \A f \in o.findings : \E c \in d.findings : Heir(o, d, f, c)
       /\ \A n \in Relations \ {"refs"} : Cardinality(d.rel[n]) = Cardinality(o.rel[n])
       /\ Total(d) = Total(o)
       /\ UniquePrints(d)
       /\ \A f \in d.findings : d.print[f] # o.print[f] =>
              \A v \in Of(d.rel["links"], f) : IdentityOf(v) = d.print[f]

(* What v5 merges loses nothing anyone would look for: every verification, *)
(* evidence decision and event is still there once, on a row that carries  *)
(* the review its old row had; occurrences add up; rows with notes or      *)
(* different decisions stay apart; a row that claims a gap has only        *)
(* verifications of it.  (Stated without the grouping the code computes.)  *)
NothingAuditedIsLost == NothingLost(original.rows, db.rows)
=============================================================================
