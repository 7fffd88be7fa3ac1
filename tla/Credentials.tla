---------------------------- MODULE Credentials ----------------------------
(***************************************************************************)
(* Secrets live in the credential store of the operating system, what they *)
(* belong to in SQLite, and no transaction spans the two: auth profiles of *)
(* assessment/service.rs, AI providers of commands.rs, secrets.rs.         *)
(*                                                                         *)
(* The commands that change either are synchronous and run one after the   *)
(* other on the main thread, in steps that can each fail and between which *)
(* the application can die.  The start of a run is asynchronous: it reads  *)
(* the profile and its secret between those steps.  One project, and one   *)
(* identity per run, are told apart; a profile is its row number.          *)
(***************************************************************************)
EXTENDS Integers, FiniteSets

CONSTANTS MaxProfiles, \* bound: rows assessment_auth_profiles ever gets
          Providers,   \* ids of AI providers
          MaxSecrets,  \* bound: secrets the user ever enters
          MaxFaults,   \* bound: calls of the store or of SQLite that fail
          MaxCrashes   \* bound

Profiles == 1 .. MaxProfiles

ASSUME ProvidersAssumption == Providers \cap Profiles = {}
ASSUME BoundsAssumption == {MaxProfiles, MaxSecrets, MaxFaults, MaxCrashes} \subseteq Nat

None == 0

Ids == Profiles \cup Providers

VARIABLES
    project,    \* the project has its row
    revision,   \* secret_revision of each profile, 0 without a row
    nextRow,    \* the row number the next profile gets
    providers,  \* the providers in the settings
    vault,      \* the credential store
    recorded,   \* history: the secret SQLite has each id down for
    damaged,    \* history: the ids an unfinished repair left behind
    op,         \* the command on the main thread
    next,       \* the providers it is to leave in the settings
    confirmed,  \* the contract the user has seen: profile, revision; history: its secret
    run,        \* the start of a run and the run; history: the secret meant, exposure
    secrets, faults, crashes  \* how many so far

db == <<project, revision, nextRow, providers>>
counts == <<secrets, faults, crashes>>
vars == <<db, vault, recorded, damaged, op, next, confirmed, run, counts>>

Off == [cmd |-> "none", at |-> "none", on |-> {}, left |-> {}, gone |-> {},
        old |-> [i \in Ids |-> None], before |-> {}]

NoRun == [at |-> "none", on |-> 0, rev |-> 0, secret |-> None, meant |-> None,
          exposed |-> FALSE]

NoContract == [on |-> 0, rev |-> 0, secret |-> None]

Init ==
    /\ project = TRUE /\ revision = [p \in Profiles |-> 0] /\ nextRow = 1
    /\ providers = {}
    /\ vault = [i \in Ids |-> None] /\ recorded = [i \in Ids |-> None] /\ damaged = {}
    /\ op = Off /\ next = {} /\ confirmed = NoContract /\ run = NoRun
    /\ secrets = 0 /\ faults = 0 /\ crashes = 0

Rows == {p \in Profiles : revision[p] > 0}

(* A queued run has its row; the start has not yet inserted one before.    *)
Active == run.at \in {"queued", "loading", "running"}

(* A run forgets a profile that is deleted (ON DELETE SET NULL).           *)
Uses(p) == Active /\ run.on = p /\ p \in Rows

Fault == faults < MaxFaults /\ faults' = faults + 1 /\ UNCHANGED <<secrets, crashes>>

Typed == secrets < MaxSecrets /\ secrets' = secrets + 1 /\ UNCHANGED <<faults, crashes>>

Finish == op' = Off

(* History: a change that begins while a start has read the revision and   *)
(* not inserted its run.                                                   *)
Overlap(S) ==
    run' = IF run.at \in {"preview", "previewed"} /\ run.on \in S
           THEN [run EXCEPT !.exposed = TRUE] ELSE run

Begin(cmd, at, S) ==
    /\ op = Off
    /\ op' = [cmd |-> cmd, at |-> at, on |-> S, left |-> S, gone |-> {},
              old |-> [i \in Ids |-> IF i \in S /\ cmd # "create" THEN vault[i] ELSE None],
              before |-> providers]
    /\ Overlap(S)

-----------------------------------------------------------------------------
(* Auth profiles: the secret first, then the row, and the secret back when *)
(* the row cannot be written.  A new row stays invisible until it commits. *)

(* Mutant: a profile in use is not asked about.                            *)
NotAsked(p) == TRUE

EnsureNotInActiveRun(p) == ~Uses(p)

CreateProfile ==
    /\ project /\ nextRow \in Profiles
    /\ Begin("create", "store", {nextRow})
    /\ UNCHANGED <<db, vault, recorded, damaged, confirmed, next, counts>>

(* Of a profile that is gone too: a view can be old.                       *)
SetSecret(p) ==
    /\ EnsureNotInActiveRun(p)
    /\ Begin("set", "store", {p})
    /\ UNCHANGED <<db, vault, recorded, damaged, confirmed, next, counts>>

DeleteProfile(p) ==
    /\ EnsureNotInActiveRun(p) /\ p \in Rows
    /\ Begin("delete", "store", {p})
    /\ UNCHANGED <<db, vault, recorded, damaged, confirmed, next, counts>>

StoreSecret(p) ==
    /\ op.at = "store" /\ op.on = {p}
    /\ \/ /\ IF op.cmd = "delete"
             THEN vault' = [vault EXCEPT ![p] = None] /\ UNCHANGED counts
             ELSE Typed /\ vault' = [vault EXCEPT ![p] = secrets']
          /\ op' = [op EXCEPT !.at = "row"]
       \/ Fault /\ Finish /\ UNCHANGED vault
    /\ UNCHANGED <<db, recorded, damaged, confirmed, run, next>>

RowAfter(p) ==
    [revision EXCEPT ![p] = IF op.cmd = "create" THEN 1
                            ELSE IF op.cmd = "set" THEN @ + 1 ELSE 0]

WriteRow(p) ==
    /\ op.at = "row" /\ op.on = {p}
    /\ \/ /\ op.cmd = "set" => p \in Rows
          /\ revision' = RowAfter(p)
          /\ nextRow' = IF op.cmd = "create" THEN p + 1 ELSE nextRow
          /\ recorded' = [recorded EXCEPT ![p] = vault[p]]
          /\ damaged' = damaged \ {p}
          /\ Finish
          /\ UNCHANGED <<project, providers, counts>>
       \/ /\ \/ Fault
             \/ op.cmd = "set" /\ p \notin Rows /\ UNCHANGED counts
          /\ op' = [op EXCEPT !.at = "undo"]
          /\ UNCHANGED <<db, recorded, damaged>>
    /\ UNCHANGED <<vault, confirmed, run, next>>

CompensateSecret(p) ==
    /\ op.at = "undo" /\ op.on = {p}
    /\ \/ vault' = [vault EXCEPT ![p] = op.old[p]] /\ UNCHANGED <<damaged, counts>>
       \/ Fault /\ damaged' = damaged \cup {p} /\ UNCHANGED vault
    /\ Finish
    /\ UNCHANGED <<db, recorded, confirmed, run, next>>

-----------------------------------------------------------------------------
(* A project goes after the secrets of all its profiles.                   *)

DeleteProject ==
    /\ project /\ ~Active
    /\ Begin("project", "sweep", Rows)
    /\ UNCHANGED <<db, vault, recorded, damaged, confirmed, next, counts>>

(* Mutant: the secrets taken away are not remembered.                      *)
HeldNone(S) == {}

Held(S) == {i \in S : op.old[i] # None}

RemoveSecret(p) ==
    /\ op.at = "sweep" /\ p \in op.left
    /\ vault' = [vault EXCEPT ![p] = None]
    /\ op' = [op EXCEPT !.left = @ \ {p}, !.gone = @ \cup {p}]
    /\ UNCHANGED <<db, recorded, damaged, confirmed, run, next, counts>>

(* The next secret cannot be read: the command returns as it stands.       *)
SweepUnread ==
    /\ op.at = "sweep" /\ op.left # {} /\ Fault
    /\ damaged' = damaged \cup Held(op.gone)
    /\ Finish
    /\ UNCHANGED <<db, vault, recorded, confirmed, run, next>>

(* It cannot be deleted, or the row cannot: what is gone is put back.      *)
SweepFails ==
    /\ op.at = "sweep" /\ Fault
    /\ op' = [op EXCEPT !.at = "restore", !.left = Held(op.gone)]
    /\ UNCHANGED <<db, vault, recorded, damaged, confirmed, run, next>>

(* The rows of the project go with it, a run that has slipped in as well.  *)
DropProject ==
    /\ op.at = "sweep" /\ op.left = {}
    /\ project' = FALSE
    /\ revision' = [p \in Profiles |-> 0]
    /\ recorded' = [i \in Ids |-> IF i \in Profiles THEN None ELSE recorded[i]]
    /\ damaged' = damaged \ op.on
    /\ run' = NoRun
    /\ Finish
    /\ UNCHANGED <<nextRow, providers, vault, confirmed, next, counts>>

(* The first that cannot be put back ends the restoration.                 *)
RestoreSecret(p) ==
    /\ op.at = "restore" /\ p \in op.left
    /\ \/ /\ vault' = [vault EXCEPT ![p] = op.old[p]]
          /\ op' = [op EXCEPT !.left = @ \ {p}]
          /\ UNCHANGED <<damaged, counts>>
       \/ Fault /\ damaged' = damaged \cup op.left /\ Finish /\ UNCHANGED vault
    /\ UNCHANGED <<db, recorded, confirmed, run, next>>

Restored ==
    /\ op.at = "restore" /\ op.left = {} /\ Finish
    /\ UNCHANGED <<db, vault, recorded, damaged, confirmed, run, next, counts>>

-----------------------------------------------------------------------------
(* AI providers: the settings first, then the keys of those that are gone; *)
(* when a key cannot be deleted, all keys and the settings are put back.   *)

SetProviders(R) ==
    /\ Begin("providers", "settings", providers \ R)
    /\ next' = R
    /\ UNCHANGED <<db, vault, recorded, damaged, confirmed, counts>>

Without(S) == [i \in Ids |-> IF i \in S THEN None ELSE recorded[i]]

WriteProviders ==
    /\ op.at = "settings"
    /\ \/ /\ providers' = next
          /\ recorded' = Without(op.on)
          /\ op' = [op EXCEPT !.at = "purge"]
          /\ UNCHANGED counts
       \/ Fault /\ Finish /\ UNCHANGED <<providers, recorded>>
    /\ UNCHANGED <<project, revision, nextRow, vault, damaged, confirmed, run, next>>

PurgeKey(r) ==
    /\ op.at = "purge" /\ r \in op.left
    /\ \/ /\ vault' = [vault EXCEPT ![r] = None]
          /\ op' = [op EXCEPT !.left = @ \ {r}]
          /\ UNCHANGED counts
       \/ Fault /\ op' = [op EXCEPT !.at = "recover", !.left = Held(op.on)] /\ UNCHANGED vault
    /\ UNCHANGED <<db, recorded, damaged, confirmed, run, next>>

Purged ==
    /\ op.at = "purge" /\ op.left = {} /\ Finish
    /\ damaged' = damaged \ op.on
    /\ UNCHANGED <<db, vault, recorded, confirmed, run, next, counts>>

(* One key that cannot be put back does not keep the others from it.       *)
RecoverKey(r) ==
    /\ op.at = "recover" /\ r \in op.left
    /\ \/ vault' = [vault EXCEPT ![r] = op.old[r]] /\ UNCHANGED <<damaged, counts>>
       \/ Fault /\ damaged' = damaged \cup {r} /\ UNCHANGED vault
    /\ op' = [op EXCEPT !.left = @ \ {r}]
    /\ UNCHANGED <<db, recorded, confirmed, run, next>>

RestoreProviders ==
    /\ op.at = "recover" /\ op.left = {}
    /\ \/ /\ providers' = op.before
          /\ recorded' = [i \in Ids |-> IF i \in op.on THEN op.old[i] ELSE recorded[i]]
          /\ UNCHANGED <<damaged, counts>>
       \/ Fault /\ damaged' = damaged \cup op.on /\ UNCHANGED <<providers, recorded>>
    /\ Finish
    /\ UNCHANGED <<project, revision, nextRow, vault, confirmed, run, next>>

SetKey(r) ==
    /\ op = Off /\ r \in providers /\ Typed
    /\ vault' = [vault EXCEPT ![r] = secrets']
    /\ recorded' = [recorded EXCEPT ![r] = secrets']
    /\ damaged' = damaged \ {r}
    /\ UNCHANGED <<db, op, confirmed, run, next>>

DeleteKey(r) ==
    /\ op = Off
    /\ vault' = [vault EXCEPT ![r] = None]
    /\ recorded' = [recorded EXCEPT ![r] = None]
    /\ damaged' = damaged \ {r}
    /\ UNCHANGED <<db, op, confirmed, run, next, counts>>

-----------------------------------------------------------------------------
(* The start of a run, beside the commands.  The contract names the        *)
(* revision of the secret, its hash is what the user has confirmed.        *)

PreviewContract(p) ==
    /\ op = Off /\ p \in Rows /\ vault[p] # None
    /\ confirmed' = [on |-> p, rev |-> revision[p], secret |-> vault[p]]
    /\ UNCHANGED <<db, vault, recorded, damaged, op, run, next, counts>>

StartPreview ==
    /\ run.at = "none"
    /\ confirmed.on \in Rows /\ revision[confirmed.on] = confirmed.rev
    /\ run' = [NoRun EXCEPT !.at = "preview", !.on = confirmed.on,
                            !.meant = confirmed.secret,
                            !.exposed = confirmed.on \in op.on \cup damaged]
    /\ UNCHANGED <<db, vault, recorded, damaged, op, confirmed, next, counts>>

StartSecret ==
    /\ run.at = "preview" /\ vault[run.on] # None
    /\ run' = [run EXCEPT !.at = "previewed"]
    /\ UNCHANGED <<db, vault, recorded, damaged, op, confirmed, next, counts>>

(* The insertion waits for the transaction that creates a profile.         *)
CreateRun ==
    /\ run.at = "previewed" /\ run.on \in Rows
    /\ ~(op.cmd = "create" /\ op.at \in {"store", "row"})
    /\ run' = [run EXCEPT !.at = "queued"]
    /\ UNCHANGED <<db, vault, recorded, damaged, op, confirmed, next, counts>>

LoadRow ==
    /\ run.at = "queued" /\ run.on \in Rows
    /\ run' = [run EXCEPT !.at = "loading", !.rev = revision[run.on]]
    /\ UNCHANGED <<db, vault, recorded, damaged, op, confirmed, next, counts>>

LoadSecret ==
    /\ run.at = "loading" /\ vault[run.on] # None
    /\ run' = [run EXCEPT !.at = "running", !.secret = vault[run.on]]
    /\ UNCHANGED <<db, vault, recorded, damaged, op, confirmed, next, counts>>

(* Refused, failed, cancelled or done.                                     *)
EndRun ==
    /\ run.at # "none"
    /\ run' = NoRun
    /\ UNCHANGED <<db, vault, recorded, damaged, op, confirmed, next, counts>>

(* The command is lost where it stands; boot interrupts the run.           *)
Crash ==
    /\ crashes < MaxCrashes /\ crashes' = crashes + 1
    /\ damaged' = damaged \cup {i \in op.on : vault[i] # recorded[i]}
    /\ op' = Off /\ run' = NoRun /\ confirmed' = NoContract
    /\ UNCHANGED <<db, vault, recorded, next, secrets, faults>>

Next ==
    \/ CreateProfile \/ DeleteProject \/ SweepUnread \/ SweepFails \/ DropProject \/ Restored
    \/ WriteProviders \/ Purged \/ RestoreProviders
    \/ StartPreview \/ StartSecret \/ CreateRun \/ LoadRow \/ LoadSecret \/ EndRun \/ Crash
    \/ \E p \in Profiles :
        \/ SetSecret(p) \/ DeleteProfile(p)
        \/ StoreSecret(p) \/ WriteRow(p) \/ CompensateSecret(p)
        \/ RemoveSecret(p) \/ RestoreSecret(p) \/ PreviewContract(p)
    \/ \E R \in SUBSET Providers : SetProviders(R)
    \/ \E r \in Providers : PurgeKey(r) \/ RecoverKey(r) \/ SetKey(r) \/ DeleteKey(r)

Spec == Init /\ [][Next]_vars

-----------------------------------------------------------------------------
(* What must hold *)

Command ==
    [cmd: {"none", "create", "set", "delete", "project", "providers"},
     at: {"none", "store", "row", "undo", "sweep", "restore", "settings", "purge", "recover"},
     on: SUBSET Ids, left: SUBSET Ids, gone: SUBSET Ids, old: [Ids -> Nat],
     before: SUBSET Providers]

TypeOK ==
    /\ project \in BOOLEAN /\ revision \in [Profiles -> Nat] /\ nextRow \in Nat
    /\ providers \subseteq Providers /\ next \subseteq Providers
    /\ vault \in [Ids -> Nat] /\ recorded \in [Ids -> Nat] /\ damaged \subseteq Ids
    /\ op \in Command
    /\ confirmed \in [on: Profiles \cup {0}, rev: Nat, secret: Nat]
    /\ run \in [at: {"none", "preview", "previewed", "queued", "loading", "running"},
                on: Profiles \cup {0}, rev: Nat, secret: Nat, meant: Nat,
                exposed: BOOLEAN]
    /\ {secrets, faults, crashes} \subseteq Nat

(* Every profile has its secret, the one its revision stands for, every    *)
(* other secret belongs to a provider of the settings, and nothing else is *)
(* in the store.  The exceptions are the ids the running command is at     *)
(* work on and those of a command that died halfway, of a compensation     *)
(* that failed itself, and of a project deletion that could not read on    *)
(* (compensate_secret, restore_removed_secrets, set_provider_metadata).    *)
SecretsAgree ==
    \A i \in Ids \ (op.on \cup damaged) :
        /\ vault[i] = recorded[i]
        /\ vault[i] # None => i \in Rows \cup providers
        /\ i \in Rows => vault[i] # None

(* A run works with the secret the user confirmed, and it stays the secret *)
(* of the profile for as long as the run lasts, unless a command was at    *)
(* work on the profile, or began to, before the run had its row.           *)
(* (ensure_profile_not_in_active_run, preview_contract, create_run)        *)
IdentityIsSettled ==
    run.at = "running" /\ ~run.exposed =>
        /\ run.secret = run.meant
        /\ vault[run.on] = run.secret /\ revision[run.on] = run.rev
=============================================================================
