------------------------- MODULE CredentialsProofs -------------------------
(***************************************************************************)
(* Proofs about the two stores of Credentials, for any number of profiles, *)
(* providers, secrets, failures and crashes.                               *)
(*                                                                         *)
(* The invariant says, for every stage of a command, what is left of the   *)
(* agreement of the stores and what the command remembers to restore it.   *)
(***************************************************************************)
EXTENDS Credentials, TLAPS

(* What SQLite has down is what it has a row for, and row numbers and      *)
(* revisions are not used again.                                           *)
Ledger ==
    /\ \A p \in Profiles : /\ p \in Rows <=> recorded[p] # None
                           /\ p \in Rows => p < nextRow
    /\ \A r \in Providers : recorded[r] # None => r \in providers
    /\ nextRow # 0
    /\ confirmed.on \in Profiles => confirmed.on < nextRow
    /\ confirmed.on \in Rows =>
        /\ confirmed.rev \leq revision[confirmed.on]
        /\ confirmed.on \notin damaged /\ confirmed.rev = revision[confirmed.on] =>
            recorded[confirmed.on] = confirmed.secret

Remembered == \A i \in op.on \ damaged : op.old[i] = recorded[i]

OneProfile ==
    /\ op.cmd \in {"create", "set", "delete"}
    /\ \E p \in Profiles : op.on = {p}
    /\ op.cmd = "create" => op.on = {nextRow}
    /\ Remembered

ProfileStage ==
    /\ op.at = "store" =>
        OneProfile /\ \A i \in op.on \ damaged : vault[i] = recorded[i]
    /\ op.at = "row" =>
        OneProfile /\ \A p \in op.on : vault[p] = None <=> op.cmd = "delete"
    /\ op.at = "undo" => OneProfile

ProjectStage ==
    /\ op.at \in {"sweep", "restore"} =>
        op.cmd = "project" /\ op.on = Rows /\ Remembered
    /\ op.at = "sweep" =>
        /\ op.left \cup op.gone = op.on
        /\ \A i \in op.left \ damaged : vault[i] = recorded[i]
        /\ \A i \in op.gone : vault[i] = None
    /\ op.at = "restore" =>
        op.left \subseteq op.on /\ \A i \in op.on \ (op.left \cup damaged) : vault[i] = recorded[i]

ProviderStage ==
    /\ op.at \in {"settings", "purge", "recover"} =>
        /\ op.cmd = "providers"
        /\ op.on \subseteq op.before /\ op.on \subseteq Providers
        /\ \A r \in Providers : recorded[r] # None => r \in op.before
    /\ op.at = "settings" => \A i \in op.on \ damaged : vault[i] = recorded[i]
    /\ op.at \in {"purge", "recover"} =>
        op.left \subseteq op.on /\ \A i \in op.on : recorded[i] = None
    /\ op.at = "settings" =>
        /\ op.on = providers \ next /\ op.left = op.on
        /\ \A i \in op.on : vault[i] = op.old[i]
    /\ op.at = "purge" =>
        /\ \A i \in op.on : vault[i] \in {op.old[i], None}
        /\ \A i \in op.on \ op.left : vault[i] = None
    /\ op.at = "recover" => \A i \in op.on \ (op.left \cup damaged) : vault[i] = op.old[i]

Agreement == \A i \in Ids \ (op.on \cup damaged) : vault[i] = recorded[i]

Settled ==
    /\ run.at # "none" => run.on \in Profiles
    /\ run.at # "none" /\ ~run.exposed =>
        /\ run.on \in Rows \ (op.on \cup damaged)
        /\ recorded[run.on] = run.meant
        /\ run.at \in {"loading", "running"} => run.rev = revision[run.on]
        /\ run.at = "running" => run.secret = run.meant

Idle == op.at = "none" => op = Off

Inv ==
    /\ TypeOK
    /\ Ledger /\ ProfileStage /\ ProjectStage /\ ProviderStage
    /\ Agreement /\ Settled /\ Idle

USE DEF None, Profiles

-----------------------------------------------------------------------------
LEMMA InitInv == Init => Inv
  <1>. SUFFICES ASSUME Init PROVE Inv
    OBVIOUS
  <1>1. TypeOK
    BY BoundsAssumption
    DEF Init, TypeOK, Command, Off, NoRun, NoContract, Ids
  <1>2. Rows = {} /\ op = Off /\ run.at = "none"
    BY DEF Init, Rows, NoRun
  <1>3. ProfileStage /\ ProjectStage /\ ProviderStage /\ Idle /\ Settled
    BY <1>2 DEF ProfileStage, ProjectStage, ProviderStage, Idle, Settled, Off
  <1>4. Ledger /\ Agreement
    BY <1>2, ProvidersAssumption DEF Init, Ledger, Agreement, NoContract, Ids
  <1>. QED BY <1>1, <1>3, <1>4 DEF Inv

LEMMA BeginType ==
  ASSUME Inv, NEW cmd \in {"create", "set", "delete", "project", "providers"},
         NEW at \in {"store", "sweep", "settings"}, NEW S \in SUBSET Ids, Begin(cmd, at, S),
         UNCHANGED <<db, vault, recorded, damaged, confirmed, counts>>, next' \in SUBSET Providers
  PROVE  /\ TypeOK'
         /\ op' = [cmd |-> cmd, at |-> at, on |-> S, left |-> S, gone |-> {},
                   old |-> [i \in Ids |-> IF i \in S /\ cmd # "create" THEN vault[i] ELSE None],
                   before |-> providers]
         /\ op = Off
  <1>1. op' \in Command
    BY DEF Begin, Inv, TypeOK, Command
  <1>2. run' \in [at: {"none", "preview", "previewed", "queued", "loading", "running"},
                on: Profiles \cup {0}, rev: Nat, secret: Nat, meant: Nat,
                exposed: BOOLEAN]
    BY DEF Begin, Overlap, Inv, TypeOK
  <1>. QED BY <1>1, <1>2 DEF Begin, Inv, TypeOK, db, counts

(* A command that begins leaves the stores alone, and no run that could    *)
(* rely on them.                                                           *)
LEMMA BeginKeeps ==
  ASSUME Inv, NEW cmd \in {"create", "set", "delete", "project", "providers"},
         NEW at \in {"store", "sweep", "settings"}, NEW S \in SUBSET Ids, Begin(cmd, at, S),
         UNCHANGED <<db, vault, recorded, damaged, confirmed, counts>>, next' \in SUBSET Providers,
         Active /\ ~run.exposed => run.on \notin S
  PROVE  Ledger' /\ Agreement' /\ Settled' /\ Idle'
  <1>1. /\ op'.on = S /\ op'.at # "none" /\ op.on = {}
    BY DEF Begin, Off
  <1>2. Rows' = Rows /\ UNCHANGED <<nextRow, providers, vault, recorded, damaged, revision, confirmed>>
    BY DEF Rows, db
  <1>3. Ledger' /\ Agreement' /\ Idle'
    BY <1>1, <1>2 DEF Inv, Ledger, Agreement, Idle
  <1>4. Settled'
    BY <1>1, <1>2 DEF Inv, Settled, Begin, Overlap, Active, TypeOK
  <1>. QED BY <1>3, <1>4

-----------------------------------------------------------------------------
(* Profiles *)

LEMMA CreateProfileInv == ASSUME Inv, CreateProfile PROVE Inv'
  <1>1. nextRow \in Profiles /\ nextRow \notin Rows
    BY DEF CreateProfile, Inv, Ledger, TypeOK
  <1>2. Begin("create", "store", {nextRow}) /\ next' = next
        /\ UNCHANGED <<db, vault, recorded, damaged, confirmed, counts>>
    BY DEF CreateProfile
  <1>3. Active /\ ~run.exposed => run.on # nextRow
    BY <1>1 DEF Inv, Settled, Active
  <1>4. {nextRow} \in SUBSET Ids /\ next' \in SUBSET Providers
    BY <1>1, <1>2 DEF Ids, Inv, TypeOK
  <1>5. TypeOK' /\ op' = [cmd |-> "create", at |-> "store", on |-> {nextRow}, left |-> {nextRow},
                          gone |-> {}, old |-> [i \in Ids |-> None], before |-> providers]
        /\ op = Off
    BY <1>2, <1>4, BeginType
  <1>6. Ledger' /\ Agreement' /\ Settled' /\ Idle'
    BY <1>2, <1>3, <1>4, BeginKeeps
  <1>7. recorded[nextRow] = None /\ (nextRow \notin damaged => vault[nextRow] = None)
    BY <1>1, <1>5 DEF Inv, Ledger, Agreement, Off, Ids
  <1>8. ProfileStage' /\ ProjectStage' /\ ProviderStage'
    BY <1>1, <1>2, <1>5, <1>7, <1>4
    DEF ProfileStage, ProjectStage, ProviderStage, OneProfile, Remembered, db
  <1>. QED BY <1>5, <1>6, <1>8 DEF Inv

LEMMA TakeUpInv ==
  ASSUME Inv, NEW p \in Profiles, SetSecret(p) \/ DeleteProfile(p)
  PROVE  Inv'
  <1>1. PICK cmd \in {"set", "delete"} : Begin(cmd, "store", {p})
    BY DEF SetSecret, DeleteProfile
  <1>2. UNCHANGED <<db, vault, recorded, damaged, confirmed, counts>> /\ next' = next
    BY DEF SetSecret, DeleteProfile
  <1>3. Active /\ ~run.exposed => run.on # p
    BY DEF SetSecret, DeleteProfile, EnsureNotInActiveRun, Uses, Inv, Settled, Active
  <1>4. {p} \in SUBSET Ids /\ next' \in SUBSET Providers
    BY <1>2 DEF Ids, Inv, TypeOK
  <1>5. TypeOK' /\ op' = [cmd |-> cmd, at |-> "store", on |-> {p}, left |-> {p}, gone |-> {},
                          old |-> [i \in Ids |-> IF i \in {p} THEN vault[i] ELSE None],
                          before |-> providers]
        /\ op = Off
    BY <1>1, <1>2, <1>4, BeginType
  <1>6. Ledger' /\ Agreement' /\ Settled' /\ Idle'
    BY <1>1, <1>2, <1>3, <1>4, BeginKeeps
  <1>7. p \notin damaged => vault[p] = recorded[p]
    BY <1>5 DEF Inv, Agreement, Off, Ids
  <1>8. ProfileStage' /\ ProjectStage' /\ ProviderStage'
    BY <1>1, <1>2, <1>4, <1>5, <1>7
    DEF ProfileStage, ProjectStage, ProviderStage, OneProfile, Remembered
  <1>. QED BY <1>5, <1>6, <1>8 DEF Inv

LEMMA StoreSecretInv == ASSUME Inv, NEW p \in Profiles, StoreSecret(p) PROVE Inv'
  <1>1. op.at = "store" /\ op.on = {p} /\ p \in Ids
    BY DEF StoreSecret, Ids
  <1>2. OneProfile /\ (p \notin damaged => vault[p] = recorded[p])
    BY <1>1 DEF Inv, ProfileStage
  <1>3. UNCHANGED <<db, recorded, damaged, confirmed, run, next>> /\ Rows' = Rows
    BY DEF StoreSecret, db, Rows
  <1>4. CASE op' = [op EXCEPT !.at = "row"]
            /\ \/ op.cmd = "delete" /\ vault' = [vault EXCEPT ![p] = None] /\ UNCHANGED counts
               \/ op.cmd # "delete" /\ Typed /\ vault' = [vault EXCEPT ![p] = secrets']
    <2>0. {secrets', faults', crashes'} \subseteq Nat /\ (op.cmd # "delete" => secrets' # 0)
      BY <1>4 DEF Inv, TypeOK, counts, Typed
    <2>s. PICK s \in Nat : vault' = [vault EXCEPT ![p] = s] /\ (s = None <=> op.cmd = "delete")
      BY <1>4, <2>0
    <2>a. vault' \in [Ids -> Nat] /\ (vault'[p] = None <=> op.cmd = "delete")
      BY <1>1, <2>s DEF Inv, TypeOK
    <2>b. op' \in Command
      BY <1>4 DEF Inv, TypeOK, Command
    <2>1. TypeOK' /\ (vault'[p] = None <=> op.cmd = "delete")
      BY <1>3, <2>0, <2>a, <2>b DEF Inv, TypeOK, db
    <2>2. \A i \in Ids : i # p => vault'[i] = vault[i]
      BY <1>4 DEF Inv, TypeOK
    <2>3. op'.at = "row" /\ op'.on = op.on /\ op'.cmd = op.cmd /\ op'.old = op.old
      BY <1>4 DEF Inv, TypeOK, Command
    <2>4. Ledger' /\ Settled' /\ Agreement' /\ Idle'
      BY <1>1, <1>3, <2>2, <2>3 DEF Inv, Ledger, Settled, Agreement, Idle, db
    <2>5. ProfileStage' /\ ProjectStage' /\ ProviderStage'
      BY <1>1, <1>2, <1>3, <2>1, <2>3
      DEF ProfileStage, ProjectStage, ProviderStage, OneProfile, Remembered, db
    <2>. QED BY <2>1, <2>4, <2>5 DEF Inv
  <1>5. CASE Fault /\ Finish /\ UNCHANGED vault
    <2>1. op'.at = "none" /\ op'.on = {} /\ op' = Off
      BY <1>5 DEF Finish, Off
    <2>2. TypeOK'
      BY <1>3, <1>5 DEF Inv, TypeOK, Command, Off, Finish, Fault, db, Ids
    <2>3. Ledger' /\ Settled' /\ Agreement' /\ Idle'
      BY <1>1, <1>2, <1>3, <1>5, <2>1 DEF Inv, Ledger, Settled, Agreement, Idle, db
    <2>4. ProfileStage' /\ ProjectStage' /\ ProviderStage'
      BY <2>1 DEF ProfileStage, ProjectStage, ProviderStage
    <2>. QED BY <2>2, <2>3, <2>4 DEF Inv
  <1>. QED BY <1>4, <1>5 DEF StoreSecret

LEMMA FinishStages ==
  ASSUME Finish
  PROVE  /\ ProfileStage' /\ ProjectStage' /\ ProviderStage' /\ Idle'
         /\ op'.on = {} /\ op' \in Command
  BY DEF Finish, Off, ProfileStage, ProjectStage, ProviderStage, Idle, Command, Ids

LEMMA FaultType == ASSUME Inv, Fault PROVE {secrets', faults', crashes'} \subseteq Nat
  BY DEF Inv, TypeOK, Fault

LEMMA WriteRowInv == ASSUME Inv, NEW p \in Profiles, WriteRow(p) PROVE Inv'
  <1>1. op.at = "row" /\ op.on = {p} /\ p \in Ids
    BY DEF WriteRow, Ids
  <1>2. OneProfile /\ (vault[p] = None <=> op.cmd = "delete")
    BY <1>1 DEF Inv, ProfileStage
  <1>3. UNCHANGED <<vault, confirmed, run, next>>
    BY DEF WriteRow
  <1>4. CASE /\ op.cmd = "set" => p \in Rows
             /\ revision' = RowAfter(p)
             /\ nextRow' = IF op.cmd = "create" THEN p + 1 ELSE nextRow
             /\ recorded' = [recorded EXCEPT ![p] = vault[p]]
             /\ damaged' = damaged \ {p}
             /\ Finish
             /\ UNCHANGED <<project, providers, counts>>
    <2>0. op.cmd \in {"create", "set", "delete"} /\ (op.cmd = "create" => p = nextRow)
      BY <1>1, <1>2 DEF OneProfile
    <2>1. /\ revision' \in [Profiles -> Nat]
          /\ \A q \in Profiles : q # p => revision'[q] = revision[q]
          /\ op.cmd = "create" => revision'[p] = 1
          /\ op.cmd = "set" => revision'[p] = revision[p] + 1
          /\ op.cmd = "delete" => revision'[p] = 0
      <3>1. PICK n \in Nat : /\ revision' = [revision EXCEPT ![p] = n]
                             /\ op.cmd = "create" => n = 1
                             /\ op.cmd = "set" => n = revision[p] + 1
                             /\ op.cmd = "delete" => n = 0
        <4>1. revision[p] \in Nat
          BY DEF Inv, TypeOK
        <4>2. CASE op.cmd = "create" BY <1>4, <4>2 DEF RowAfter
        <4>3. CASE op.cmd = "set"
          <5>1. revision' = [revision EXCEPT ![p] = revision[p] + 1]
            BY <1>4, <4>3 DEF RowAfter
          <5>2. revision[p] + 1 \in Nat
            BY <4>1
          <5>. QED BY <4>3, <5>1, <5>2
        <4>4. CASE op.cmd = "delete" BY <1>4, <4>4 DEF RowAfter
        <4>. QED BY <2>0, <4>2, <4>3, <4>4
      <3>. QED BY <3>1 DEF Inv, TypeOK
    <2>2. /\ recorded' \in [Ids -> Nat]
          /\ recorded'[p] = vault[p]
          /\ \A i \in Ids : i # p => recorded'[i] = recorded[i]
      BY <1>1, <1>4 DEF Inv, TypeOK
    <2>3. /\ \A q \in Profiles : q # p => (q \in Rows' <=> q \in Rows)
          /\ p \in Rows' <=> op.cmd # "delete"
      BY <2>0, <2>1 DEF Rows, Inv, TypeOK
    <2>4. nextRow' \in Nat /\ nextRow \leq nextRow' /\ (op.cmd = "create" => p < nextRow')
      BY <1>4, <2>0 DEF Inv, TypeOK
    <2>5. TypeOK' /\ op'.on = {}
      BY <1>3, <1>4, <2>1, <2>2, <2>4, FinishStages DEF Inv, TypeOK, counts
    <2>6. Agreement'
      BY <1>1, <1>3, <1>4, <2>2, <2>5 DEF Inv, Agreement
    <2>7. Ledger'
      <3>1. \A q \in Profiles : /\ q \in Rows' <=> recorded'[q] # None
                                /\ q \in Rows' => q < nextRow'
        <4>1. \A q \in Profiles : q < nextRow => q < nextRow'
          BY <2>4 DEF Inv, TypeOK
        <4>2. op.cmd = "set" => p < nextRow
          BY <1>4 DEF Inv, Ledger
        <4>. QED BY <1>2, <2>0, <2>2, <2>3, <2>4, <4>1, <4>2 DEF Inv, Ledger, Ids
      <3>2. \A r \in Providers : recorded'[r] # None => r \in providers'
        BY <1>4, <2>2, ProvidersAssumption DEF Inv, Ledger, Ids
      <3>3. nextRow' # 0 /\ (confirmed'.on \in Profiles => confirmed'.on < nextRow')
        BY <1>3, <2>4 DEF Inv, Ledger, TypeOK
      <3>4. ASSUME confirmed.on \in Rows'
            PROVE  /\ confirmed.rev \leq revision'[confirmed.on]
                   /\ confirmed.on \notin damaged' /\ confirmed.rev = revision'[confirmed.on] =>
                        recorded'[confirmed.on] = confirmed.secret
        <4>0. confirmed.on \in Profiles /\ confirmed.rev \in Nat /\ confirmed.on \in Ids
          BY <3>4 DEF Rows, Inv, TypeOK, Ids
        <4>1. CASE confirmed.on # p
          BY <1>4, <2>1, <2>2, <2>3, <3>4, <4>0, <4>1 DEF Inv, Ledger
        <4>2. CASE confirmed.on = p
          <5>1. op.cmd = "set"
            <6>1. op.cmd # "create"
              BY <2>0, <4>0, <4>2 DEF Inv, Ledger, TypeOK
            <6>. QED BY <2>0, <2>3, <3>4, <4>2, <6>1
          <5>2. confirmed.rev \leq revision[p] /\ revision[p] \in Nat
            BY <1>4, <4>2, <5>1 DEF Inv, Ledger, TypeOK
          <5>. QED BY <2>1, <4>0, <4>2, <5>1, <5>2
        <4>. QED BY <4>1, <4>2
      <3>. QED BY <1>3, <3>1, <3>2, <3>3, <3>4 DEF Ledger
    <2>8. Settled'
      <3>. SUFFICES ASSUME run.at # "none", ~run.exposed
                    PROVE  /\ run.on \in Rows' \ damaged'
                           /\ recorded'[run.on] = run.meant
                           /\ run.at \in {"loading", "running"} => run.rev = revision'[run.on]
                           /\ run.at = "running" => run.secret = run.meant
        BY <1>3, <2>5 DEF Inv, Settled
      <3>1. run.on \in Rows /\ run.on # p /\ run.on \notin damaged /\ recorded[run.on] = run.meant
        BY <1>1 DEF Inv, Settled
      <3>2. run.on \in Profiles /\ run.on \in Ids
        BY <3>1 DEF Rows, Ids
      <3>. QED BY <1>4, <2>1, <2>2, <2>3, <3>1, <3>2 DEF Inv, Settled
    <2>. QED BY <1>4, <2>5, <2>6, <2>7, <2>8, FinishStages DEF Inv
  <1>5. CASE /\ Fault \/ UNCHANGED counts
             /\ op' = [op EXCEPT !.at = "undo"]
             /\ UNCHANGED <<db, recorded, damaged>>
    <2>1. {secrets', faults', crashes'} \subseteq Nat
      BY <1>5, FaultType DEF Inv, TypeOK, counts
    <2>2. op' \in Command /\ op'.at = "undo" /\ op'.on = op.on /\ op'.cmd = op.cmd /\ op'.old = op.old
      BY <1>5 DEF Inv, TypeOK, Command
    <2>3. Rows' = Rows
      BY <1>5 DEF Rows, db
    <2>4. TypeOK'
      BY <1>3, <1>5, <2>1, <2>2 DEF Inv, TypeOK, db
    <2>5. Ledger' /\ Agreement' /\ Settled' /\ Idle'
      BY <1>3, <1>5, <2>2, <2>3 DEF Inv, Ledger, Agreement, Settled, Idle, db
    <2>6. ProfileStage' /\ ProjectStage' /\ ProviderStage'
      BY <1>2, <1>5, <2>2 DEF ProfileStage, ProjectStage, ProviderStage, OneProfile, Remembered, db
    <2>. QED BY <2>4, <2>5, <2>6 DEF Inv
  <1>. QED BY <1>4, <1>5 DEF WriteRow

LEMMA CompensateSecretInv == ASSUME Inv, NEW p \in Profiles, CompensateSecret(p) PROVE Inv'
  <1>1. op.at = "undo" /\ op.on = {p} /\ p \in Ids /\ Finish
    BY DEF CompensateSecret, Ids
  <1>2. p \notin damaged => op.old[p] = recorded[p]
    BY <1>1 DEF Inv, ProfileStage, OneProfile, Remembered
  <1>3. UNCHANGED <<db, recorded, confirmed, run, next>> /\ Rows' = Rows
    BY DEF CompensateSecret, db, Rows
  <1>4. op'.on = {} /\ op' \in Command
    BY <1>1, FinishStages
  <1>5. CASE vault' = [vault EXCEPT ![p] = op.old[p]] /\ UNCHANGED <<damaged, counts>>
    <2>1. op.old[p] \in Nat
      BY <1>1 DEF Inv, TypeOK, Command
    <2>2. vault' \in [Ids -> Nat] /\ vault'[p] = op.old[p] /\ \A i \in Ids : i # p => vault'[i] = vault[i]
      BY <1>1, <1>5, <2>1 DEF Inv, TypeOK
    <2>3. TypeOK'
      BY <1>3, <1>4, <1>5, <2>2 DEF Inv, TypeOK, db, counts
    <2>4. Ledger' /\ Settled' /\ Agreement'
      BY <1>1, <1>2, <1>3, <1>4, <1>5, <2>2 DEF Inv, Ledger, Settled, Agreement, db
    <2>. QED BY <1>1, <2>3, <2>4, FinishStages DEF Inv
  <1>6. CASE Fault /\ damaged' = damaged \cup {p} /\ UNCHANGED vault
    <2>1. TypeOK'
      BY <1>1, <1>3, <1>4, <1>6, FaultType DEF Inv, TypeOK, db
    <2>2. Ledger' /\ Settled' /\ Agreement'
      BY <1>1, <1>3, <1>4, <1>6 DEF Inv, Ledger, Settled, Agreement, db
    <2>. QED BY <1>1, <2>1, <2>2, FinishStages DEF Inv
  <1>. QED BY <1>5, <1>6 DEF CompensateSecret

(* A command that ends and leaves the rows alone.                          *)
LEMMA Ends ==
  ASSUME Inv, Finish, UNCHANGED <<db, recorded, confirmed, run, next>>,
         vault' \in [Ids -> Nat], damaged' \subseteq damaged \cup op.on, damaged' \subseteq Ids,
         damaged \cap Profiles \subseteq damaged', {secrets', faults', crashes'} \subseteq Nat,
         \A i \in Ids \ damaged' : vault'[i] = recorded[i]
  PROVE  Inv'
  <1>1. op'.on = {} /\ op' \in Command /\ Rows' = Rows
    BY FinishStages DEF Rows, db
  <1>2. TypeOK'
    BY <1>1 DEF Inv, TypeOK, db
  <1>3. Ledger'
    BY <1>1 DEF Inv, Ledger, Rows, db
  <1>4. Settled' /\ Agreement'
    BY <1>1 DEF Inv, Settled, Agreement, db
  <1>. QED BY <1>2, <1>3, <1>4, FinishStages DEF Inv

(* A command that goes on, and leaves the rows and the other ids alone.    *)
LEMMA GoesOn ==
  ASSUME Inv, UNCHANGED <<db, recorded, confirmed, run, next>>,
         op' \in Command, op'.on = op.on, op'.at # "none",
         vault' \in [Ids -> Nat], \A i \in Ids \ op.on : vault'[i] = vault[i],
         damaged \subseteq damaged', damaged' \subseteq damaged \cup op.on, damaged' \subseteq Ids,
         {secrets', faults', crashes'} \subseteq Nat
  PROVE  TypeOK' /\ Ledger' /\ Agreement' /\ Settled' /\ Idle' /\ Rows' = Rows
  <1>1. Rows' = Rows
    BY DEF Rows, db
  <1>2. TypeOK' /\ Idle'
    BY DEF Inv, TypeOK, Idle, db
  <1>3. Ledger'
    BY <1>1 DEF Inv, Ledger, Rows, db
  <1>4. Settled' /\ Agreement'
    BY <1>1 DEF Inv, Settled, Agreement, db
  <1>. QED BY <1>1, <1>2, <1>3, <1>4

-----------------------------------------------------------------------------
(* The deletion of a project *)

LEMMA DeleteProjectInv == ASSUME Inv, DeleteProject PROVE Inv'
  <1>1. Begin("project", "sweep", Rows) /\ next' = next
        /\ UNCHANGED <<db, vault, recorded, damaged, confirmed, counts>>
    BY DEF DeleteProject
  <1>2. Rows \in SUBSET Ids /\ next' \in SUBSET Providers /\ Rows' = Rows
    BY <1>1 DEF Rows, Ids, Inv, TypeOK, db
  <1>3. ~Active
    BY DEF DeleteProject
  <1>4. TypeOK' /\ op' = [cmd |-> "project", at |-> "sweep", on |-> Rows, left |-> Rows,
                          gone |-> {}, old |-> [i \in Ids |-> IF i \in Rows THEN vault[i] ELSE None],
                          before |-> providers]
        /\ op = Off
    BY <1>1, <1>2, BeginType
  <1>5. Ledger' /\ Agreement' /\ Settled' /\ Idle'
    BY <1>1, <1>2, <1>3, BeginKeeps
  <1>6. \A i \in Rows \ damaged : vault[i] = recorded[i]
    BY <1>2, <1>4 DEF Inv, Agreement, Off
  <1>7. ProfileStage' /\ ProjectStage' /\ ProviderStage'
    BY <1>1, <1>2, <1>4, <1>6
    DEF ProfileStage, ProjectStage, ProviderStage, Remembered
  <1>. QED BY <1>4, <1>5, <1>7 DEF Inv

LEMMA RemoveSecretInv == ASSUME Inv, NEW p \in Profiles, RemoveSecret(p) PROVE Inv'
  <1>1. /\ op.at = "sweep" /\ p \in op.left /\ p \in Ids
        /\ op.cmd = "project" /\ op.on = Rows /\ Remembered
        /\ op.left \cup op.gone = op.on
        /\ \A i \in op.left \ damaged : vault[i] = recorded[i]
        /\ \A i \in op.gone : vault[i] = None
    BY DEF RemoveSecret, Ids, Inv, ProjectStage
  <1>2. /\ op' \in Command /\ op'.at = "sweep" /\ op'.on = op.on /\ op'.cmd = op.cmd /\ op'.old = op.old
        /\ op'.left = op.left \ {p} /\ op'.gone = op.gone \cup {p}
    BY <1>1 DEF RemoveSecret, Inv, TypeOK, Command
  <1>3. vault' \in [Ids -> Nat] /\ vault'[p] = None /\ \A i \in Ids : i # p => vault'[i] = vault[i]
    BY <1>1 DEF RemoveSecret, Inv, TypeOK
  <1>4. UNCHANGED <<db, recorded, damaged, confirmed, run, next, counts>>
    BY DEF RemoveSecret
  <1>5. damaged' \subseteq Ids /\ {secrets', faults', crashes'} \subseteq Nat
    BY <1>4 DEF Inv, TypeOK, counts
  <1>6. TypeOK' /\ Ledger' /\ Agreement' /\ Settled' /\ Idle' /\ Rows' = Rows
    BY <1>1, <1>2, <1>3, <1>4, <1>5, GoesOn
  <1>7. ProfileStage' /\ ProviderStage'
    BY <1>2 DEF ProfileStage, ProviderStage
  <1>8. op.left \subseteq Ids /\ op.gone \subseteq Ids
    BY DEF Inv, TypeOK, Command
  <1>9. ProjectStage'
    BY <1>1, <1>2, <1>3, <1>4, <1>6, <1>8 DEF ProjectStage, Remembered
  <1>. QED BY <1>6, <1>7, <1>9 DEF Inv

LEMMA SweepUnreadInv == ASSUME Inv, SweepUnread PROVE Inv'
  <1>1. /\ op.at = "sweep" /\ Finish /\ Fault /\ damaged' = damaged \cup Held(op.gone)
        /\ UNCHANGED <<db, vault, recorded, confirmed, run, next>>
    BY DEF SweepUnread
  <1>2. /\ op.on = Rows /\ Remembered
        /\ op.left \cup op.gone = op.on
        /\ \A i \in op.left \ damaged : vault[i] = recorded[i]
        /\ \A i \in op.gone : vault[i] = None
    BY <1>1 DEF Inv, ProjectStage
  <1>3. Held(op.gone) \subseteq op.on /\ damaged' \subseteq Ids
    BY <1>1, <1>2 DEF Held, Inv, TypeOK, Command
  <1>4. \A i \in op.gone \ damaged' : vault[i] = recorded[i]
    BY <1>1, <1>2 DEF Held, Remembered
  <1>5. \A i \in Ids \ damaged' : vault[i] = recorded[i]
    BY <1>1, <1>2, <1>4 DEF Inv, Agreement
  <1>6. vault' \in [Ids -> Nat]
    BY <1>1 DEF Inv, TypeOK
  <1>. QED BY <1>1, <1>3, <1>5, <1>6, Ends, FaultType

LEMMA SweepFailsInv == ASSUME Inv, SweepFails PROVE Inv'
  <1>1. /\ op.at = "sweep" /\ Fault
        /\ UNCHANGED <<db, vault, recorded, damaged, confirmed, run, next>>
    BY DEF SweepFails
  <1>2. /\ op.cmd = "project" /\ op.on = Rows /\ Remembered
        /\ op.left \cup op.gone = op.on
        /\ \A i \in op.left \ damaged : vault[i] = recorded[i]
        /\ \A i \in op.gone : vault[i] = None
    BY <1>1 DEF Inv, ProjectStage
  <1>3. /\ op' \in Command /\ op'.at = "restore" /\ op'.on = op.on /\ op'.cmd = op.cmd /\ op'.old = op.old
        /\ op'.left = Held(op.gone)
    BY DEF SweepFails, Inv, TypeOK, Command, Held
  <1>4. vault' \in [Ids -> Nat] /\ damaged' \subseteq Ids
    BY <1>1 DEF Inv, TypeOK
  <1>5. TypeOK' /\ Ledger' /\ Agreement' /\ Settled' /\ Idle' /\ Rows' = Rows
    BY <1>1, <1>3, <1>4, FaultType, GoesOn
  <1>6. \A i \in op.on \ (Held(op.gone) \cup damaged) : vault[i] = recorded[i]
    BY <1>2 DEF Held, Remembered
  <1>7. Held(op.gone) \subseteq op.on
    BY <1>2 DEF Held
  <1>8. ProfileStage' /\ ProjectStage' /\ ProviderStage'
    BY <1>1, <1>2, <1>3, <1>5, <1>6, <1>7 DEF ProfileStage, ProjectStage, ProviderStage, Remembered
  <1>. QED BY <1>5, <1>8 DEF Inv

LEMMA DropProjectInv == ASSUME Inv, DropProject PROVE Inv'
  <1>1. /\ op.at = "sweep" /\ op.left = {} /\ Finish
        /\ project' = FALSE /\ revision' = [p \in Profiles |-> 0]
        /\ recorded' = [i \in Ids |-> IF i \in Profiles THEN None ELSE recorded[i]]
        /\ damaged' = damaged \ op.on /\ run' = NoRun
        /\ UNCHANGED <<nextRow, providers, vault, confirmed, next, counts>>
    BY DEF DropProject
  <1>2. op.on = Rows /\ \A i \in op.on : vault[i] = None
    BY <1>1 DEF Inv, ProjectStage
  <1>3. op'.on = {} /\ op' \in Command
    BY <1>1, FinishStages
  <1>4. Rows' = {}
    BY <1>1 DEF Rows
  <1>5. TypeOK'
    BY <1>1, <1>3 DEF Inv, TypeOK, NoRun, counts, Ids
  <1>6. Ledger' /\ Settled'
    BY <1>1, <1>4, ProvidersAssumption DEF Inv, Ledger, Settled, NoRun, Ids
  <1>7. Agreement'
    <2>1. \A p \in Profiles : p \notin Rows => recorded[p] = None
      BY DEF Inv, Ledger
    <2>2. \A i \in Ids : i \notin op.on \cup damaged => vault[i] = recorded[i]
      BY DEF Inv, Agreement
    <2>3. op.on \subseteq Profiles
      BY <1>2 DEF Rows
    <2>. QED BY <1>1, <1>2, <1>3, <2>1, <2>2, <2>3 DEF Agreement
  <1>. QED BY <1>1, <1>5, <1>6, <1>7, FinishStages DEF Inv

LEMMA RestoreSecretInv == ASSUME Inv, NEW p \in Profiles, RestoreSecret(p) PROVE Inv'
  <1>1. /\ op.at = "restore" /\ p \in op.left /\ p \in Ids
        /\ UNCHANGED <<db, recorded, confirmed, run, next>>
        /\ op.cmd = "project" /\ op.on = Rows /\ Remembered
        /\ op.left \subseteq op.on /\ \A i \in op.on \ (op.left \cup damaged) : vault[i] = recorded[i]
    BY DEF RestoreSecret, Ids, Inv, ProjectStage
  <1>2. CASE /\ vault' = [vault EXCEPT ![p] = op.old[p]]
             /\ op' = [op EXCEPT !.left = @ \ {p}]
             /\ UNCHANGED <<damaged, counts>>
    <2>1. /\ op' \in Command /\ op'.at = "restore" /\ op'.on = op.on /\ op'.cmd = op.cmd
          /\ op'.old = op.old /\ op'.left = op.left \ {p}
      BY <1>1, <1>2 DEF Inv, TypeOK, Command
    <2>2. op.old[p] \in Nat
      BY <1>1 DEF Inv, TypeOK, Command
    <2>3. vault' \in [Ids -> Nat] /\ vault'[p] = op.old[p] /\ \A i \in Ids : i # p => vault'[i] = vault[i]
      BY <1>1, <1>2, <2>2 DEF Inv, TypeOK
    <2>4. damaged' \subseteq Ids /\ {secrets', faults', crashes'} \subseteq Nat
      BY <1>2 DEF Inv, TypeOK, counts
    <2>5. TypeOK' /\ Ledger' /\ Agreement' /\ Settled' /\ Idle' /\ Rows' = Rows
      BY <1>1, <1>2, <2>1, <2>3, <2>4, GoesOn
    <2>6. op.on \subseteq Ids
      BY DEF Inv, TypeOK, Command
    <2>7. ProfileStage' /\ ProviderStage' /\ ProjectStage'
      BY <1>1, <1>2, <2>1, <2>3, <2>5, <2>6 DEF ProfileStage, ProviderStage, ProjectStage, Remembered
    <2>. QED BY <2>5, <2>7 DEF Inv
  <1>3. CASE Fault /\ damaged' = damaged \cup op.left /\ Finish /\ UNCHANGED vault
    <2>1. vault' \in [Ids -> Nat] /\ damaged' \subseteq Ids
      BY <1>3 DEF Inv, TypeOK, Command
    <2>2. \A i \in Ids \ damaged' : vault'[i] = recorded[i]
      BY <1>1, <1>3 DEF Inv, Agreement
    <2>. QED BY <1>1, <1>3, <2>1, <2>2, Ends, FaultType
  <1>. QED BY <1>2, <1>3 DEF RestoreSecret

LEMMA RestoredInv == ASSUME Inv, Restored PROVE Inv'
  <1>1. /\ op.at = "restore" /\ op.left = {} /\ Finish
        /\ UNCHANGED <<db, vault, recorded, damaged, confirmed, run, next, counts>>
    BY DEF Restored
  <1>2. \A i \in Ids \ damaged : vault[i] = recorded[i]
    BY <1>1 DEF Inv, ProjectStage, Agreement
  <1>3. vault' \in [Ids -> Nat] /\ damaged' \subseteq Ids /\ {secrets', faults', crashes'} \subseteq Nat
    BY <1>1 DEF Inv, TypeOK, counts
  <1>. QED BY <1>1, <1>2, <1>3, Ends

-----------------------------------------------------------------------------
(* Providers *)

LEMMA SetProvidersInv == ASSUME Inv, NEW R \in SUBSET Providers, SetProviders(R) PROVE Inv'
  <1>1. Begin("providers", "settings", providers \ R) /\ next' = R
        /\ UNCHANGED <<db, vault, recorded, damaged, confirmed, counts>>
    BY DEF SetProviders
  <1>2. providers \ R \in SUBSET Ids /\ next' \in SUBSET Providers /\ providers \subseteq Providers
    BY <1>1 DEF Ids, Inv, TypeOK
  <1>3. Active /\ ~run.exposed => run.on \notin providers \ R
    BY <1>2, ProvidersAssumption DEF Inv, Settled, Active, Rows
  <1>4. TypeOK' /\ op' = [cmd |-> "providers", at |-> "settings", on |-> providers \ R,
                          left |-> providers \ R, gone |-> {},
                          old |-> [i \in Ids |-> IF i \in providers \ R THEN vault[i] ELSE None],
                          before |-> providers]
        /\ op = Off
    BY <1>1, <1>2, BeginType
  <1>5. Ledger' /\ Agreement' /\ Settled' /\ Idle'
    BY <1>1, <1>2, <1>3, BeginKeeps
  <1>6. \A i \in (providers \ R) \ damaged : vault[i] = recorded[i]
    BY <1>2, <1>4 DEF Inv, Agreement, Off
  <1>7. \A r \in Providers : recorded[r] # None => r \in providers
    BY DEF Inv, Ledger
  <1>8. ProfileStage' /\ ProjectStage' /\ ProviderStage'
    BY <1>1, <1>2, <1>4, <1>6, <1>7
    DEF ProfileStage, ProjectStage, ProviderStage, db
  <1>. QED BY <1>4, <1>5, <1>8 DEF Inv

(* What the provider commands write of the rows leaves the profiles alone. *)
LEMMA ProviderRows ==
  ASSUME Inv, UNCHANGED <<revision, nextRow, confirmed, damaged, run>>, op'.on = op.on,
         \A p \in Profiles : recorded'[p] = recorded[p],
         \A r \in Providers : recorded'[r] # None => r \in providers'
  PROVE  Ledger' /\ Settled'
  <1>1. Rows' = Rows /\ Rows \subseteq Profiles
    BY DEF Rows
  <1>2. Ledger'
    BY <1>1 DEF Inv, Ledger
  <1>3. Settled'
    BY <1>1 DEF Inv, Settled
  <1>. QED BY <1>2, <1>3

LEMMA WriteProvidersInv == ASSUME Inv, WriteProviders PROVE Inv'
  <1>1. /\ op.at = "settings" /\ op.cmd = "providers"
        /\ UNCHANGED <<project, revision, nextRow, vault, damaged, confirmed, run, next>>
        /\ op.on = providers \ next /\ op.on \subseteq op.before /\ op.on \subseteq Providers
        /\ \A r \in Providers : recorded[r] # None => r \in op.before
        /\ \A i \in op.on : vault[i] = op.old[i]
        /\ \A i \in op.on \ damaged : vault[i] = recorded[i]
    BY DEF WriteProviders, Inv, ProviderStage
  <1>2. CASE /\ providers' = next /\ recorded' = Without(op.on)
             /\ op' = [op EXCEPT !.at = "purge"] /\ UNCHANGED counts
    <2>1. /\ op' \in Command /\ op'.at = "purge" /\ op'.on = op.on /\ op'.cmd = op.cmd
          /\ op'.old = op.old /\ op'.left = op.left /\ op'.before = op.before
      BY <1>2 DEF Inv, TypeOK, Command
    <2>2. /\ recorded' \in [Ids -> Nat]
          /\ \A i \in Ids : recorded'[i] = IF i \in op.on THEN None ELSE recorded[i]
      BY <1>2 DEF Without, Inv, TypeOK
    <2>3. TypeOK'
      BY <1>1, <1>2, <2>1, <2>2 DEF Inv, TypeOK, counts
    <2>4. /\ \A p \in Profiles : recorded'[p] = recorded[p]
          /\ \A r \in Providers : recorded'[r] # None => r \in providers' /\ r \in op.before
      BY <1>1, <1>2, <2>2, ProvidersAssumption DEF Ids, Inv, Ledger
    <2>5. Ledger' /\ Settled'
      BY <1>1, <2>1, <2>4, ProviderRows
    <2>6. Agreement' /\ Idle'
      BY <1>1, <2>1, <2>2 DEF Inv, Agreement, Idle
    <2>7. op.left = op.on /\ op.on \subseteq Ids
      BY <1>1 DEF Inv, ProviderStage, TypeOK, Command
    <2>8. ProfileStage' /\ ProjectStage' /\ ProviderStage'
      BY <1>1, <2>1, <2>2, <2>4, <2>7 DEF ProfileStage, ProjectStage, ProviderStage
    <2>. QED BY <2>3, <2>5, <2>6, <2>8 DEF Inv
  <1>3. CASE Fault /\ Finish /\ UNCHANGED <<providers, recorded>>
    <2>1. vault' \in [Ids -> Nat] /\ damaged' \subseteq Ids
      BY <1>1 DEF Inv, TypeOK
    <2>2. \A i \in Ids \ damaged' : vault'[i] = recorded[i]
      BY <1>1 DEF Inv, Agreement
    <2>. QED BY <1>1, <1>3, <2>1, <2>2, Ends, FaultType DEF db
  <1>. QED BY <1>2, <1>3 DEF WriteProviders

LEMMA PurgeKeyInv == ASSUME Inv, NEW r \in Providers, PurgeKey(r) PROVE Inv'
  <1>1. /\ op.at = "purge" /\ r \in op.left /\ r \in Ids /\ op.cmd = "providers"
        /\ UNCHANGED <<db, recorded, damaged, confirmed, run, next>>
        /\ op.on \subseteq op.before /\ op.on \subseteq Providers
        /\ \A i \in Providers : recorded[i] # None => i \in op.before
        /\ op.left \subseteq op.on /\ \A i \in op.on : recorded[i] = None
        /\ \A i \in op.on : vault[i] \in {op.old[i], None}
        /\ \A i \in op.on \ op.left : vault[i] = None
    BY DEF PurgeKey, Inv, ProviderStage, Ids
  <1>2. op.on \subseteq Ids
    BY <1>1 DEF Ids
  <1>3. CASE /\ vault' = [vault EXCEPT ![r] = None]
             /\ op' = [op EXCEPT !.left = @ \ {r}] /\ UNCHANGED counts
    <2>1. /\ op' \in Command /\ op'.at = "purge" /\ op'.on = op.on /\ op'.cmd = op.cmd
          /\ op'.old = op.old /\ op'.left = op.left \ {r} /\ op'.before = op.before
      BY <1>1, <1>3 DEF Inv, TypeOK, Command
    <2>2. vault' \in [Ids -> Nat] /\ vault'[r] = None /\ \A i \in Ids : i # r => vault'[i] = vault[i]
      BY <1>1, <1>3 DEF Inv, TypeOK
    <2>3. damaged' \subseteq Ids /\ {secrets', faults', crashes'} \subseteq Nat
      BY <1>1, <1>3 DEF Inv, TypeOK, counts
    <2>4. TypeOK' /\ Ledger' /\ Agreement' /\ Settled' /\ Idle'
      BY <1>1, <2>1, <2>2, <2>3, GoesOn
    <2>5. ProfileStage' /\ ProjectStage' /\ ProviderStage'
      BY <1>1, <1>2, <2>1, <2>2 DEF ProfileStage, ProjectStage, ProviderStage
    <2>. QED BY <2>4, <2>5 DEF Inv
  <1>4. CASE /\ Fault /\ UNCHANGED vault
             /\ op' = [op EXCEPT !.at = "recover", !.left = Held(op.on)]
    <2>1. /\ op' \in Command /\ op'.at = "recover" /\ op'.on = op.on /\ op'.cmd = op.cmd
          /\ op'.old = op.old /\ op'.left = Held(op.on) /\ op'.before = op.before
      BY <1>1, <1>4, <1>2 DEF Inv, TypeOK, Command, Held
    <2>2. vault' \in [Ids -> Nat] /\ damaged' \subseteq Ids
      BY <1>1, <1>4 DEF Inv, TypeOK
    <2>3. TypeOK' /\ Ledger' /\ Agreement' /\ Settled' /\ Idle'
      BY <1>1, <1>4, <2>1, <2>2, FaultType, GoesOn
    <2>4. \A i \in op.on \ Held(op.on) : vault[i] = op.old[i]
      BY <1>1 DEF Held
    <2>5. Held(op.on) \subseteq op.on
      BY DEF Held
    <2>6. ProfileStage' /\ ProjectStage' /\ ProviderStage'
      BY <1>1, <1>4, <2>1, <2>4, <2>5 DEF ProfileStage, ProjectStage, ProviderStage
    <2>. QED BY <2>3, <2>6 DEF Inv
  <1>. QED BY <1>3, <1>4 DEF PurgeKey

LEMMA PurgedInv == ASSUME Inv, Purged PROVE Inv'
  <1>1. /\ op.at = "purge" /\ op.left = {} /\ Finish /\ damaged' = damaged \ op.on
        /\ UNCHANGED <<db, vault, recorded, confirmed, run, next, counts>>
    BY DEF Purged
  <1>2. /\ op.on \subseteq Providers
        /\ \A i \in op.on : recorded[i] = None /\ vault[i] = None
    BY <1>1 DEF Inv, ProviderStage
  <1>3. vault' \in [Ids -> Nat] /\ damaged' \subseteq Ids /\ {secrets', faults', crashes'} \subseteq Nat
    BY <1>1 DEF Inv, TypeOK, counts
  <1>4. damaged \cap Profiles \subseteq damaged'
    BY <1>1, <1>2, ProvidersAssumption
  <1>5. \A i \in Ids \ damaged' : vault'[i] = recorded[i]
    BY <1>1, <1>2 DEF Inv, Agreement
  <1>6. damaged' \subseteq damaged \cup op.on
    BY <1>1
  <1>. QED BY <1>1, <1>3, <1>4, <1>5, <1>6, Ends

LEMMA RecoverKeyInv == ASSUME Inv, NEW r \in Providers, RecoverKey(r) PROVE Inv'
  <1>1. /\ op.at = "recover" /\ r \in op.left /\ r \in Ids /\ op.cmd = "providers"
        /\ UNCHANGED <<db, recorded, confirmed, run, next>>
        /\ op' = [op EXCEPT !.left = @ \ {r}]
        /\ op.on \subseteq op.before /\ op.on \subseteq Providers
        /\ \A i \in Providers : recorded[i] # None => i \in op.before
        /\ op.left \subseteq op.on /\ \A i \in op.on : recorded[i] = None
        /\ \A i \in op.on \ (op.left \cup damaged) : vault[i] = op.old[i]
    BY DEF RecoverKey, Inv, ProviderStage, Ids
  <1>2. /\ op' \in Command /\ op'.at = "recover" /\ op'.on = op.on /\ op'.cmd = op.cmd
        /\ op'.old = op.old /\ op'.left = op.left \ {r} /\ op'.before = op.before
    BY <1>1 DEF Inv, TypeOK, Command
  <1>3. PICK v \in Nat :
          /\ vault' = [vault EXCEPT ![r] = v]
          /\ r \notin damaged' => v = op.old[r]
          /\ damaged' \in {damaged, damaged \cup {r}}
          /\ {secrets', faults', crashes'} \subseteq Nat
    <2>1. vault[r] \in Nat /\ op.old[r] \in Nat /\ vault = [vault EXCEPT ![r] = vault[r]]
      BY <1>1 DEF Inv, TypeOK, Command
    <2>2. CASE vault' = [vault EXCEPT ![r] = op.old[r]] /\ UNCHANGED <<damaged, counts>>
      BY <2>1, <2>2 DEF Inv, TypeOK, counts
    <2>3. CASE Fault /\ damaged' = damaged \cup {r} /\ UNCHANGED vault
      BY <2>1, <2>3, FaultType
    <2>. QED BY <2>2, <2>3 DEF RecoverKey
  <1>4. vault' \in [Ids -> Nat] /\ vault'[r] = v /\ \A i \in Ids : i # r => vault'[i] = vault[i]
    BY <1>1, <1>3 DEF Inv, TypeOK
  <1>5. damaged' \subseteq Ids /\ op.on \subseteq Ids
    BY <1>1, <1>3 DEF Inv, TypeOK, Ids
  <1>6. TypeOK' /\ Ledger' /\ Agreement' /\ Settled' /\ Idle'
    BY <1>1, <1>2, <1>3, <1>4, <1>5, GoesOn
  <1>7. ProfileStage' /\ ProjectStage' /\ ProviderStage'
    BY <1>1, <1>2, <1>3, <1>4, <1>5 DEF ProfileStage, ProjectStage, ProviderStage
  <1>. QED BY <1>6, <1>7 DEF Inv

LEMMA RestoreProvidersInv == ASSUME Inv, RestoreProviders PROVE Inv'
  <1>1. /\ op.at = "recover" /\ op.left = {} /\ Finish
        /\ UNCHANGED <<project, revision, nextRow, vault, confirmed, run, next>>
        /\ op.on \subseteq op.before /\ op.on \subseteq Providers
        /\ \A i \in Providers : recorded[i] # None => i \in op.before
        /\ \A i \in op.on \ damaged : vault[i] = op.old[i]
    BY DEF RestoreProviders, Inv, ProviderStage
  <1>2. op'.on = {} /\ op' \in Command
    BY <1>1, FinishStages
  <1>3. CASE /\ providers' = op.before
             /\ recorded' = [i \in Ids |-> IF i \in op.on THEN op.old[i] ELSE recorded[i]]
             /\ UNCHANGED <<damaged, counts>>
    <2>1. op.before \subseteq Providers /\ op.old \in [Ids -> Nat]
      BY DEF Inv, TypeOK, Command
    <2>2. /\ recorded' \in [Ids -> Nat]
          /\ \A i \in Ids : recorded'[i] = IF i \in op.on THEN op.old[i] ELSE recorded[i]
      BY <1>3, <2>1 DEF Inv, TypeOK
    <2>3. TypeOK'
      BY <1>1, <1>2, <1>3, <2>1, <2>2 DEF Inv, TypeOK, counts
    <2>4. \A r \in Providers : recorded'[r] # None => r \in providers'
      BY <1>1, <1>3, <2>2 DEF Ids
    <2>5. /\ Rows' = Rows /\ Rows \subseteq Profiles
          /\ \A p \in Profiles : recorded'[p] = recorded[p]
      BY <1>1, <2>2, ProvidersAssumption DEF Rows, Ids
    <2>6. Ledger'
      BY <1>1, <1>3, <2>4, <2>5 DEF Inv, Ledger
    <2>7. Settled'
      BY <1>1, <1>2, <1>3, <2>5 DEF Inv, Settled
    <2>8. Agreement'
      BY <1>1, <1>2, <1>3, <2>2 DEF Inv, Agreement
    <2>. QED BY <1>1, <2>3, <2>6, <2>7, <2>8, FinishStages DEF Inv
  <1>4. CASE Fault /\ damaged' = damaged \cup op.on /\ UNCHANGED <<providers, recorded>>
    <2>1. vault' \in [Ids -> Nat] /\ damaged' \subseteq Ids
      BY <1>1, <1>4 DEF Inv, TypeOK, Command
    <2>2. \A i \in Ids \ damaged' : vault'[i] = recorded[i]
      BY <1>1, <1>4 DEF Inv, Agreement
    <2>. QED BY <1>1, <1>4, <2>1, <2>2, Ends, FaultType DEF db
  <1>. QED BY <1>3, <1>4 DEF RestoreProviders

(* The two commands that set or delete one key.                            *)
LEMMA KeyInv ==
  ASSUME Inv, NEW r \in Providers, SetKey(r) \/ DeleteKey(r)
  PROVE  Inv'
  <1>1. /\ op = Off /\ r \in Ids
        /\ UNCHANGED <<db, op, confirmed, run, next>> /\ damaged' = damaged \ {r}
    BY DEF SetKey, DeleteKey, Ids
  <1>2. PICK s \in Nat : /\ vault' = [vault EXCEPT ![r] = s]
                         /\ recorded' = [recorded EXCEPT ![r] = s]
                         /\ s # None => r \in providers
                         /\ {secrets', faults', crashes'} \subseteq Nat
    <2>1. CASE SetKey(r)
      <3>1. {secrets', faults', crashes'} \subseteq Nat
        BY <2>1 DEF SetKey, Typed, Inv, TypeOK
      <3>. QED BY <2>1, <3>1 DEF SetKey
    <2>2. CASE DeleteKey(r)
      BY <2>2 DEF DeleteKey, Inv, TypeOK, counts
    <2>. QED BY <2>1, <2>2
  <1>3. /\ vault' \in [Ids -> Nat] /\ recorded' \in [Ids -> Nat]
        /\ vault'[r] = s /\ recorded'[r] = s
        /\ \A i \in Ids : i # r => vault'[i] = vault[i] /\ recorded'[i] = recorded[i]
    BY <1>1, <1>2 DEF Inv, TypeOK
  <1>4. r \notin Profiles
    BY ProvidersAssumption
  <1>5. /\ Rows' = Rows /\ Rows \subseteq Profiles /\ op.on = {} /\ op.at = "none"
        /\ \A p \in Profiles : recorded'[p] = recorded[p] /\ (p \in damaged <=> p \in damaged')
    BY <1>1, <1>3, <1>4 DEF Rows, Ids, Off, db
  <1>6. TypeOK'
    BY <1>1, <1>2, <1>3 DEF Inv, TypeOK, db
  <1>7. Ledger'
    BY <1>1, <1>2, <1>3, <1>5 DEF Inv, Ledger, Ids, db
  <1>8. Settled'
    BY <1>1, <1>5 DEF Inv, Settled, db
  <1>9. Agreement'
    BY <1>1, <1>3 DEF Inv, Agreement
  <1>10. ProfileStage' /\ ProjectStage' /\ ProviderStage' /\ Idle'
    BY <1>1, <1>5 DEF ProfileStage, ProjectStage, ProviderStage, Idle
  <1>. QED BY <1>6, <1>7, <1>8, <1>9, <1>10 DEF Inv

-----------------------------------------------------------------------------
(* The start of a run *)

(* What leaves the command and the stores alone.                           *)
LEMMA StoresKept ==
  ASSUME Inv, UNCHANGED <<db, vault, recorded, damaged, op, next>>
  PROVE  ProfileStage' /\ ProjectStage' /\ ProviderStage' /\ Agreement' /\ Idle' /\ Rows' = Rows
  <1>1. Rows' = Rows
    BY DEF Rows, db
  <1>2. Agreement' /\ Idle'
    BY DEF Inv, Agreement, Idle
  <1>3. ProfileStage'
    BY <1>1 DEF Inv, ProfileStage, OneProfile, Remembered, db
  <1>4. ProjectStage'
    BY <1>1 DEF Inv, ProjectStage, Remembered
  <1>5. ProviderStage'
    BY DEF Inv, ProviderStage, db
  <1>. QED BY <1>1, <1>2, <1>3, <1>4, <1>5

LEMMA PreviewContractInv == ASSUME Inv, NEW p \in Profiles, PreviewContract(p) PROVE Inv'
  <1>1. /\ op = Off /\ p \in Rows
        /\ confirmed' = [on |-> p, rev |-> revision[p], secret |-> vault[p]]
        /\ UNCHANGED <<db, vault, recorded, damaged, op, run, next, counts>>
    BY DEF PreviewContract
  <1>2. revision[p] \in Nat /\ vault[p] \in Nat /\ p \in Ids
    BY DEF Inv, TypeOK, Ids
  <1>3. TypeOK'
    BY <1>1, <1>2 DEF Inv, TypeOK, db, counts
  <1>4. p \notin damaged => recorded[p] = vault[p]
    BY <1>1, <1>2 DEF Inv, Agreement, Off
  <1>5. Ledger'
    BY <1>1, <1>2, <1>4 DEF Inv, Ledger, Rows, db
  <1>6. Settled'
    BY <1>1, StoresKept DEF Inv, Settled, db
  <1>. QED BY <1>1, <1>3, <1>5, <1>6, StoresKept DEF Inv

LEMMA StartInv ==
  ASSUME Inv, StartPreview \/ StartSecret \/ CreateRun \/ LoadRow \/ LoadSecret \/ EndRun
  PROVE  Inv'
  <1>1. UNCHANGED <<db, vault, recorded, damaged, op, confirmed, next, counts>>
    BY DEF StartPreview, StartSecret, CreateRun, LoadRow, LoadSecret, EndRun
  <1>2. run' \in [at: {"none", "preview", "previewed", "queued", "loading", "running"},
                  on: Profiles \cup {0}, rev: Nat, secret: Nat, meant: Nat, exposed: BOOLEAN]
    <2>1. CASE StartPreview
      <3>1. PICK b \in BOOLEAN :
              run' = [NoRun EXCEPT !.at = "preview", !.on = confirmed.on,
                                   !.meant = confirmed.secret, !.exposed = b]
        <4>1. (confirmed.on \in op.on \cup damaged) \in BOOLEAN
          OBVIOUS
        <4>2. run' = [NoRun EXCEPT !.at = "preview", !.on = confirmed.on,
                                   !.meant = confirmed.secret,
                                   !.exposed = confirmed.on \in op.on \cup damaged]
          BY <2>1 DEF StartPreview
        <4>. QED BY <4>1, <4>2, Zenon
      <3>. QED BY <3>1 DEF NoRun, Inv, TypeOK
    <2>2. CASE StartSecret
      BY <2>2 DEF StartSecret, Inv, TypeOK
    <2>3. CASE CreateRun
      BY <2>3 DEF CreateRun, Inv, TypeOK
    <2>4. CASE LoadRow
      <3>1. revision[run.on] \in Nat
        BY <2>4 DEF LoadRow, Rows, Inv, TypeOK
      <3>. QED BY <2>4, <3>1 DEF LoadRow, Inv, TypeOK
    <2>5. CASE LoadSecret
      <3>1. vault[run.on] \in Nat
        BY <2>5 DEF LoadSecret, Inv, TypeOK, Settled, Ids
      <3>. QED BY <2>5, <3>1 DEF LoadSecret, Inv, TypeOK
    <2>6. CASE EndRun
      BY <2>6 DEF EndRun, NoRun
    <2>. QED BY <2>1, <2>2, <2>3, <2>4, <2>5, <2>6
  <1>3. TypeOK'
    BY <1>1, <1>2 DEF Inv, TypeOK, db, counts
  <1>4. Ledger'
    BY <1>1, StoresKept DEF Inv, Ledger, db
  <1>5. Settled'
    <2>0. Rows' = Rows /\ UNCHANGED <<revision, recorded, damaged, op>>
      BY <1>1, StoresKept DEF db
    <2>1. CASE StartPreview
      BY <2>0, <2>1 DEF StartPreview, NoRun, Inv, Settled, Ledger, Rows
    <2>2. CASE StartSecret
      BY <2>0, <2>2 DEF StartSecret, Inv, TypeOK, Settled
    <2>3. CASE CreateRun
      BY <2>0, <2>3 DEF CreateRun, Inv, TypeOK, Settled
    <2>4. CASE LoadRow
      BY <2>0, <2>4 DEF LoadRow, Inv, TypeOK, Settled
    <2>5. CASE LoadSecret
      <3>1. run.on \in Ids \ (op.on \cup damaged) => vault[run.on] = recorded[run.on]
        BY DEF Inv, Agreement
      <3>. QED BY <2>0, <2>5, <3>1 DEF LoadSecret, Inv, TypeOK, Settled, Ids
    <2>6. CASE EndRun
      BY <2>0, <2>6 DEF EndRun, NoRun, Settled
    <2>. QED BY <2>1, <2>2, <2>3, <2>4, <2>5, <2>6
  <1>. QED BY <1>1, <1>3, <1>4, <1>5, StoresKept DEF Inv

LEMMA CrashInv == ASSUME Inv, Crash PROVE Inv'
  <1>1. /\ crashes' = crashes + 1 /\ damaged' = damaged \cup {i \in op.on : vault[i] # recorded[i]}
        /\ op' = Off /\ run' = NoRun /\ confirmed' = NoContract
        /\ UNCHANGED <<db, vault, recorded, next, secrets, faults>>
    BY DEF Crash
  <1>2. Finish /\ op'.on = {} /\ op' \in Command /\ Rows' = Rows
    BY <1>1, FinishStages DEF Finish, Rows, db
  <1>3. damaged' \subseteq Ids
    BY <1>1 DEF Inv, TypeOK, Command
  <1>4. TypeOK'
    BY <1>1, <1>2, <1>3 DEF Inv, TypeOK, db, NoRun, NoContract
  <1>5. Ledger'
    BY <1>1, <1>2 DEF Inv, Ledger, NoContract, Rows, db
  <1>6. Settled'
    BY <1>1 DEF Settled, NoRun
  <1>7. Agreement'
    BY <1>1, <1>2 DEF Inv, Agreement
  <1>. QED BY <1>2, <1>4, <1>5, <1>6, <1>7, FinishStages DEF Inv

-----------------------------------------------------------------------------
LEMMA Inductive == Inv /\ [Next]_vars => Inv'
  <1>. SUFFICES ASSUME Inv, [Next]_vars PROVE Inv'
    OBVIOUS
  <1>1. CASE CreateProfile BY <1>1, CreateProfileInv
  <1>2. CASE \E p \in Profiles : SetSecret(p) \/ DeleteProfile(p) BY <1>2, TakeUpInv
  <1>3. CASE \E p \in Profiles : StoreSecret(p) BY <1>3, StoreSecretInv
  <1>4. CASE \E p \in Profiles : WriteRow(p) BY <1>4, WriteRowInv
  <1>5. CASE \E p \in Profiles : CompensateSecret(p) BY <1>5, CompensateSecretInv
  <1>6. CASE DeleteProject BY <1>6, DeleteProjectInv
  <1>7. CASE \E p \in Profiles : RemoveSecret(p) BY <1>7, RemoveSecretInv
  <1>8. CASE SweepUnread BY <1>8, SweepUnreadInv
  <1>9. CASE SweepFails BY <1>9, SweepFailsInv
  <1>10. CASE DropProject BY <1>10, DropProjectInv
  <1>11. CASE \E p \in Profiles : RestoreSecret(p) BY <1>11, RestoreSecretInv
  <1>12. CASE Restored BY <1>12, RestoredInv
  <1>13. CASE \E R \in SUBSET Providers : SetProviders(R) BY <1>13, SetProvidersInv
  <1>14. CASE WriteProviders BY <1>14, WriteProvidersInv
  <1>15. CASE \E r \in Providers : PurgeKey(r) BY <1>15, PurgeKeyInv
  <1>16. CASE Purged BY <1>16, PurgedInv
  <1>17. CASE \E r \in Providers : RecoverKey(r) BY <1>17, RecoverKeyInv
  <1>18. CASE RestoreProviders BY <1>18, RestoreProvidersInv
  <1>19. CASE \E r \in Providers : SetKey(r) \/ DeleteKey(r) BY <1>19, KeyInv
  <1>20. CASE \E p \in Profiles : PreviewContract(p) BY <1>20, PreviewContractInv
  <1>21. CASE StartPreview \/ StartSecret \/ CreateRun \/ LoadRow \/ LoadSecret \/ EndRun
    BY <1>21, StartInv
  <1>22. CASE Crash BY <1>22, CrashInv
  <1>23. CASE UNCHANGED vars
    <2>1. UNCHANGED <<db, vault, recorded, damaged, op, next, confirmed, run, counts>>
      BY <1>23 DEF vars
    <2>2. TypeOK' /\ Ledger' /\ Settled'
      BY <2>1, StoresKept DEF Inv, TypeOK, Ledger, Settled, db, counts
    <2>. QED BY <2>1, <2>2, StoresKept DEF Inv
  <1>. QED BY <1>1, <1>2, <1>3, <1>4, <1>5, <1>6, <1>7, <1>8, <1>9, <1>10, <1>11, <1>12,
              <1>13, <1>14, <1>15, <1>16, <1>17, <1>18, <1>19, <1>20, <1>21, <1>22, <1>23
           DEF Next

LEMMA Invariance == Spec => []Inv
  BY InitInv, Inductive, PTL DEF Spec

-----------------------------------------------------------------------------
(* Every variable keeps its type, whatever fails and whenever the          *)
(* application dies.                                                       *)
THEOREM CredentialTypes == Spec => []TypeOK
  <1>1. Inv => TypeOK
    BY DEF Inv
  <1>. QED BY <1>1, Invariance, PTL

(* The credential store and SQLite say the same of every id no command is  *)
(* at work on and no unfinished repair has left behind: a profile has the  *)
(* secret of its revision, and no secret outlives what it belongs to       *)
(* (create_auth_profile, delete_auth_profile, set_provider_metadata and    *)
(* the others, with compensate_secret and restore_removed_secrets).        *)
THEOREM SecretsAgreeAlways == Spec => []SecretsAgree
  <1>1. Inv => SecretsAgree
    BY DEF Inv, Agreement, Ledger, SecretsAgree, Ids, Rows
  <1>. QED BY <1>1, Invariance, PTL

(* A run uses the secret of the contract the user confirmed and that       *)
(* secret stays the profile's while it lasts, unless the run's own start   *)
(* overlapped a change (ensure_profile_not_in_active_run against the       *)
(* start of a run).                                                        *)
THEOREM IdentityStaysSettled == Spec => []IdentityIsSettled
  <1>1. Inv => IdentityIsSettled
    BY DEF Inv, Agreement, Settled, IdentityIsSettled, Ids
  <1>. QED BY <1>1, Invariance, PTL
=============================================================================
