---------------------------- MODULE StoreRecovery ----------------------------
(***************************************************************************)
(* The schema of the marengo-store database: migration on every open       *)
(* (migrations.rs, one immediate transaction per version, read inside it)  *)
(* and the explicit recovery of a historic store whose schema is complete  *)
(* at version 2 under a stale marker 1 (recovery.rs).  Recovery pins a     *)
(* read snapshot of the source, stages a backup and a repaired output in   *)
(* directories of its own and publishes each by a hard link that refuses   *)
(* an existing file.  Every step may fail or be the last before a crash,   *)
(* and another process may create a file at a destination.                 *)
(***************************************************************************)
EXTENDS Naturals, FiniteSets

CONSTANTS Openers,        \* processes that open the store: gateway, log CLI
          Rows,           \* log rows
          MaxStoreFaults  \* failures, crashes and foreign files

VARIABLES disk,           \* images at the source, backup and output paths
          stage,          \* images in the staging directories
          recoverPc, pinned,
          opener,         \* each process: "closed", "opening", "ready", "refused"
          storeFaults,
          original,       \* the source as found
          intruders       \* destinations another process created

uvars == <<disk, stage, recoverPc, pinned, opener, storeFaults, original, intruders>>

Absent == [kind |-> "absent"]
Foreign == [kind |-> "foreign"]
Partial == [kind |-> "partial"]
Image(marker, shape, rows, defaults) ==
  [kind |-> "store", marker |-> marker, shape |-> shape, rows |-> rows, defaults |-> defaults]

Supported == 3

\* Stores found in the field: fresh, each version, the stale complete v2, an
\* unmarked and a newer one.
Found ==
  {Image(0, 0, {}, FALSE)}
  \cup {Image(v, v, r, d) : v \in 1..Supported, r \in SUBSET Rows, d \in BOOLEAN}
  \cup {Image(1, 2, r, d) : r \in SUBSET Rows, d \in BOOLEAN}
  \cup {Image(0, 2, Rows, FALSE), Image(Supported + 1, Supported + 1, Rows, TRUE)}

StoreInit ==
  /\ original \in Found
  /\ disk = [p \in {"source", "backup", "output"} |-> IF p = "source" THEN original ELSE Absent]
  /\ stage = [p \in {"backup", "output"} |-> Absent]
  /\ recoverPc = "idle" /\ pinned = Absent
  /\ opener = [o \in Openers |-> "closed"]
  /\ storeFaults = 0 /\ intruders = {}

----------------------------------------------------------------------------
(* Store::open and migrate.                                                *)

\* schema_version: no marker is version 0 only on an empty database.
Refused(im) ==
  \/ im.marker = 0 /\ im.shape # 0
  \/ im.marker > Supported
  \/ im.marker = 1 /\ im.shape = 2     \* historic partial v2: recovery only

\* The bug of a marker written outside the transaction of its step.
Migrated_MarkerLater(im) ==
  IF im.shape < Supported THEN [im EXCEPT !.shape = @ + 1]
  ELSE IF im.marker < Supported THEN [im EXCEPT !.marker = @ + 1] ELSE [im EXCEPT !.defaults = TRUE]

\* One transaction of migrate: the next version with its marker, or the
\* missing default settings of the last.
Migrated(im) ==
  IF im.marker < Supported THEN [im EXCEPT !.marker = @ + 1, !.shape = @ + 1]
  ELSE [im EXCEPT !.defaults = TRUE]

Open(o) ==
  /\ opener[o] = "closed" /\ opener' = [opener EXCEPT ![o] = "opening"]
  /\ UNCHANGED <<disk, stage, recoverPc, pinned, storeFaults, original, intruders>>

Migrate(o) ==
  LET im == disk["source"] IN
  /\ opener[o] = "opening"
  /\ IF Refused(im)
     THEN opener' = [opener EXCEPT ![o] = "refused"] /\ UNCHANGED disk
     ELSE /\ disk' = [disk EXCEPT !["source"] = Migrated(im)]
          /\ opener' = [opener EXCEPT ![o] = IF im.marker = Supported THEN "ready" ELSE @]
  /\ UNCHANGED <<stage, recoverPc, pinned, storeFaults, original, intruders>>

OpenerDies(o) ==
  /\ opener[o] # "closed" /\ storeFaults < MaxStoreFaults
  /\ opener' = [opener EXCEPT ![o] = "closed"] /\ storeFaults' = storeFaults + 1
  /\ UNCHANGED <<disk, stage, recoverPc, pinned, original, intruders>>

\* A process that has the store open, or an older binary that still serves
\* the stale one, inserts rows while recovery reads its snapshot.
InsertRow ==
  /\ \E r \in Rows \ disk["source"].rows :
       disk' = [disk EXCEPT !["source"].rows = @ \cup {r}]
  /\ \/ \E o \in Openers : opener[o] = "ready"
     \/ disk["source"].marker = 1 /\ disk["source"].shape = 2
  /\ UNCHANGED <<stage, recoverPc, pinned, opener, storeFaults, original, intruders>>

----------------------------------------------------------------------------
(* recover_known_v2.                                                       *)

Steps(from, to) == recoverPc = from /\ recoverPc' = to
StoreRest == <<opener, storeFaults, original, intruders>>
Stale(im) == im.kind = "store" /\ im.marker = 1 /\ im.shape = 2

\* RecoveryPaths::resolve: both destinations must be fresh.
ResolvePaths ==
  /\ Steps("idle", "recognise")
  /\ disk["backup"] = Absent /\ disk["output"] = Absent
  /\ UNCHANGED <<disk, stage, pinned, StoreRest>>

\* recognize, integrity and Preservation::read in one deferred transaction.
PinSource ==
  /\ Steps("recognise", "stage_backup") /\ Stale(disk["source"])
  /\ pinned' = disk["source"]
  /\ UNCHANGED <<disk, stage, StoreRest>>

BeginBackup ==
  /\ Steps("stage_backup", "copy_backup")
  /\ stage' = [stage EXCEPT !["backup"] = Partial]
  /\ UNCHANGED <<disk, pinned, StoreRest>>

\* online_backup from the pinned snapshot, fingerprint, verify_image, sync.
FinishBackup ==
  /\ Steps("copy_backup", "publish_backup")
  /\ stage' = [stage EXCEPT !["backup"] = pinned]
  /\ UNCHANGED <<disk, pinned, StoreRest>>

\* The bug of publishing by a rename that replaces what is there.
Publish_Replaces(p, from, to) ==
  /\ Steps(from, to)
  /\ disk' = [disk EXCEPT ![p] = stage[p]]
  /\ UNCHANGED <<stage, pinned, StoreRest>>

\* OwnedStage::publish: hard_link refuses an existing final.
Publish(p, from, to) ==
  /\ Steps(from, to) /\ disk[p] = Absent
  /\ disk' = [disk EXCEPT ![p] = stage[p]]
  /\ UNCHANGED <<stage, pinned, StoreRest>>

\* verify_link and verify_image of what was published.
Verify(p, from, to) ==
  /\ Steps(from, to) /\ disk[p] = stage[p]
  /\ UNCHANGED <<disk, stage, pinned, StoreRest>>

BeginOutput ==
  /\ Steps("stage_output", "copy_output")
  /\ stage' = [stage EXCEPT !["output"] = Partial]
  /\ UNCHANGED <<disk, pinned, StoreRest>>

\* copy_image of the published backup.
CopyOutput ==
  /\ Steps("copy_output", "repair") /\ disk["backup"] = stage["backup"]
  /\ stage' = [stage EXCEPT !["output"] = disk["backup"]]
  /\ UNCHANGED <<disk, pinned, StoreRest>>

\* The stale marker becomes 2 in a transaction of its own.
RepairMarker ==
  /\ Steps("repair", "migrate") /\ Stale(stage["output"])
  /\ stage' = [stage EXCEPT !["output"].marker = 2]
  /\ UNCHANGED <<disk, pinned, StoreRest>>

\* The normal migration, then fingerprint, verify_image and sync.
MigrateOutput ==
  /\ recoverPc = "migrate"
  /\ stage' = [stage EXCEPT !["output"] = Migrated(@)]
  /\ recoverPc' = IF stage["output"].marker = Supported THEN "publish_output" ELSE "migrate"
  /\ UNCHANGED <<disk, pinned, StoreRest>>

\* Stages go, whatever happened; a published file stays.
Cleanup ==
  /\ recoverPc \in {"clean", "failed"}
  /\ stage' = [p \in DOMAIN stage |-> Absent]
  /\ recoverPc' = IF recoverPc = "clean" THEN "done" ELSE "idle"
  /\ pinned' = Absent
  /\ UNCHANGED <<disk, StoreRest>>

Working == recoverPc \notin {"idle", "done", "failed"}

\* An error, an identity that changed, or the 30 second budget.
RecoveryFails ==
  /\ Working /\ storeFaults < MaxStoreFaults
  /\ recoverPc' = "failed" /\ storeFaults' = storeFaults + 1
  /\ UNCHANGED <<disk, stage, pinned, opener, original, intruders>>

\* A refused publication, verification or recognition fails the recovery.
RecoveryRefuses ==
  /\ \/ recoverPc = "recognise" /\ ~Stale(disk["source"])
     \/ recoverPc = "publish_backup" /\ disk["backup"] # Absent
     \/ recoverPc = "publish_output" /\ disk["output"] # Absent
  /\ recoverPc' = "failed"
  /\ UNCHANGED <<disk, stage, pinned, StoreRest>>

\* The process dies: its staging directories stay, the next run has its own.
RecoveryDies ==
  /\ Working /\ storeFaults < MaxStoreFaults
  /\ recoverPc' = "idle" /\ pinned' = Absent /\ storeFaults' = storeFaults + 1
  /\ stage' = [p \in DOMAIN stage |-> Absent]
  /\ UNCHANGED <<disk, opener, original, intruders>>

Intrude(p) ==
  /\ disk[p] = Absent /\ storeFaults < MaxStoreFaults
  /\ disk' = [disk EXCEPT ![p] = Foreign]
  /\ intruders' = intruders \cup {p} /\ storeFaults' = storeFaults + 1
  /\ UNCHANGED <<stage, recoverPc, pinned, opener, original>>

RecoverStep ==
  \/ ResolvePaths \/ PinSource \/ BeginBackup \/ FinishBackup
  \/ Publish("backup", "publish_backup", "verify_backup")
  \/ Verify("backup", "verify_backup", "stage_output")
  \/ BeginOutput \/ CopyOutput \/ RepairMarker \/ MigrateOutput
  \/ Publish("output", "publish_output", "verify_output")
  \/ Verify("output", "verify_output", "clean")
  \/ Cleanup \/ RecoveryFails \/ RecoveryRefuses \/ RecoveryDies

StoreNext ==
  \/ \E o \in Openers : Open(o) \/ Migrate(o) \/ OpenerDies(o)
  \/ InsertRow \/ RecoverStep
  \/ \E p \in {"backup", "output"} : Intrude(p)

StoreSpec == StoreInit /\ [][StoreNext]_uvars

----------------------------------------------------------------------------
(* Migration, interrupted anywhere and by two processes, leaves a store    *)
(* whose marker is its schema, keeps every row, hands out only the current *)
(* version, and never touches a store it refuses (migrate).                *)
MigrationIsWhole ==
  LET im == disk["source"] IN
  /\ original.rows \subseteq im.rows
  /\ Refused(original) => <<im.marker, im.shape, im.defaults>>
                          = <<original.marker, original.shape, original.defaults>>
  /\ ~Refused(original) => im.marker = im.shape
  /\ \A o \in Openers : opener[o] = "ready" => im.marker = Supported /\ im.defaults

(* What recovery publishes is complete and carries one pinned snapshot of  *)
(* the source: no crash leaves a partial image at a destination, an output *)
(* never precedes its backup, and a file another process put there is kept *)
(* (recover_known_v2).                                                     *)
RecoveryIsWhole ==
  /\ \A p \in intruders : disk[p] = Foreign
  /\ disk["backup"].kind = "store" =>
       Stale(disk["backup"]) /\ original.rows \subseteq disk["backup"].rows
  /\ disk["output"].kind = "store" =>
       /\ disk["backup"].kind = "store"
       /\ disk["output"] = Image(Supported, Supported, disk["backup"].rows, TRUE)
  /\ \A p \in {"backup", "output"} : disk[p].kind # "partial"

=============================================================================
