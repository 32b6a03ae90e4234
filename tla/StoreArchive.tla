---------------------------- MODULE StoreArchive ----------------------------
(***************************************************************************)
(* The capture archive of marengo-store: bench scripts write hot capture   *)
(* files and register them, marengo-log-cli compresses the older ones into *)
(* blobs (store.rs archive_hot_sessions) and enforces retention by age and *)
(* by disk budget (retention.rs).  Every SQLite statement and every file   *)
(* operation is a step of its own; a tool may die between any two.  The    *)
(* maintenance unit runs archive and, when that succeeded, purge           *)
(* (scripts/systemd/marengo-log-maintenance.service).                      *)
(***************************************************************************)
EXTENDS Naturals, FiniteSets, FiniteSetsExt

CONSTANTS Captures,       \* 1..n, in the order of their start times
          Kinds,          \* 1..k in archive order; Candump is the counted one
          Candump,
          Tools,          \* concurrent invocations of marengo-log-cli
          Keep,           \* sessions that stay hot
          DiskBudget,     \* files the budget allows (the database counts one)
          MaxToolDeaths, MaxStuck, MaxCleared

VARIABLES hotFiles,       \* <<capture, kind>> files under var/log
          blobs,          \* <<capture, kind>> gzip files under var/log/blobs
          sessions,       \* log_sessions: rows by capture
          tool,           \* the state of each CLI invocation
          recorded,       \* captures 1..recorded have been made
          aged,           \* captures 1..aged are older than log_archive_days
          toolDeaths,
          stuck,          \* files whose removal failed
          unlisted,       \* files whose reference an operator cleared
          condemned,      \* captures some retention pass has chosen
          overlapped      \* two invocations have run at the same time

avars == <<hotFiles, blobs, sessions, tool, recorded, aged, toolDeaths, stuck,
           unlisted, condemned, overlapped>>

NoRow == [known |-> FALSE, ended |-> FALSE, ref |-> [k \in Kinds |-> "none"], counts |-> "none"]
Resting == [pc |-> "idle", todo |-> {}, file |-> <<>>, victims |-> {}]

Known == {c \in Captures : sessions[c].known}
Files(v) == {<<v.c, k>> : k \in {k \in Kinds : v.ref[k] # "none"}}

ArchiveInit ==
  /\ hotFiles = {} /\ blobs = {} /\ sessions = [c \in Captures |-> NoRow]
  /\ tool = [t \in Tools |-> Resting]
  /\ recorded = 0 /\ aged = 0 /\ toolDeaths = 0
  /\ stuck = {} /\ unlisted = {} /\ condemned = {} /\ overlapped = FALSE

Ghosts == <<recorded, aged, toolDeaths, stuck, unlisted, condemned, overlapped>>

----------------------------------------------------------------------------
(* Bench scripts and time.                                                 *)

Record ==
  /\ recorded + 1 \in Captures
  /\ recorded' = recorded + 1
  /\ hotFiles' = hotFiles \cup ({recorded + 1} \X Kinds)
  /\ UNCHANGED <<blobs, sessions, tool, aged, toolDeaths, stuck, unlisted, condemned, overlapped>>

\* register_session on a row: omitted references stay, a changed candump
\* reference forgets the counts of the old file.
Registered(row, refs) ==
  [row EXCEPT !.known = TRUE,
              !.ref = [k \in Kinds |-> IF k \in refs THEN "hot" ELSE row.ref[k]],
              !.counts = IF Candump \in refs /\ row.ref[Candump] # "hot" THEN "none" ELSE @]

Register ==
  /\ recorded \in Captures \ condemned /\ ~sessions[recorded].known
  /\ {recorded} \X Kinds \subseteq hotFiles
  /\ sessions' = [sessions EXCEPT ![recorded] = Registered(@, Kinds)]
  /\ UNCHANGED <<hotFiles, blobs, tool, Ghosts>>

Finalize(c) ==
  /\ sessions[c].known /\ ~sessions[c].ended
  /\ sessions' = [sessions EXCEPT ![c].ended = TRUE]
  /\ UNCHANGED <<hotFiles, blobs, tool, Ghosts>>

ClearArtifact(c, k) ==
  /\ Cardinality(unlisted) < MaxCleared
  /\ sessions[c].known /\ sessions[c].ref[k] # "none"
  /\ sessions' = [sessions EXCEPT ![c].ref[k] = "none",
                                  ![c].counts = IF k = Candump THEN "none" ELSE @]
  /\ unlisted' = unlisted \cup {<<c, k>>}
  /\ UNCHANGED <<hotFiles, blobs, tool, recorded, aged, toolDeaths, stuck, condemned, overlapped>>

Age ==
  /\ aged < recorded
  /\ aged' = aged + 1
  /\ UNCHANGED <<hotFiles, blobs, sessions, tool, recorded, toolDeaths, stuck, unlisted,
                 condemned, overlapped>>

----------------------------------------------------------------------------
(* archive_hot_sessions, after import_legacy_hot_report when asked.        *)

Moves(t, pc, todo) == tool' = [tool EXCEPT ![t].pc = pc, ![t].todo = todo]
Ends(t, pc) == tool' = [tool EXCEPT ![t] = [Resting EXCEPT !.pc = pc]]

\* The Keep sessions with the newest hot files stay hot in full.
Archivable ==
  LET hotCaptures == {f[1] : f \in hotFiles}
  IN {f \in hotFiles : Cardinality({c \in hotCaptures : c > f[1]}) >= Keep}

Starts(t) ==
  /\ tool[t].pc = "idle"
  /\ overlapped' = (overlapped \/ \E u \in Tools \ {t} : tool[u].pc # "idle")
  /\ UNCHANGED <<recorded, aged, toolDeaths, stuck, unlisted, condemned>>

StartArchive(t) ==
  /\ Starts(t)
  /\ IF Archivable = {} THEN Ends(t, "archived") ELSE Moves(t, "gzip", Archivable)
  /\ UNCHANGED <<hotFiles, blobs, sessions>>

StartImport(t) ==
  /\ Starts(t) /\ hotFiles # {}
  /\ Moves(t, "import", hotFiles)
  /\ UNCHANGED <<hotFiles, blobs, sessions>>

ImportFile(t) ==
  /\ tool[t].pc = "import"
  /\ \E f \in tool[t].todo :
       /\ sessions' = [sessions EXCEPT ![f[1]] = Registered(@, {f[2]})]
       /\ IF tool[t].todo # {f} THEN Moves(t, "import", tool[t].todo \ {f})
          ELSE IF Archivable = {} THEN Ends(t, "idle") ELSE Moves(t, "gzip", Archivable)
  /\ UNCHANGED <<hotFiles, blobs, Ghosts>>

\* The bug of removing the hot file before its row names the blob.
Gzip_Unlinks(t) ==
  /\ tool[t].pc = "gzip"
  /\ \E f \in tool[t].todo :
       /\ \A g \in tool[t].todo : f[2] <= g[2]
       /\ IF f \in hotFiles
          THEN /\ blobs' = blobs \cup {f} /\ hotFiles' = hotFiles \ {f}
               /\ tool' = [tool EXCEPT ![t].pc = "row", ![t].file = f]
          ELSE Ends(t, "idle") /\ UNCHANGED <<blobs, hotFiles>>
  /\ UNCHANGED <<sessions, Ghosts>>

\* gzip_to_blob: the rename publishes a complete, synced blob; the missing
\* source of a file another invocation archived is an error.
Gzip(t) ==
  /\ tool[t].pc = "gzip"
  /\ \E f \in tool[t].todo :
       /\ \A g \in tool[t].todo : f[2] <= g[2]
       /\ IF f \in hotFiles
          THEN /\ blobs' = blobs \cup {f}
               /\ tool' = [tool EXCEPT ![t].pc = "row", ![t].file = f]
          ELSE Ends(t, "idle") /\ UNCHANGED blobs
  /\ UNCHANGED <<hotFiles, sessions, Ghosts>>

WriteRow(t) ==
  LET f == tool[t].file IN
  /\ tool[t].pc = "row"
  /\ sessions' = [sessions EXCEPT ![f[1]].known = TRUE, ![f[1]].ref[f[2]] = "blob"]
  /\ Moves(t, IF f[2] = Candump THEN "count" ELSE "unlink", tool[t].todo)
  /\ UNCHANGED <<hotFiles, blobs, Ghosts>>

CountFrames(t) ==
  LET f == tool[t].file IN
  /\ tool[t].pc = "count"
  /\ IF f \in blobs
     THEN /\ sessions' = [sessions EXCEPT ![f[1]].counts = IF sessions[f[1]].known THEN "blob" ELSE @]
          /\ Moves(t, "unlink", tool[t].todo)
     ELSE Ends(t, "idle") /\ UNCHANGED sessions
  /\ UNCHANGED <<hotFiles, blobs, Ghosts>>

Unlink(t) ==
  LET f == tool[t].file IN
  /\ tool[t].pc = "unlink"
  /\ hotFiles' = hotFiles \ {f}
  /\ IF f \notin hotFiles THEN Ends(t, "idle")
     ELSE IF tool[t].todo = {f} THEN Ends(t, "archived")
     ELSE Moves(t, "gzip", tool[t].todo \ {f})
  /\ UNCHANGED <<blobs, sessions, Ghosts>>

FinishArchive(t) ==
  /\ tool[t].pc = "archived" /\ Ends(t, "idle")
  /\ UNCHANGED <<hotFiles, blobs, sessions, Ghosts>>

----------------------------------------------------------------------------
(* enforce_retention: purge_before, then evict_to_budget.                  *)

Victim(c) == [c |-> c, ref |-> sessions[c].ref]

\* The bug of purging the live capture by age.
AgedOut_Live == {c \in Known : c <= aged}

\* purge_before: the newest row stays while it is not finalized.
AgedOut == {c \in Known : c <= aged /\ (sessions[c].ended \/ c # Max(Known))}

StartPurge(t) ==
  /\ tool[t].pc = "archived"
  /\ tool' = [tool EXCEPT ![t] = [Resting EXCEPT !.pc = "purge",
                                                 !.victims = {Victim(c) : c \in AgedOut},
                                                 !.todo = AgedOut]]
  /\ condemned' = condemned \cup AgedOut
  /\ UNCHANGED <<hotFiles, blobs, sessions, recorded, aged, toolDeaths, stuck, unlisted, overlapped>>

Named(v, where) == {<<v.c, k>> : k \in {k \in Kinds : v.ref[k] = where}}

\* remove_session_files on one victim: a removal that fails is reported and
\* does not stop the pass.
RemoveFiles(t) ==
  /\ tool[t].pc \in {"purge", "evict"}
  /\ \E v \in tool[t].victims, failed \in SUBSET stuck \cup {{}} \cup {{f} : f \in hotFiles \cup blobs} :
       /\ v.c \in tool[t].todo
       /\ failed \subseteq Files(v) \cap (hotFiles \cup blobs)
       /\ Cardinality(stuck \cup failed) <= MaxStuck
       /\ hotFiles' = hotFiles \ (Named(v, "hot") \ failed)
       /\ blobs' = blobs \ (Named(v, "blob") \ failed)
       /\ stuck' = stuck \cup failed
       /\ tool' = [tool EXCEPT ![t].todo = @ \ {v.c}]
  /\ UNCHANGED <<sessions, recorded, aged, toolDeaths, unlisted, condemned, overlapped>>

\* The rows go in one transaction once every file was tried.
DeleteRows(t) ==
  /\ tool[t].pc \in {"purge", "evict"} /\ tool[t].todo = {}
  /\ sessions' = [c \in Captures |-> IF c \in {v.c : v \in tool[t].victims} THEN NoRow ELSE sessions[c]]
  /\ Ends(t, IF tool[t].pc = "purge" THEN "budget" ELSE "idle")
  /\ UNCHANGED <<hotFiles, blobs, Ghosts>>

Usage == 1 + Cardinality(hotFiles) + Cardinality(blobs)
Freed(c) == Cardinality(Named(Victim(c), "hot") \cap hotFiles)
            + Cardinality(Named(Victim(c), "blob") \cap blobs)

\* evict_to_budget: oldest first until the accounted usage fits, never the
\* newest row.
OverBudget ==
  LET older == {c \in Known : c # Max(Known)}
  IN {c \in older : Usage > DiskBudget + MapThenSumSet(Freed, {d \in older : d < c})}

Evict(t) ==
  /\ tool[t].pc = "budget"
  /\ IF Usage <= DiskBudget THEN Ends(t, "idle") /\ UNCHANGED condemned
     ELSE /\ tool' = [tool EXCEPT ![t] = [Resting EXCEPT !.pc = "evict",
                                                         !.victims = {Victim(c) : c \in OverBudget},
                                                         !.todo = OverBudget]]
          /\ condemned' = condemned \cup OverBudget
  /\ UNCHANGED <<hotFiles, blobs, sessions, recorded, aged, toolDeaths, stuck, unlisted, overlapped>>

ToolDies(t) ==
  /\ tool[t].pc # "idle" /\ toolDeaths < MaxToolDeaths
  /\ toolDeaths' = toolDeaths + 1
  /\ Ends(t, "idle")
  /\ UNCHANGED <<hotFiles, blobs, sessions, recorded, aged, stuck, unlisted, condemned, overlapped>>

ToolStep(t) ==
  \/ StartArchive(t) \/ StartImport(t) \/ ImportFile(t) \/ Gzip(t) \/ WriteRow(t)
  \/ CountFrames(t) \/ Unlink(t) \/ FinishArchive(t)
  \/ StartPurge(t) \/ RemoveFiles(t) \/ DeleteRows(t) \/ Evict(t) \/ ToolDies(t)

ArchiveNext ==
  \/ Record \/ Register \/ Age
  \/ \E c \in Captures : Finalize(c) \/ \E k \in Kinds : ClearArtifact(c, k)
  \/ \E t \in Tools : ToolStep(t)

ArchiveSpec == ArchiveInit /\ [][ArchiveNext]_avars

----------------------------------------------------------------------------
(* An artifact of a capture no retention pass has chosen is on disk, hot   *)
(* or as a blob, whatever invocations overlap or die (archive_files).      *)
NothingLost ==
  \A c \in 1..recorded : c \notin condemned => {c} \X Kinds \subseteq hotFiles \cup blobs

(* A blob has a row that names it, or its hot source is still there to be  *)
(* archived again: no blob leaks where no later purge can find it (the     *)
(* promise of purge_before's comment).  Outside: references an operator    *)
(* cleared, removals that failed, and overlapping invocations.             *)
EverythingFound ==
  ~overlapped => \A f \in blobs \ (unlisted \cup stuck) :
                    f \in hotFiles \/ sessions[f[1]].ref[f[2]] = "blob"

(* Retention never removes the newest capture while it is not finalized:   *)
(* its files are being written (purge_before, evict_to_budget).            *)
LiveCaptureKept ==
  ~overlapped => \A t \in Tools : \A v \in tool[t].victims :
                    v.c # Max(Known) \/ sessions[v.c].ended

(* The frame counts a row shows belong to the candump file it names, but   *)
(* for a reference cleared while its file was being archived.              *)
CountsMatch ==
  ~overlapped => \A c \in Known : <<c, Candump>> \notin unlisted =>
                   sessions[c].counts \in {"none", sessions[c].ref[Candump]}

(* The archive loses no capture, leaks no blob, spares the live capture    *)
(* and shows no stale counts (archive_files, enforce_retention).           *)
ArchiveHolds == NothingLost /\ EverythingFound /\ LiveCaptureKept /\ CountsMatch
=============================================================================
