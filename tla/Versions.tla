------------------------------ MODULE Versions ------------------------------
(***************************************************************************)
(* The versioned model series: SnapshotWriter (simulation/snapshots.py),   *)
(* apply_patch and rollback (simulation/patching.py), the manifest they    *)
(* share (common/models.py), and the processes that use them: a simulation *)
(* that writes a snapshot per control state, the patch_model tool, and the *)
(* self-heal demo, which plants a fault, has the model repaired by the     *)
(* repair planner (agent/repair.py), and rolls back if that does not help. *)
(*                                                                         *)
(* A model is what one of its schedules holds: a value, or nothing when    *)
(* the object is gone, and then EnergyPlus does not run clean.  A process  *)
(* may be killed between any two steps.                                    *)
(***************************************************************************)
EXTENDS Naturals, SequencesExt

CONSTANTS
  Values,       \* what the schedule may hold
  BaseValue,    \* what it holds in the prepared model
  Missing,      \* the schedule object is not in the model
  Garbled,      \* a staged model that does not parse
  ToolPatches,  \* patches the patch_model tool is sent
  Repairs,      \* patches the repair planner's model may answer
  Torn,         \* a manifest that does not parse
  Overlap,      \* may processes run at the same time?
  MaxVersions,  \* bound: entries of the manifest
  MaxKills      \* bound: kills

Models == Values \cup {Missing}

\* PatchOperation: a field set, an object added or removed.  A value may leave
\* the model unparseable.
Operation ==
  [op : {"set_field", "add_object"}, value : Values \cup {Garbled}] \cup [op : {"remove_object"}]

\* A manifest entry: the file it names, the control state it records and the
\* patches that made it, by their kind.
PatchKinds == {"fault", "patch", "repair"}
Entry ==
  [version : Nat,
   name : [version : Nat, kind : PatchKinds \cup {"state", "rollback"}, of : Nat],
   value : Models, patches : Seq(PatchKinds)]

ASSUME VersionsAssumption ==
  /\ BaseValue \in Values /\ Missing \notin Values /\ Garbled \notin Models
  /\ Torn \notin Seq(Entry)
  /\ ToolPatches \cup Repairs \subseteq Seq(Operation)
  /\ Overlap \in BOOLEAN /\ MaxVersions \in Nat /\ MaxKills \in Nat

Processes == {"run", "tool", "heal"}

VARIABLES
  files,      \* the files of the versions directory: name -> model
  disk,       \* the manifest on disk: its entries, or Torn
  proc,       \* process -> where it is and what it holds
  kills       \* auxiliary: kills so far

vars == <<files, disk, proc, kills>>

\* pc, and next: where it goes once its entry is saved; loaded: the manifest of
\* its SnapshotWriter; entry: the entry to append, and onto which manifest;
\* model: the file self-heal would run now; retries: of its repair planner.
Idle == [pc |-> "idle", next |-> "idle", loaded |-> << >>, entry |-> << >>,
         onto |-> "disk", model |-> << >>, retries |-> 0]

Init ==
  /\ files = << >> /\ disk = << >>
  /\ proc = [p \in Processes |-> Idle]
  /\ kills = 0

-----------------------------------------------------------------------------
(* The manifest.                                                           *)

VersionsOf(manifest) == {manifest[i].version : i \in DOMAIN manifest}

NextVersion(manifest) == Max(VersionsOf(manifest) \cup {0}) + 1

EntryOf(manifest, version) ==
  manifest[Min({i \in DOMAIN manifest : manifest[i].version = version})]

NewEntry(version, kind, of, state) ==
  [version |-> version, name |-> [version |-> version, kind |-> kind, of |-> of],
   value |-> state.value, patches |-> state.patches]

\* content_hash: the schedule's value and the patches.
SameContent(entry, state) ==
  entry.value = state.value /\ entry.patches = state.patches

-----------------------------------------------------------------------------
(* What the processes have in common.                                      *)

MayBegin(p) ==
  /\ proc[p].pc = "idle" /\ disk # Torn
  /\ Overlap \/ \A q \in Processes : proc[q].pc = "idle"

\* A function, or a record, with some of its values replaced or added.
Updated(f, changes) ==
  [x \in DOMAIN f \cup DOMAIN changes |-> IF x \in DOMAIN changes THEN changes[x] ELSE f[x]]

Move(p, changes) == proc' = [proc EXCEPT ![p] = Updated(@, changes)]

Raise(p) == proc' = [proc EXCEPT ![p] = Idle] /\ UNCHANGED <<files, disk, kills>>

\* SnapshotManifest.load raises on a manifest that does not parse.
Load(p, action) == IF disk = Torn THEN Raise(p) ELSE action

\* The new version's file, before its entry.
Place(p, entry, model, onto, next) ==
  /\ entry.version <= MaxVersions
  /\ files' = Updated(files, [name \in {entry.name} |-> model])
  /\ Move(p, [pc |-> "saving", next |-> next, entry |-> entry, onto |-> onto,
              model |-> entry.name])
  /\ UNCHANGED <<disk, kills>>

SaveAs(p, manifest, loaded) ==
  /\ disk' = manifest
  /\ Move(p, [pc |-> proc[p].next, entry |-> << >>, loaded |-> loaded])
  /\ UNCHANGED <<files, kills>>

\* self-heal's clean_version: its writer's head, as the writer knows it.
CleanVersion == Last(proc["heal"].loaded).version

\* Mutant of Save: a rollback drops what it goes back over.
SaveRewinding(p) ==
  /\ proc[p].pc = "saving"
  /\ LET kept == IF proc[p].entry.name.kind = "rollback"
                 THEN SelectSeq(disk, LAMBDA e : e.version <= CleanVersion) ELSE disk
         manifest == Append(IF proc[p].onto = "loaded" THEN proc[p].loaded ELSE kept,
                            proc[p].entry)
     IN  SaveAs(p, manifest, IF proc[p].onto = "loaded" THEN manifest ELSE proc[p].loaded)

\* The entry, appended to the writer's own manifest (commit) or to the one on
\* disk, loaded again (_append_entry); either way the whole file is written.
Save(p) ==
  /\ proc[p].pc = "saving"
  /\ IF proc[p].onto = "loaded"
     THEN LET manifest == Append(proc[p].loaded, proc[p].entry)
          IN  SaveAs(p, manifest, manifest)
     ELSE Load(p, SaveAs(p, Append(disk, proc[p].entry), proc[p].loaded))

\* A kill; in the middle of write_text it leaves half a manifest.
Kill(p) ==
  /\ proc[p].pc # "idle" /\ kills < MaxKills
  /\ kills' = kills + 1
  /\ proc' = [proc EXCEPT ![p] = Idle]
  /\ disk' \in {disk} \cup {m \in {Torn} : proc[p].pc = "saving"}
  /\ UNCHANGED files

-----------------------------------------------------------------------------
(* SnapshotWriter.commit                                                   *)

Control(value) == [value |-> value, patches |-> << >>]

Deduped(manifest, state) ==
  manifest # << >> /\ SameContent(Last(manifest), state)

\* Nothing for a state that is the head already; else the base model with the
\* state's values, and its entry.
CommitState(p, state, next) ==
  IF Deduped(proc[p].loaded, state)
  THEN Move(p, [pc |-> next]) /\ UNCHANGED <<files, disk, kills>>
  ELSE Place(p, NewEntry(NextVersion(proc[p].loaded), "state", 0, state), state.value,
             "loaded", next)

\* A run opens a writer, commits the states of its control history and ends.
OpenWriter ==
  /\ MayBegin("run")
  /\ Move("run", [pc |-> "open", loaded |-> disk])
  /\ UNCHANGED <<files, disk, kills>>

CommitHistory ==
  /\ proc["run"].pc = "open"
  /\ \E v \in Values : CommitState("run", Control(v), "open")

CloseWriter == proc["run"].pc = "open" /\ Raise("run")

-----------------------------------------------------------------------------
(* apply_patch and rollback                                                *)

Applicable(model, o) == IF o.op = "add_object" THEN model = Missing ELSE model # Missing

Outcome(o) == IF o.op = "remove_object" THEN Missing ELSE o.value

\* apply_operations: one model, or none as soon as an operation cannot apply.
ApplyOperations(model, operations) ==
  FoldLeft(LAMBDA models, o : {Outcome(o) : m \in {n \in models : Applicable(n, o)}},
           {model}, operations)

\* Mutant of PatchState: the patch is not recorded.
PatchStateForgotten(manifest, kind) ==
  IF manifest = << >> THEN Control(Missing) ELSE Control(Last(manifest).value)

\* _patch_state: the head's values, and its patches with this one.  With no head
\* there is no value to record.
PatchState(manifest, kind) ==
  IF manifest = << >> THEN [value |-> Missing, patches |-> <<kind>>]
  ELSE [value |-> Last(manifest).value, patches |-> Append(Last(manifest).patches, kind)]

\* The staged model, if there is one and it parses.
Staged(model, operations) == ApplyOperations(model, operations) \cap Models

\* apply_patch: a patch that fails, or a result that does not parse, adds nothing.
Patch(p, source, operations, kind, next) ==
  IF Staged(source, operations) = {} THEN Raise(p)
  ELSE Load(p, \E m \in Staged(source, operations) :
                 Place(p, NewEntry(NextVersion(disk), kind, 0, PatchState(disk, kind)), m,
                       "disk", next))

\* Mutant of RollbackTarget: one step back.
StepBack(version) == disk[Len(disk) - 1]

RollbackTarget(version) == EntryOf(disk, version)

\* rollback: the target's bytes and state, as a new version.
Rollback(p, version, next) ==
  Load(p, LET target == RollbackTarget(version)
          IN  Place(p, NewEntry(NextVersion(disk), "rollback", version, target),
                    files[target.name], "disk", next))

\* The patch_model tool, which patches the prepared model and not the head.
PatchModel ==
  /\ MayBegin("tool")
  /\ \E operations \in ToolPatches : Patch("tool", BaseValue, operations, "patch", "idle")

-----------------------------------------------------------------------------
(* run_self_heal                                                           *)

BeginHeal ==
  /\ MayBegin("heal")
  /\ Move("heal", [pc |-> "baseline", loaded |-> disk])
  /\ UNCHANGED <<files, disk, kills>>

RegisterBaseline ==
  /\ proc["heal"].pc = "baseline"
  /\ CommitState("heal", Control(BaseValue), "registered")

\* The fault goes in as a patch of the base model.
PlantFault ==
  /\ proc["heal"].pc = "registered"
  /\ Patch("heal", BaseValue, <<[op |-> "remove_object"]>>, "fault", "faulted")

\* The newest repair on the manifest whose file is there; the faulted run has
\* errors, and the detector fires on them.
Replay ==
  /\ proc["heal"].pc = "faulted"
  /\ LET repairs == {i \in DOMAIN disk : disk[i].name.kind = "repair"
                                         /\ disk[i].name \in DOMAIN files}
     IN  Load("heal",
           IF repairs = {} THEN Raise("heal")
           ELSE /\ Move("heal", [pc |-> "patched", model |-> disk[Max(repairs)].name])
                /\ UNCHANGED <<files, disk, kills>>)

\* RepairPlanner._generate: an answer that does not validate is asked for again
\* once; a second one, or a call that raises, ends the demo.
AskAgain ==
  /\ proc["heal"].pc = "faulted"
  /\ IF proc["heal"].retries = 0
     THEN Move("heal", [retries |-> 1]) /\ UNCHANGED <<files, disk, kills>>
     ELSE Raise("heal")

\* A patch, applied to the faulted model.
Repair ==
  /\ proc["heal"].pc = "faulted"
  /\ \E operations \in Repairs :
       Patch("heal", files[proc["heal"].model], operations, "repair", "patched")

\* The patched model is run, and rolled back unless it is clean.
Rerun ==
  /\ proc["heal"].pc = "patched"
  /\ IF files[proc["heal"].model] # Missing
     THEN Move("heal", [pc |-> "resumed"]) /\ UNCHANGED <<files, disk, kills>>
     ELSE Rollback("heal", CleanVersion, "resumed")

EndHeal == proc["heal"].pc = "resumed" /\ Raise("heal")

Next ==
  \/ OpenWriter \/ CommitHistory \/ CloseWriter
  \/ PatchModel
  \/ BeginHeal \/ RegisterBaseline \/ PlantFault
  \/ Replay \/ AskAgain \/ Repair \/ Rerun \/ EndHeal
  \/ \E p \in Processes : Save(p) \/ Kill(p)

Spec == Init /\ [][Next]_vars

-----------------------------------------------------------------------------
(* Properties.                                                             *)

Readable == disk # Torn

\* The series the manifest lists, each version with the model its file holds.
Listing ==
  IF Readable
  THEN [i \in DOMAIN disk |-> [version |-> disk[i].version, model |-> files[disk[i].name]]]
  ELSE << >>

Series == INSTANCE VersionSeries WITH
  Numbers <- 1 .. MaxVersions, readable <- Readable, series <- Listing

\* Snapshots, patches and rollbacks, failing or killed half-way, make up one
\* append-only history whose listed models never change (commit, apply_patch,
\* rollback, _append_entry).
SeriesKept == Series!Spec

\* Self-heal resumes on a model that runs clean, whatever the planner answers
\* and whichever version it takes for the last good one (run_self_heal).
ResumesOnCleanModel ==
  proc["heal"].pc = "resumed" => files[proc["heal"].model] # Missing

\* A version with no patch recorded is the base model with the values recorded
\* for it, so that a commit deduped against it loses nothing (commit, rollback).
UnpatchedIsItsState ==
  Readable => \A i \in DOMAIN disk : disk[i].patches = << >> =>
                files[disk[i].name] = disk[i].value
=============================================================================
