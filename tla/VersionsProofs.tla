--------------------------- MODULE VersionsProofs ---------------------------
(***************************************************************************)
(* While processes take turns, for any patches and any number of versions  *)
(* and kills: the manifest lists an append-only series, what is listed as  *)
(* unpatched is its recorded state, and self-heal resumes on a model that  *)
(* runs clean.                                                             *)
(***************************************************************************)
EXTENDS Versions, SequenceTheorems, WellFoundedInduction, TLAPS

-----------------------------------------------------------------------------
(* The invariant, for processes that take turns.                           *)

Fields == {"pc", "next", "loaded", "entry", "onto", "model", "retries"}

\* Where each process can be.
Where(p) ==
  CASE p = "run" -> {"idle", "open", "saving"}
    [] p = "tool" -> {"idle", "saving"}
    [] OTHER -> {"idle", "baseline", "registered", "faulted", "patched", "resumed", "saving"}

Busy(p) == proc[p].pc # "idle"
Saving(p) == proc[p].pc = "saving"

Typed(p) ==
  DOMAIN proc[p] = Fields /\ proc[p].pc \in Where(p) /\ proc[p].loaded \in Seq(Entry)

TypeOK ==
  /\ disk \in Seq(Entry) \cup {Torn}
  /\ DOMAIN proc = Processes /\ \A p \in Processes : Typed(p)

\* Processes take turns, over a manifest that parses.
Alone ==
  /\ \A p \in Processes : Busy(p) => Readable
  /\ \A p, q \in Processes : Busy(p) /\ Busy(q) => p = q

\* A file that is what the entry says of it.
Filed(entry) ==
  /\ entry.name.version = entry.version
  /\ entry.name \in DOMAIN files
  /\ files[entry.name] \in Models
  /\ entry.patches = << >> => files[entry.name] = entry.value

\* Every version listed has its file, and the numbers go up.
Listed ==
  Readable =>
    /\ \A i \in DOMAIN disk : disk[i].version \in 1 .. MaxVersions /\ Filed(disk[i])
    /\ \A i, j \in DOMAIN disk : i < j => disk[i].version < disk[j].version

\* The entry about to be saved is newer than all, and its file is there.
EntryIsNew(p) ==
  Saving(p) =>
    LET e == proc[p].entry
    IN  /\ e \in Entry /\ Filed(e)
        /\ e.version \in 1 .. MaxVersions
        /\ \A i \in DOMAIN disk : disk[i].version < e.version
        /\ proc[p].model = e.name

\* A writer's own manifest is the one on disk while it may commit.
MayCommit(p) ==
  \/ Saving(p) /\ proc[p].onto = "loaded"
  \/ proc[p].pc \in {"open", "baseline", "registered"}

LoadedIsDisk(p) == MayCommit(p) => proc[p].loaded = disk

\* Where a process goes next, and onto which manifest it saves.
Onward(p, next, onto) ==
  CASE p = "run" -> next = "open" /\ onto = "loaded"
    [] p = "tool" -> next = "idle" /\ onto = "disk"
    [] OTHER -> \/ next = "registered" /\ onto = "loaded"
                \/ next \in {"faulted", "patched", "resumed"} /\ onto = "disk"

NextStage(p) == Saving(p) => Onward(p, proc[p].next, proc[p].onto)

\* The version self-heal would roll back to is the head of its writer's
\* manifest; it is the prepared model, and stays where it is on disk.
Clean(entry) == entry.value = BaseValue /\ entry.patches = << >>

CleanHead(loaded) ==
  /\ loaded # << >> /\ Clean(Last(loaded))
  /\ Len(loaded) <= Len(disk) /\ disk[Len(loaded)] = Last(loaded)

Based(p) ==
  \/ proc[p].pc \in {"registered", "faulted", "patched", "resumed"}
  \/ Saving(p) /\ proc[p].next # "registered"

CleanKept(p) ==
  p = "heal" =>
    /\ Saving(p) /\ proc[p].next = "registered" => Clean(proc[p].entry)
    /\ Based(p) => CleanHead(proc[p].loaded)

\* The model self-heal would run, and the one it resumes on.
ModelRuns(p) ==
  /\ proc[p].pc \in {"faulted", "patched", "resumed"} =>
       proc[p].model \in DOMAIN files /\ files[proc[p].model] \in Models
  /\ \/ proc[p].pc = "resumed"
     \/ Saving(p) /\ proc[p].next = "resumed"
     => files[proc[p].model] # Missing

Stage(p) == EntryIsNew(p) /\ LoadedIsDisk(p) /\ NextStage(p) /\ CleanKept(p) /\ ModelRuns(p)

IInv == TypeOK /\ Alone /\ Listed /\ \A p \in Processes : Stage(p)

-----------------------------------------------------------------------------
(* What the operators of the model do.                                     *)

\* Some fields of one process change.
LEMMA MoveEffect ==
  ASSUME TypeOK, NEW p \in Processes, NEW c, DOMAIN c \subseteq Fields, Move(p, c)
  PROVE  /\ DOMAIN proc' = Processes /\ DOMAIN proc'[p] = Fields
         /\ \A q \in Processes \ {p} : proc'[q] = proc[q]
         /\ \A f \in Fields : proc'[p][f] = IF f \in DOMAIN c THEN c[f] ELSE proc[p][f]
<1>1. proc'[p] = Updated(proc[p], c) /\ DOMAIN proc' = Processes
  BY DEF TypeOK, Move
<1>2. DOMAIN proc[p] = Fields
  BY DEF TypeOK, Typed
<1> QED
  BY <1>1, <1>2 DEF Move, Updated

\* One file is written, the others stay.
LEMMA FileEffect ==
  ASSUME NEW n, NEW m, files' = Updated(files, [x \in {n} |-> m])
  PROVE  /\ n \in DOMAIN files' /\ files'[n] = m
         /\ \A x \in DOMAIN files \ {n} : x \in DOMAIN files' /\ files'[x] = files[x]
  BY DEF Updated

\* The versions listed have a newest one among any of them.
LEMMA MaxInSet ==
  ASSUME NEW n \in Nat, NEW S, S \subseteq 1 .. n, S # {}
  PROVE  Max(S) \in S
<1> DEFINE T == {n - x : x \in S}
           Below == {p \in Nat \X Nat : p[1] < p[2]}
<1>0. T # {}
  OBVIOUS
<1>1. T \subseteq Nat
  OBVIOUS
<1>2. PICK m \in T : \A y \in T : <<y, m>> \notin Below
  <2>1. IsWellFoundedOn(Below, Nat)
    BY NatLessThanWellFounded DEF OpToRel
  <2> HIDE DEF T, Below
  <2> QED
    BY <1>0, <1>1, <2>1, WFMin
<1>3. PICK x \in S : m = n - x
  BY <1>2
<1>4. \A y \in S : x >= y
  <2> TAKE y \in S
  <2>1. n - y \in T /\ n - y \in Nat /\ m \in Nat
    BY <1>1, <1>2
  <2>2. <<n - y, m>> \in Nat \X Nat /\ <<n - y, m>> \notin Below
    BY <1>2, <2>1
  <2>3. ~(n - y < m)
    BY <2>2
  <2> QED
    BY <1>3, <2>1, <2>3
<1> QED
  BY <1>4 DEF Max

LEMMA EntryType ==
  ASSUME NEW e \in Entry
  PROVE  /\ e.version \in Nat /\ e.name.version \in Nat
         /\ e.value \in Models /\ e.patches \in Seq(PatchKinds)
  BY DEF Entry

LEMMA ListedType ==
  ASSUME disk \in Seq(Entry)
  PROVE  /\ Len(disk) \in Nat /\ DOMAIN disk = 1 .. Len(disk)
         /\ \A i \in DOMAIN disk : disk[i] \in Entry /\ disk[i].version \in Nat
<1>1. Len(disk) \in Nat /\ DOMAIN disk = 1 .. Len(disk)
  BY LenProperties
<1>2. \A i \in DOMAIN disk : disk[i] \in Entry
  BY <1>1, ElementOfSeq
<1> QED
  BY <1>1, <1>2, EntryType

\* The next version is above all that are listed.
LEMMA NextIsNewer ==
  ASSUME TypeOK, Listed, Readable
  PROVE  /\ NextVersion(disk) \in Nat \ {0}
         /\ \A i \in DOMAIN disk : disk[i].version < NextVersion(disk)
<1> DEFINE S == VersionsOf(disk) \cup {0}
<1>1. disk \in Seq(Entry) /\ Len(disk) \in Nat /\ DOMAIN disk = 1 .. Len(disk)
  BY LenProperties DEF TypeOK, Readable
<1>2. \A i \in DOMAIN disk : disk[i].version \in Nat
  BY <1>1, ListedType
<1>3. \E x \in S : \A y \in S : x >= y
  <2>1. CASE Len(disk) = 0
    <3>1. S = {0}
      BY <1>1, <2>1 DEF VersionsOf
    <3> QED
      BY <3>1
  <2>2. CASE Len(disk) # 0
    <3> DEFINE x == disk[Len(disk)].version
    <3>1. Len(disk) \in DOMAIN disk
      BY <1>1, <2>2
    <3>2. \A i \in DOMAIN disk : x >= disk[i].version
      <4> TAKE i \in DOMAIN disk
      <4>1. CASE i = Len(disk)
        BY <1>2, <3>1, <4>1
      <4>2. CASE i < Len(disk)
        BY <1>2, <3>1, <4>2 DEF Listed
      <4> QED
        BY <1>1, <4>1, <4>2
    <3>3. x \in S /\ x \in Nat
      BY <1>2, <3>1 DEF VersionsOf
    <3>4. \A y \in S : x >= y
      BY <3>2, <3>3 DEF VersionsOf
    <3> QED
      BY <3>3, <3>4
  <2> QED
    BY <1>1, <2>1, <2>2
<1>4. Max(S) \in S /\ \A y \in S : Max(S) >= y
  <2> HIDE DEF S
  <2> QED
    BY <1>3 DEF Max
<1>5. Max(S) \in Nat
  BY <1>2, <1>4 DEF VersionsOf
<1>6. NextVersion(disk) = Max(S) + 1
  BY DEF NextVersion
<1>7. \A i \in DOMAIN disk : disk[i].version \in S
  BY DEF VersionsOf
<1> HIDE DEF S
<1> QED
  BY <1>2, <1>4, <1>5, <1>6, <1>7

\* What a listed version number stands for.
LEMMA EntryFound ==
  ASSUME TypeOK, Listed, Readable, NEW k \in DOMAIN disk
  PROVE  EntryOf(disk, disk[k].version) = disk[k]
<1> DEFINE S == {i \in DOMAIN disk : disk[i].version = disk[k].version}
<1>1. disk \in Seq(Entry) /\ Len(disk) \in Nat /\ DOMAIN disk = 1 .. Len(disk)
  BY LenProperties DEF TypeOK, Readable
<1>2. S = {k}
  <2>1. \A i \in DOMAIN disk : disk[i].version \in Nat
    BY <1>1, ListedType
  <2>2. ASSUME NEW i \in S PROVE i = k
    <3>1. i \in DOMAIN disk /\ disk[i].version = disk[k].version
      BY <2>2
    <3> QED
      BY <1>1, <2>1, <3>1 DEF Listed
  <2> QED
    BY <2>2
<1>3. Min(S) = k
  BY <1>1, <1>2 DEF Min
<1> QED
  BY <1>3 DEF EntryOf

\* A new entry for a recorded state.
LEMMA NewEntryType ==
  ASSUME NEW v \in Nat, NEW kind \in PatchKinds \cup {"state", "rollback"}, NEW of \in Nat,
         NEW state, state.value \in Models, state.patches \in Seq(PatchKinds)
  PROVE  LET e == NewEntry(v, kind, of, state)
         IN  /\ e \in Entry /\ e.version = v /\ e.name.version = v
             /\ e.value = state.value /\ e.patches = state.patches
  BY DEF NewEntry, Entry

\* A patch is recorded with the state it was made on.
LEMMA PatchStateType ==
  ASSUME NEW manifest \in Seq(Entry), NEW kind \in PatchKinds
  PROVE  LET s == PatchState(manifest, kind)
         IN  s.value \in Models /\ s.patches \in Seq(PatchKinds) /\ s.patches # << >>
<1>1. CASE manifest = << >>
  BY <1>1 DEF PatchState, Models
<1>2. CASE manifest # << >>
  <2>1. Last(manifest) \in Entry
    BY <1>2, EmptySeq, LenProperties, ElementOfSeq DEF Last
  <2>2. Last(manifest).value \in Models /\ Last(manifest).patches \in Seq(PatchKinds)
    BY <2>1 DEF Entry
  <2> DEFINE ps == Append(Last(manifest).patches, kind)
  <2>3. ps \in Seq(PatchKinds) /\ ps # << >>
    BY <2>2, AppendProperties
  <2>4. PatchState(manifest, kind) = [value |-> Last(manifest).value, patches |-> ps]
    BY <1>2 DEF PatchState
  <2> HIDE DEF ps
  <2> QED
    BY <2>2, <2>3, <2>4
<1> QED
  BY <1>1, <1>2

-----------------------------------------------------------------------------
(* A step of one process while the others are idle.                        *)

OthersIdle(p) == \A q \in Processes \ {p} : proc[q].pc = "idle"

\* Only the process that moved is to be looked at.
LEMMA Turn ==
  ASSUME NEW p \in Processes, TypeOK, OthersIdle(p),
         DOMAIN proc' = Processes, \A q \in Processes \ {p} : proc'[q] = proc[q],
         disk' \in Seq(Entry) \cup {Torn}, Typed(p)', Busy(p)' => Readable', Listed', Stage(p)'
  PROVE  IInv'
<1>1. \A q \in Processes \ {p} : Typed(q)' /\ ~Busy(q)' /\ Stage(q)'
  BY DEF OthersIdle, Busy, Typed, TypeOK, Stage, EntryIsNew, LoadedIsDisk, MayCommit,
         NextStage, CleanKept, Based, ModelRuns, Saving
<1>2. TypeOK'
  BY <1>1 DEF TypeOK
<1>3. Alone'
  BY <1>1 DEF Alone
<1> QED
  BY <1>1, <1>2, <1>3 DEF IInv

\* A process that is busy is so alone; one that may begin is, too.
LEMMA BusyAlone ==
  ASSUME IInv, NEW p \in Processes, Busy(p)
  PROVE  OthersIdle(p) /\ Readable /\ disk \in Seq(Entry)
  BY DEF IInv, Alone, OthersIdle, Busy, Readable, TypeOK

LEMMA BeginAlone ==
  ASSUME IInv, ~Overlap, NEW p \in Processes, MayBegin(p)
  PROVE  OthersIdle(p) /\ Readable /\ disk \in Seq(Entry)
  BY DEF IInv, MayBegin, OthersIdle, Readable, TypeOK

\* A process ends, or is killed, over the same files.
LEMMA EndStep ==
  ASSUME IInv, NEW p \in Processes, OthersIdle(p), proc' = [proc EXCEPT ![p] = Idle],
         disk' \in {disk, Torn}, UNCHANGED files
  PROVE  IInv' /\ Listing' \in {Listing, << >>} /\ (disk' = disk => Listing' = Listing)
<1>1. proc'[p] = Idle /\ DOMAIN proc' = Processes
      /\ \A q \in Processes \ {p} : proc'[q] = proc[q]
  BY DEF IInv, TypeOK
<1>2. Typed(p)' /\ ~Busy(p)' /\ Stage(p)'
  <2>1. << >> \in Seq(Entry)
    BY EmptySeq
  <2>2. DOMAIN Idle = Fields /\ Idle.pc = "idle" /\ Idle.loaded = << >>
    BY DEF Idle, Fields
  <2>3. "idle" \in Where(p)
    BY DEF Where
  <2> QED
    BY <1>1, <2>1, <2>2, <2>3
    DEF Typed, Busy, Stage, EntryIsNew, LoadedIsDisk, MayCommit, NextStage, CleanKept,
        Based, ModelRuns, Saving
<1>3. Listed'
  BY DEF IInv, Listed, Readable, Filed
<1>4. disk' \in Seq(Entry) \cup {Torn}
  BY DEF IInv, TypeOK
<1>5. IInv'
  BY <1>1, <1>2, <1>3, <1>4, Turn DEF IInv
<1>6. Listing' \in {Listing, << >>} /\ (disk' = disk => Listing' = Listing)
  BY DEF Listing, Readable
<1> QED
  BY <1>5, <1>6

\* A process moves on over the same files.
LEMMA AdvanceStep ==
  ASSUME IInv, NEW p \in Processes, OthersIdle(p), Readable, UNCHANGED <<files, disk>>,
         NEW c, DOMAIN c \subseteq Fields, Move(p, c), Typed(p)', Stage(p)'
  PROVE  IInv' /\ Listing' = Listing
<1>1. DOMAIN proc' = Processes /\ \A q \in Processes \ {p} : proc'[q] = proc[q]
  BY MoveEffect DEF IInv
<1>2. Listed' /\ Listing' = Listing /\ Readable'
  BY DEF IInv, Listed, Filed, Listing, Readable
<1>3. disk' \in Seq(Entry) \cup {Torn}
  BY DEF IInv, TypeOK
<1> QED
  BY <1>1, <1>2, <1>3, Turn DEF IInv

\* The file of a new version: no listed one is touched, and the process is
\* about to save its entry.
LEMMA PlaceStep ==
  ASSUME IInv, NEW p \in Processes, OthersIdle(p), Readable,
         NEW e \in Entry, e.name.version = e.version, e.version # 0,
         \A i \in DOMAIN disk : disk[i].version < e.version,
         NEW m \in Models, e.patches = << >> => m = e.value,
         NEW onto, NEW next, Onward(p, next, onto),
         onto = "loaded" => proc[p].loaded = disk,
         p = "heal" /\ next = "registered" => Clean(e),
         p = "heal" /\ next # "registered" => CleanHead(proc[p].loaded),
         next = "resumed" => m # Missing,
         Place(p, e, m, onto, next)
  PROVE  IInv' /\ Listing' = Listing
<1> DEFINE c == [pc |-> "saving", next |-> next, entry |-> e, onto |-> onto, model |-> e.name]
<1>1. /\ Move(p, c) /\ e.version <= MaxVersions /\ disk' = disk
      /\ files' = Updated(files, [x \in {e.name} |-> m])
  BY DEF Place
<1>2. /\ DOMAIN proc' = Processes /\ DOMAIN proc'[p] = Fields
      /\ \A q \in Processes \ {p} : proc'[q] = proc[q]
      /\ proc'[p].pc = "saving" /\ proc'[p].next = next /\ proc'[p].entry = e
      /\ proc'[p].onto = onto /\ proc'[p].model = e.name /\ proc'[p].loaded = proc[p].loaded
  <2>1. DOMAIN c \subseteq Fields
    BY DEF Fields
  <2>2. \A f \in Fields : proc'[p][f] = IF f \in DOMAIN c THEN c[f] ELSE proc[p][f]
    BY <1>1, <2>1, MoveEffect DEF IInv
  <2>3. /\ DOMAIN proc' = Processes /\ DOMAIN proc'[p] = Fields
        /\ \A q \in Processes \ {p} : proc'[q] = proc[q]
    <3> HIDE DEF c
    <3> QED
      BY <1>1, <2>1, MoveEffect DEF IInv
  <2> QED
    BY <2>2, <2>3 DEF Fields
<1> HIDE DEF c
<1>3. /\ e.name \in DOMAIN files' /\ files'[e.name] = m
      /\ \A x \in DOMAIN files \ {e.name} : x \in DOMAIN files' /\ files'[x] = files[x]
  BY <1>1, FileEffect
<1>4. disk \in Seq(Entry) /\ Listed /\ e.version \in Nat
  BY EntryType DEF IInv, TypeOK, Readable
<1>5. \A i \in DOMAIN disk :
        /\ disk[i].version \in 1 .. MaxVersions /\ Filed(disk[i])
        /\ disk[i].name \in DOMAIN files' /\ files'[disk[i].name] = files[disk[i].name]
  <2> TAKE i \in DOMAIN disk
  <2>1. disk[i].version \in 1 .. MaxVersions /\ Filed(disk[i])
    BY <1>4 DEF Listed
  <2>2. disk[i].name.version # e.name.version
    BY <1>4, <2>1, ListedType DEF Filed
  <2> QED
    BY <1>3, <2>1, <2>2 DEF Filed
<1>6. Listed'
  BY <1>1, <1>4, <1>5 DEF Listed, Filed, Readable
<1>7. Listing' = Listing
  BY <1>1, <1>5 DEF Listing, Readable
<1>8. Typed(p)' /\ Readable'
  <2>1. "saving" \in Where(p)
    BY DEF Where
  <2> QED
    BY <1>1, <1>2, <2>1 DEF Typed, IInv, TypeOK, Readable
<1>9. Stage(p)'
  <2>1. EntryIsNew(p)'
    BY <1>1, <1>2, <1>3, <1>4, VersionsAssumption DEF EntryIsNew, Filed
  <2>2. LoadedIsDisk(p)' /\ NextStage(p)'
    BY <1>1, <1>2 DEF LoadedIsDisk, MayCommit, NextStage, Saving
  <2>3. CleanKept(p)'
    BY <1>1, <1>2 DEF CleanKept, Based, Saving, CleanHead, Clean
  <2>4. ModelRuns(p)'
    BY <1>2, <1>3 DEF ModelRuns, Saving
  <2> QED
    BY <2>1, <2>2, <2>3, <2>4 DEF Stage
<1>10. disk' \in Seq(Entry) \cup {Torn}
  BY <1>1, <1>4
<1> QED
  BY <1>2, <1>6, <1>7, <1>8, <1>9, <1>10, Turn DEF IInv

\* What saving does: the entry becomes the head of the manifest on disk.
LEMMA SaveEffect ==
  ASSUME IInv, NEW p \in Processes, Save(p)
  PROVE  /\ Saving(p) /\ disk' = Append(disk, proc[p].entry) /\ UNCHANGED files
         /\ DOMAIN proc' = Processes /\ DOMAIN proc'[p] = Fields
         /\ \A q \in Processes \ {p} : proc'[q] = proc[q]
         /\ proc'[p].pc = proc[p].next /\ proc'[p].model = proc[p].model
         /\ proc'[p].onto = proc[p].onto
         /\ proc'[p].loaded = IF proc[p].onto = "loaded" THEN disk' ELSE proc[p].loaded
<1>1. Saving(p) /\ Readable
  BY DEF Save, Saving, IInv, Alone, Busy
<1>2. proc[p].onto = "loaded" => proc[p].loaded = disk
  BY <1>1 DEF IInv, Stage, LoadedIsDisk, MayCommit
<1> DEFINE manifest == Append(disk, proc[p].entry)
           kept == IF proc[p].onto = "loaded" THEN manifest ELSE proc[p].loaded
           c == [pc |-> proc[p].next, entry |-> << >>, loaded |-> kept]
<1>3. SaveAs(p, manifest, kept)
  BY <1>1, <1>2 DEF Save, Load, Readable
<1>4. Move(p, c) /\ disk' = manifest /\ UNCHANGED files
  BY <1>3 DEF SaveAs
<1>5. DOMAIN c \subseteq Fields
  BY DEF Fields
<1>6. \A f \in Fields : proc'[p][f] = IF f \in DOMAIN c THEN c[f] ELSE proc[p][f]
  BY <1>4, <1>5, MoveEffect DEF IInv
<1>7. /\ DOMAIN proc' = Processes /\ DOMAIN proc'[p] = Fields
      /\ \A q \in Processes \ {p} : proc'[q] = proc[q]
  <2> HIDE DEF c
  <2> QED
    BY <1>4, <1>5, MoveEffect DEF IInv
<1>8. /\ proc'[p].pc = proc[p].next /\ proc'[p].model = proc[p].model
      /\ proc'[p].onto = proc[p].onto /\ proc'[p].loaded = kept
  <2> HIDE DEF kept
  <2> QED
    BY <1>6 DEF Fields
<1> HIDE DEF c
<1> QED
  BY <1>1, <1>4, <1>7, <1>8

\* The series as it is listed with one entry more.
LEMMA ListingExtended ==
  ASSUME IInv, Readable, NEW e \in Entry, disk' = Append(disk, e), UNCHANGED files, Readable'
  PROVE  Listing' = Append(Listing, [version |-> e.version, model |-> files[e.name]])
<1> DEFINE R == [version : Nat, model : {files[n] : n \in {e.name} \cup {disk[i].name : i \in DOMAIN disk}}]
           r == [version |-> e.version, model |-> files[e.name]]
           f(i) == [version |-> disk[i].version, model |-> files[disk[i].name]]
<1>1. disk \in Seq(Entry)
  BY DEF IInv, TypeOK, Readable
<1>2. /\ Len(disk) \in Nat /\ DOMAIN disk = 1 .. Len(disk)
      /\ \A i \in DOMAIN disk : disk[i] \in Entry /\ disk[i].version \in Nat
  BY <1>1, ListedType
<1>3. /\ disk' \in Seq(Entry) /\ Len(disk') = Len(disk) + 1
      /\ \A i \in 1 .. Len(disk) : disk'[i] = disk[i]
      /\ disk'[Len(disk) + 1] = e
  BY <1>1, AppendProperties
<1>4. Listing = [i \in 1 .. Len(disk) |-> f(i)]
  BY <1>2 DEF Listing
<1>5. \A i \in 1 .. Len(disk) : f(i) \in R
  BY <1>2
<1>6. r \in R
  BY EntryType
<1>7. Listing \in Seq(R) /\ Len(Listing) = Len(disk)
  <2> HIDE DEF R, f
  <2> QED
    BY <1>2, <1>4, <1>5, IsASeq, LenProperties
<1>8. /\ Append(Listing, r) \in Seq(R) /\ Len(Append(Listing, r)) = Len(disk) + 1
      /\ \A i \in 1 .. Len(disk) : Append(Listing, r)[i] = f(i)
      /\ Append(Listing, r)[Len(disk) + 1] = r
  <2> HIDE DEF R, r, f
  <2> QED
    BY <1>2, <1>4, <1>6, <1>7, AppendProperties
<1>9. DOMAIN disk' = 1 .. Len(disk) + 1
  BY <1>3, LenProperties
<1>10. Listing' = [i \in 1 .. Len(disk) + 1 |->
                    [version |-> disk'[i].version, model |-> files[disk'[i].name]]]
  BY <1>9 DEF Listing
<1>11. \A i \in 1 .. Len(disk) + 1 :
         [version |-> disk'[i].version, model |-> files[disk'[i].name]] = Append(Listing, r)[i]
  BY <1>2, <1>3, <1>8
<1>12. Append(Listing, r) = [i \in 1 .. Len(disk) + 1 |-> Append(Listing, r)[i]]
  <2> HIDE DEF R, r
  <2> QED
    BY <1>8, LenProperties
<1> HIDE DEF r
<1>13. Listing' = Append(Listing, r)
  BY <1>10, <1>11, <1>12
<1> QED
  BY <1>13 DEF r

\* Saving keeps the invariant and extends the series.
LEMMA SaveStep ==
  ASSUME IInv, NEW p \in Processes, Save(p)
  PROVE  IInv' /\ Readable /\ Readable' /\ Series!Extend
<1> DEFINE e == proc[p].entry
<1>1. /\ Saving(p) /\ disk' = Append(disk, e) /\ UNCHANGED files
      /\ DOMAIN proc' = Processes /\ DOMAIN proc'[p] = Fields
      /\ \A q \in Processes \ {p} : proc'[q] = proc[q]
      /\ proc'[p].pc = proc[p].next /\ proc'[p].model = proc[p].model
      /\ proc'[p].onto = proc[p].onto
      /\ proc'[p].loaded = IF proc[p].onto = "loaded" THEN disk' ELSE proc[p].loaded
  BY SaveEffect
<1>2. OthersIdle(p) /\ Readable /\ disk \in Seq(Entry)
  BY <1>1, BusyAlone DEF Saving, Busy
<1>3. /\ e \in Entry /\ Filed(e) /\ e.version \in 1 .. MaxVersions
      /\ \A i \in DOMAIN disk : disk[i].version < e.version
      /\ proc[p].model = e.name
  BY <1>1 DEF IInv, Stage, EntryIsNew
<1>4. Onward(p, proc[p].next, proc[p].onto)
  BY <1>1 DEF IInv, Stage, NextStage
<1> HIDE DEF e
<1>5. /\ disk' \in Seq(Entry) /\ Len(disk') = Len(disk) + 1 /\ disk' # << >>
      /\ \A i \in 1 .. Len(disk) : disk'[i] = disk[i]
      /\ disk'[Len(disk) + 1] = e
  BY <1>1, <1>2, <1>3, AppendProperties
<1>6. /\ Len(disk) \in Nat /\ DOMAIN disk = 1 .. Len(disk)
      /\ \A i \in DOMAIN disk : disk[i] \in Entry /\ disk[i].version \in Nat
  BY <1>2, ListedType
<1>7. DOMAIN disk' = 1 .. Len(disk) + 1 /\ Readable'
  BY <1>5, LenProperties, VersionsAssumption DEF Readable
<1>8. Listed'
  <2>1. \A i \in DOMAIN disk' : disk'[i].version \in 1 .. MaxVersions /\ Filed(disk'[i])
    BY <1>2, <1>3, <1>5, <1>6, <1>7 DEF IInv, Listed
  <2>2. ASSUME NEW i \in DOMAIN disk', NEW j \in DOMAIN disk', i < j
        PROVE  disk'[i].version < disk'[j].version
    <3>1. CASE j = Len(disk) + 1
      BY <1>3, <1>5, <1>6, <1>7, <2>2, <3>1
    <3>2. CASE j \in 1 .. Len(disk)
      BY <1>2, <1>5, <1>6, <1>7, <2>2, <3>2 DEF IInv, Listed
    <3> QED
      BY <1>6, <1>7, <3>1, <3>2
  <2> QED
    BY <1>1, <2>1, <2>2 DEF Listed, Filed
<1>9. Typed(p)'
  <2>1. proc[p].next \in Where(p)
    BY <1>4 DEF Onward, Where
  <2>2. proc[p].loaded \in Seq(Entry)
    BY DEF IInv, TypeOK, Typed
  <2> QED
    BY <1>1, <1>5, <2>1, <2>2 DEF Typed
<1>10. Stage(p)'
  <2>1. proc[p].next # "saving" /\ p \in {"run", "tool", "heal"}
    BY <1>4 DEF Onward, Processes
  <2>2. EntryIsNew(p)' /\ NextStage(p)'
    BY <1>1, <2>1 DEF EntryIsNew, NextStage, Saving
  <2>3. LoadedIsDisk(p)'
    BY <1>1, <1>4, <2>1 DEF LoadedIsDisk, MayCommit, Saving, Onward
  <2>4. CleanKept(p)'
    <3>1. CASE p = "heal" /\ proc[p].next = "registered"
      <4>1. Clean(e)
        BY <1>1, <3>1 DEF IInv, Stage, CleanKept, e
      <4>2. proc'[p].loaded = disk' /\ Last(disk') = e
        BY <1>1, <1>4, <1>5, <3>1 DEF Onward, Last
      <4>3. CleanHead(proc[p].loaded)'
        BY <1>5, <1>6, <4>1, <4>2 DEF CleanHead, Clean, Last
      <4> QED
        BY <1>1, <2>1, <4>3 DEF CleanKept, Saving
    <3>2. CASE p = "heal" /\ proc[p].next # "registered"
      <4>1. CleanHead(proc[p].loaded)
        BY <1>1, <3>2 DEF IInv, Stage, CleanKept, Based
      <4>2. proc'[p].loaded = proc[p].loaded
        BY <1>1, <1>4, <3>2 DEF Onward
      <4>3. Len(proc[p].loaded) \in 1 .. Len(disk)
        <5>1. proc[p].loaded \in Seq(Entry)
          BY DEF IInv, TypeOK, Typed
        <5> QED
          BY <1>6, <4>1, <5>1, EmptySeq DEF CleanHead
      <4>4. CleanHead(proc[p].loaded)'
        BY <1>5, <1>6, <4>1, <4>2, <4>3 DEF CleanHead, Clean
      <4> QED
        BY <1>1, <2>1, <4>4 DEF CleanKept, Saving
    <3> QED
      BY <3>1, <3>2 DEF CleanKept
  <2>5. ModelRuns(p)'
    BY <1>1, <1>3, <2>1 DEF ModelRuns, Saving, IInv, Stage, Filed
  <2> QED
    BY <2>2, <2>3, <2>4, <2>5 DEF Stage
<1>11. IInv'
  BY <1>1, <1>2, <1>5, <1>7, <1>8, <1>9, <1>10, Turn DEF IInv
<1>12. Listing' = Append(Listing, [version |-> e.version, model |-> files[e.name]])
  BY <1>1, <1>2, <1>3, <1>7, ListingExtended
<1>13. \A i \in DOMAIN Listing : Listing[i].version < e.version
  BY <1>2, <1>3 DEF Listing
<1>14. Series!Extend
  BY <1>2, <1>3, <1>7, <1>12, <1>13 DEF Series!Extend, Filed
<1> QED
  BY <1>2, <1>7, <1>11, <1>14

-----------------------------------------------------------------------------
(* The actions.                                                            *)

\* Neither the series nor whether it can be read changes.
SeriesSame == Readable /\ Readable' /\ Listing' = Listing

\* A process that raises.
LEMMA RaiseStep ==
  ASSUME IInv, NEW p \in Processes, OthersIdle(p), Readable, Raise(p)
  PROVE  IInv' /\ SeriesSame
<1>1. proc' = [proc EXCEPT ![p] = Idle] /\ disk' = disk /\ UNCHANGED files
  BY DEF Raise
<1>2. IInv' /\ Listing' = Listing
  BY <1>1, EndStep
<1> QED
  BY <1>1, <1>2 DEF SeriesSame, Readable

\* A kill may tear the manifest, and then nothing is listed.
LEMMA KillStep ==
  ASSUME IInv, NEW p \in Processes, Kill(p)
  PROVE  IInv' /\ (SeriesSame \/ Series!Tear)
<1>1. OthersIdle(p) /\ Readable
  BY BusyAlone DEF Kill, Busy
<1>2. /\ proc' = [proc EXCEPT ![p] = Idle] /\ UNCHANGED files
      /\ disk' \in {disk, Torn}
  BY DEF Kill
<1>3. IInv' /\ (disk' = disk => Listing' = Listing)
  BY <1>1, <1>2, EndStep
<1>4. CASE disk' = disk
  BY <1>1, <1>3, <1>4 DEF SeriesSame, Readable
<1>5. CASE disk' = Torn
  BY <1>1, <1>3, <1>5 DEF Series!Tear, Readable, Listing
<1> QED
  BY <1>2, <1>3, <1>4, <1>5

\* Committing a control state: nothing, or a file for the value.
LEMMA CommitStep ==
  ASSUME IInv, NEW p \in Processes, OthersIdle(p), Readable, p # "tool",
         proc[p].pc \in {"open", "baseline", "registered"},
         NEW v \in Values, NEW next, Onward(p, next, "loaded"), p = "heal" => v = BaseValue,
         CommitState(p, Control(v), next)
  PROVE  IInv' /\ SeriesSame
<1> DEFINE state == Control(v)
<1>1. state.value = v /\ state.patches = << >> /\ v \in Models /\ << >> \in Seq(PatchKinds)
  BY EmptySeq DEF Control, Models
<1>2. proc[p].loaded = disk /\ disk \in Seq(Entry)
  BY DEF IInv, TypeOK, Readable, Stage, LoadedIsDisk, MayCommit
<1>3. p = "heal" => next = "registered"
  BY DEF Onward
<1>4. p \in {"run", "heal"} /\ (p = "run" => next = "open")
  BY DEF Onward, Processes
<1> HIDE DEF state
<1>5. CASE Deduped(disk, state)
  <2> DEFINE c == [pc |-> next]
  <2>1. Move(p, c) /\ UNCHANGED <<files, disk>>
    BY <1>2, <1>5 DEF CommitState, state
  <2>2. DOMAIN c \subseteq Fields
    BY DEF Fields
  <2>3. /\ proc'[p].pc = next /\ proc'[p].loaded = disk /\ DOMAIN proc'[p] = Fields
    <3>1. \A f \in Fields : proc'[p][f] = IF f \in DOMAIN c THEN c[f] ELSE proc[p][f]
      BY <2>1, <2>2, MoveEffect DEF IInv
    <3>2. DOMAIN proc'[p] = Fields
      <4> HIDE DEF c
      <4> QED
        BY <2>1, <2>2, MoveEffect DEF IInv
    <3> QED
      BY <1>2, <3>1, <3>2 DEF Fields
  <2>4. Typed(p)'
    BY <1>2, <1>3, <1>4, <2>1, <2>3 DEF Typed, Where
  <2>5. p = "heal" => CleanHead(disk)'
    <3>1. disk # << >> /\ SameContent(Last(disk), state)
      BY <1>5 DEF Deduped
    <3>2. p = "heal" => Clean(Last(disk))
      BY <1>1, <3>1 DEF SameContent, Clean
    <3>3. Len(disk) \in Nat
      BY <1>2, LenProperties
    <3> QED
      BY <2>1, <3>1, <3>2, <3>3 DEF CleanHead, Last
  <2>6. Stage(p)'
    BY <1>3, <1>4, <2>1, <2>3, <2>5
    DEF Stage, EntryIsNew, LoadedIsDisk, NextStage, CleanKept, ModelRuns, Saving, Based
  <2> HIDE DEF c
  <2>7. IInv' /\ Listing' = Listing
    BY <2>1, <2>2, <2>4, <2>6, AdvanceStep
  <2> QED
    BY <2>1, <2>7 DEF SeriesSame, Readable
<1>6. CASE ~Deduped(disk, state)
  <2> DEFINE n == NextVersion(disk)
             kind == "state"
             e == NewEntry(n, kind, 0, state)
  <2>1. n \in Nat \ {0} /\ \A i \in DOMAIN disk : disk[i].version < n
    BY NextIsNewer DEF IInv
  <2>2. Place(p, e, v, "loaded", next)
    BY <1>1, <1>2, <1>6 DEF CommitState, state
  <2> HIDE DEF n
  <2>3. /\ e \in Entry /\ e.version = n /\ e.name.version = n
        /\ e.value = v /\ e.patches = << >>
    <3>1. /\ state.value \in Models /\ state.patches \in Seq(PatchKinds)
          /\ kind \in PatchKinds \cup {"state", "rollback"}
      BY <1>1
    <3> HIDE DEF kind
    <3>2. /\ e \in Entry /\ e.version = n /\ e.name.version = n
          /\ e.value = state.value /\ e.patches = state.patches
      BY <2>1, <3>1, NewEntryType
    <3> QED
      BY <1>1, <3>2
  <2> HIDE DEF e
  <2>4. IInv' /\ Listing' = Listing
    BY <1>1, <1>2, <1>3, <1>4, <2>1, <2>2, <2>3, PlaceStep DEF Clean
  <2>5. disk' = disk
    BY <2>2 DEF Place
  <2> QED
    BY <2>4, <2>5 DEF SeriesSame, Readable
<1> QED
  BY <1>5, <1>6

\* A patch: nothing, or a file for a model it makes.
LEMMA PatchStep ==
  ASSUME IInv, NEW p \in Processes, OthersIdle(p), Readable,
         NEW source, NEW operations, NEW kind \in PatchKinds,
         NEW next, Onward(p, next, "disk"), next # "resumed",
         p = "heal" => CleanHead(proc[p].loaded),
         Patch(p, source, operations, kind, next)
  PROVE  IInv' /\ SeriesSame
<1>1. CASE Staged(source, operations) = {}
  BY <1>1, RaiseStep DEF Patch
<1>2. CASE Staged(source, operations) # {}
  <2> DEFINE n == NextVersion(disk)
             state == PatchState(disk, kind)
             e == NewEntry(n, kind, 0, state)
  <2>1. PICK m \in Staged(source, operations) : Place(p, e, m, "disk", next)
    BY <1>2 DEF Patch, Load, Readable
  <2>2. m \in Models
    BY DEF Staged
  <2>3. n \in Nat \ {0} /\ \A i \in DOMAIN disk : disk[i].version < n
    BY NextIsNewer DEF IInv
  <2>4. disk \in Seq(Entry)
    BY DEF IInv, TypeOK, Readable
  <2>5. state.value \in Models /\ state.patches \in Seq(PatchKinds) /\ state.patches # << >>
    BY <2>4, PatchStateType
  <2> HIDE DEF n, state
  <2>6. e \in Entry /\ e.version = n /\ e.name.version = n /\ e.patches # << >>
    BY <2>3, <2>5, NewEntryType
  <2>7. p = "heal" => next # "registered"
    BY DEF Onward
  <2> HIDE DEF e
  <2>8. IInv' /\ Listing' = Listing
    BY <2>1, <2>2, <2>3, <2>6, <2>7, PlaceStep
  <2>9. disk' = disk
    BY <2>1 DEF Place
  <2> QED
    BY <2>8, <2>9 DEF SeriesSame, Readable
<1> QED
  BY <1>1, <1>2

\* The target of self-heal's rollback is the head it started from.
LEMMA RollbackIsClean ==
  ASSUME IInv, Readable, Based("heal")
  PROVE  LET target == RollbackTarget(CleanVersion)
         IN  /\ target \in Entry /\ Clean(target) /\ Filed(target)
             /\ files[target.name] = BaseValue /\ CleanVersion \in Nat
<1> DEFINE l == proc["heal"].loaded
           k == Len(l)
<1>1. l \in Seq(Entry) /\ disk \in Seq(Entry) /\ CleanHead(l)
  BY DEF IInv, TypeOK, Typed, Readable, Stage, CleanKept, Processes
<1>2. k \in 1 .. Len(disk) /\ disk[k] = Last(l) /\ Clean(disk[k])
  BY <1>1, EmptySeq DEF CleanHead
<1>3. k \in DOMAIN disk /\ disk[k] \in Entry /\ disk[k].version \in Nat
  BY <1>1, <1>2, ListedType
<1>4. CleanVersion = disk[k].version
  BY <1>2 DEF CleanVersion
<1> HIDE DEF k, l
<1>5. RollbackTarget(CleanVersion) = disk[k]
  BY <1>3, <1>4, EntryFound DEF RollbackTarget, IInv
<1>6. Filed(disk[k])
  BY <1>3 DEF IInv, Listed
<1> QED
  BY <1>2, <1>3, <1>4, <1>5, <1>6 DEF Clean, Filed

\* The patched model is kept, or rolled back.
LEMMA RerunStep ==
  ASSUME IInv, Rerun
  PROVE  IInv' /\ SeriesSame
<1> DEFINE h == proc["heal"]
<1>1. h.pc = "patched" /\ "heal" \in Processes
  BY DEF Rerun, Processes
<1>2. OthersIdle("heal") /\ Readable /\ disk \in Seq(Entry)
  BY <1>1, BusyAlone DEF Busy
<1>3. Based("heal") /\ CleanHead(h.loaded) /\ h.loaded \in Seq(Entry)
  BY <1>1 DEF Based, IInv, Stage, CleanKept, TypeOK, Typed
<1>4. h.model \in DOMAIN files /\ files[h.model] \in Models
  BY <1>1 DEF IInv, Stage, ModelRuns
<1>5. CASE files[h.model] # Missing
  <2> DEFINE c == [pc |-> "resumed"]
  <2>1. Move("heal", c) /\ UNCHANGED <<files, disk>>
    BY <1>5 DEF Rerun
  <2>2. DOMAIN c \subseteq Fields
    BY DEF Fields
  <2>3. \A f \in Fields : proc'["heal"][f] = IF f \in DOMAIN c THEN c[f] ELSE h[f]
    BY <1>1, <2>1, <2>2, MoveEffect DEF IInv
  <2>4. /\ proc'["heal"].pc = "resumed" /\ proc'["heal"].loaded = h.loaded
        /\ proc'["heal"].model = h.model
    BY <2>3 DEF Fields
  <2> HIDE DEF c
  <2>5. DOMAIN proc'["heal"] = Fields
    BY <1>1, <2>1, <2>2, MoveEffect DEF IInv
  <2>6. Typed("heal")'
    BY <1>3, <2>4, <2>5 DEF Typed, Where
  <2>7. CleanHead(h.loaded)'
    BY <1>3, <2>1, <2>4 DEF CleanHead
  <2>8. Stage("heal")'
    BY <1>4, <1>5, <2>1, <2>4, <2>7
    DEF Stage, EntryIsNew, LoadedIsDisk, MayCommit, NextStage, CleanKept, ModelRuns, Saving
  <2>9. IInv' /\ Listing' = Listing
    BY <1>1, <1>2, <2>1, <2>2, <2>6, <2>8, AdvanceStep
  <2> QED
    BY <1>2, <2>1, <2>9 DEF SeriesSame, Readable
<1>6. CASE files[h.model] = Missing
  <2> DEFINE n == NextVersion(disk)
             target == RollbackTarget(CleanVersion)
             kind == "rollback"
             e == NewEntry(n, kind, CleanVersion, target)
  <2>1. Place("heal", e, files[target.name], "disk", "resumed")
    BY <1>2, <1>6 DEF Rerun, Rollback, Load, Readable
  <2>2. /\ target \in Entry /\ Clean(target) /\ files[target.name] = BaseValue
        /\ CleanVersion \in Nat
    BY <1>2, <1>3, RollbackIsClean
  <2>3. n \in Nat \ {0} /\ \A i \in DOMAIN disk : disk[i].version < n
    BY <1>2, NextIsNewer DEF IInv
  <2> HIDE DEF n, target
  <2>4. /\ target.value \in Models /\ target.patches \in Seq(PatchKinds)
        /\ kind \in PatchKinds \cup {"state", "rollback"}
    BY <2>2, EntryType
  <2> HIDE DEF kind
  <2>5. /\ e \in Entry /\ e.version = n /\ e.name.version = n
        /\ e.value = target.value /\ e.patches = target.patches
    BY <2>2, <2>3, <2>4, NewEntryType
  <2>6. e.value = BaseValue /\ BaseValue \in Models /\ BaseValue # Missing
    BY <2>2, <2>5, VersionsAssumption DEF Clean, Models
  <2> HIDE DEF e
  <2>7. Onward("heal", "resumed", "disk")
    BY DEF Onward
  <2>8. Place("heal", e, BaseValue, "disk", "resumed")
    BY <2>1, <2>2
  <2>9. IInv' /\ Listing' = Listing
    BY <1>1, <1>2, <1>3, <2>3, <2>5, <2>6, <2>7, <2>8, PlaceStep
  <2>10. disk' = disk
    BY <2>1 DEF Place
  <2> QED
    BY <1>2, <2>9, <2>10 DEF SeriesSame, Readable
<1> QED
  BY <1>5, <1>6

\* The newest repair there is takes the place of the planner's answer.
LEMMA ReplayStep ==
  ASSUME IInv, Replay
  PROVE  IInv' /\ SeriesSame
<1> DEFINE h == proc["heal"]
           repairs == {i \in DOMAIN disk : disk[i].name.kind = "repair"
                                           /\ disk[i].name \in DOMAIN files}
           newest == disk[Max(repairs)].name
           c == [pc |-> "patched", model |-> newest]
<1>1. h.pc = "faulted" /\ "heal" \in Processes
  BY DEF Replay, Processes
<1>2. OthersIdle("heal") /\ Readable /\ disk \in Seq(Entry)
  BY <1>1, BusyAlone DEF Busy
<1>3. CASE repairs = {}
  <2>1. Raise("heal")
    BY <1>2, <1>3 DEF Replay, Load, Readable
  <2> QED
    BY <1>1, <1>2, <2>1, RaiseStep
<1>4. CASE repairs # {}
  <2>1. Move("heal", c) /\ UNCHANGED <<files, disk>>
    BY <1>2, <1>4 DEF Replay, Load, Readable
  <2>2. Max(repairs) \in repairs
    <3>1. Len(disk) \in Nat /\ repairs \subseteq 1 .. Len(disk)
      BY <1>2, ListedType
    <3> HIDE DEF repairs
    <3> QED
      BY <1>4, <3>1, MaxInSet
  <2>3. newest \in DOMAIN files /\ files[newest] \in Models
    BY <1>2, <2>2 DEF IInv, Listed, Filed
  <2>4. CleanHead(h.loaded) /\ h.loaded \in Seq(Entry)
    BY <1>1 DEF IInv, Stage, CleanKept, Based, TypeOK, Typed
  <2> HIDE DEF newest
  <2>5. DOMAIN c \subseteq Fields
    BY DEF Fields
  <2>6. \A f \in Fields : proc'["heal"][f] = IF f \in DOMAIN c THEN c[f] ELSE h[f]
    BY <1>1, <2>1, <2>5, MoveEffect DEF IInv
  <2>7. /\ proc'["heal"].pc = "patched" /\ proc'["heal"].loaded = h.loaded
        /\ proc'["heal"].model = newest
    BY <2>6 DEF Fields
  <2> HIDE DEF c
  <2>8. DOMAIN proc'["heal"] = Fields
    BY <1>1, <2>1, <2>5, MoveEffect DEF IInv
  <2>9. Typed("heal")'
    BY <2>4, <2>7, <2>8 DEF Typed, Where
  <2>10. CleanHead(h.loaded)'
    BY <2>1, <2>4, <2>7 DEF CleanHead
  <2>11. Stage("heal")'
    BY <2>1, <2>3, <2>7, <2>10
    DEF Stage, EntryIsNew, LoadedIsDisk, MayCommit, NextStage, CleanKept, ModelRuns, Saving
  <2>12. IInv' /\ Listing' = Listing
    BY <1>1, <1>2, <2>1, <2>5, <2>9, <2>11, AdvanceStep
  <2> QED
    BY <1>2, <2>1, <2>12 DEF SeriesSame, Readable
<1> QED
  BY <1>3, <1>4

\* The planner is asked once more.
LEMMA AskAgainStep ==
  ASSUME IInv, AskAgain
  PROVE  IInv' /\ SeriesSame
<1> DEFINE h == proc["heal"]
           c == [retries |-> 1]
<1>1. h.pc = "faulted" /\ "heal" \in Processes
  BY DEF AskAgain, Processes
<1>2. OthersIdle("heal") /\ Readable
  BY <1>1, BusyAlone DEF Busy
<1>3. CASE h.retries # 0
  <2>1. Raise("heal")
    BY <1>3 DEF AskAgain
  <2> QED
    BY <1>1, <1>2, <2>1, RaiseStep
<1>4. CASE h.retries = 0
  <2>1. Move("heal", c) /\ UNCHANGED <<files, disk>>
    BY <1>4 DEF AskAgain
  <2>2. DOMAIN c \subseteq Fields
    BY DEF Fields
  <2>3. \A f \in Fields : proc'["heal"][f] = IF f \in DOMAIN c THEN c[f] ELSE h[f]
    BY <1>1, <2>1, <2>2, MoveEffect DEF IInv
  <2>4. /\ proc'["heal"].pc = "faulted" /\ proc'["heal"].loaded = h.loaded
        /\ proc'["heal"].model = h.model
    BY <1>1, <2>3 DEF Fields
  <2> HIDE DEF c
  <2>5. DOMAIN proc'["heal"] = Fields
    BY <1>1, <2>1, <2>2, MoveEffect DEF IInv
  <2>6. CleanHead(h.loaded) /\ h.loaded \in Seq(Entry)
        /\ h.model \in DOMAIN files /\ files[h.model] \in Models
    BY <1>1 DEF IInv, Stage, CleanKept, Based, TypeOK, Typed, ModelRuns
  <2>7. Typed("heal")'
    BY <2>4, <2>5, <2>6 DEF Typed, Where
  <2>8. CleanHead(h.loaded)'
    BY <2>1, <2>4, <2>6 DEF CleanHead
  <2>9. Stage("heal")'
    BY <2>1, <2>4, <2>6, <2>8
    DEF Stage, EntryIsNew, LoadedIsDisk, MayCommit, NextStage, CleanKept, ModelRuns, Saving
  <2>10. IInv' /\ Listing' = Listing
    BY <1>1, <1>2, <2>1, <2>2, <2>7, <2>9, AdvanceStep
  <2> QED
    BY <1>2, <2>1, <2>10 DEF SeriesSame, Readable
<1> QED
  BY <1>3, <1>4

\* A process begins with the manifest as it is.
LEMMA BeginStep ==
  ASSUME IInv, ~Overlap, NEW p \in Processes, MayBegin(p), NEW stage,
         <<p, stage>> \in {<<"run", "open">>, <<"heal", "baseline">>},
         Move(p, [pc |-> stage, loaded |-> disk]), UNCHANGED <<files, disk>>
  PROVE  IInv' /\ SeriesSame
<1> DEFINE c == [pc |-> stage, loaded |-> disk]
<1>1. OthersIdle(p) /\ Readable /\ disk \in Seq(Entry)
  BY BeginAlone
<1>2. DOMAIN c \subseteq Fields
  BY DEF Fields
<1>3. \A f \in Fields : proc'[p][f] = IF f \in DOMAIN c THEN c[f] ELSE proc[p][f]
  BY <1>2, MoveEffect DEF IInv
<1>4. proc'[p].pc = stage /\ proc'[p].loaded = disk
  BY <1>3 DEF Fields
<1>5. Move(p, c)
  OBVIOUS
<1> HIDE DEF c
<1>6. DOMAIN proc'[p] = Fields
  BY <1>2, <1>5, MoveEffect DEF IInv
<1>7. Typed(p)'
  BY <1>1, <1>4, <1>6 DEF Typed, Where
<1>8. Stage(p)'
  BY <1>4 DEF Stage, EntryIsNew, LoadedIsDisk, NextStage, CleanKept, Based, ModelRuns, Saving
<1>9. IInv' /\ Listing' = Listing
  BY <1>1, <1>2, <1>5, <1>7, <1>8, AdvanceStep
<1> QED
  BY <1>1, <1>9 DEF SeriesSame, Readable

-----------------------------------------------------------------------------
(* The theorems.                                                           *)

LEMMA InitInvariant == Init => IInv /\ Series!Init
<1> SUFFICES ASSUME Init PROVE IInv /\ Series!Init
  OBVIOUS
<1>1. << >> \in Seq(Entry) /\ DOMAIN << >> = {}
  BY EmptySeq, LenProperties
<1>2. Readable
  BY <1>1, VersionsAssumption DEF Init, Readable
<1>3. \A p \in Processes : proc[p] = Idle /\ proc[p].pc = "idle" /\ proc[p].loaded = << >>
  BY DEF Init, Idle
<1>4. DOMAIN Idle = Fields /\ \A p \in Processes : "idle" \in Where(p)
  BY DEF Idle, Fields, Where
<1>5. TypeOK
  BY <1>1, <1>3, <1>4 DEF Init, TypeOK, Typed
<1>6. Alone
  BY <1>3 DEF Alone, Busy
<1>7. Listed
  BY <1>1 DEF Init, Listed
<1>8. \A p \in Processes : Stage(p)
  BY <1>3 DEF Stage, EntryIsNew, LoadedIsDisk, MayCommit, NextStage, CleanKept, Based,
              ModelRuns, Saving
<1>9. Listing = << >>
  BY <1>1, <1>2 DEF Init, Listing
<1> QED
  BY <1>2, <1>5, <1>6, <1>7, <1>8, <1>9 DEF IInv, Series!Init

\* Every step keeps the invariant, and extends the series by a version, tears
\* it or leaves it alone.
LEMMA StepInvariant ==
  ASSUME ~Overlap, IInv, [Next]_vars
  PROVE  IInv' /\ [Series!Next]_<<Listing, Readable>>
<1> USE DEF Processes
<1> DEFINE Goal == IInv' /\ [Series!Next]_<<Listing, Readable>>
<1>1. IInv' /\ SeriesSame => Goal
  BY DEF SeriesSame
<1> SUFFICES Goal
  OBVIOUS
<1> HIDE DEF Goal
<1>2. CASE UNCHANGED vars
  <2>1. IInv' /\ Listing' = Listing /\ Readable' = Readable
    BY <1>2 DEF vars, IInv, TypeOK, Typed, Alone, Busy, Listed, Filed, Stage, EntryIsNew,
       Saving, LoadedIsDisk, MayCommit, NextStage, CleanKept, Based, CleanHead, ModelRuns,
       Listing, Readable
  <2> QED
    BY <2>1 DEF Goal
<1>3. CASE OpenWriter
  BY <1>1, <1>3, BeginStep DEF OpenWriter
<1>4. CASE CommitHistory
  <2>1. PICK v \in Values : CommitState("run", Control(v), "open")
    BY <1>4 DEF CommitHistory
  <2>2. proc["run"].pc = "open" /\ OthersIdle("run") /\ Readable
    BY <1>4, BusyAlone DEF CommitHistory, Busy
  <2>3. Onward("run", "open", "loaded")
    BY DEF Onward
  <2> QED
    BY <1>1, <2>1, <2>2, <2>3, CommitStep
<1>5. CASE CloseWriter
  <2>1. OthersIdle("run") /\ Readable /\ Raise("run")
    BY <1>5, BusyAlone DEF CloseWriter, Busy
  <2> QED
    BY <1>1, <2>1, RaiseStep
<1>6. CASE PatchModel
  <2>1. PICK operations \in ToolPatches : Patch("tool", BaseValue, operations, "patch", "idle")
    BY <1>6 DEF PatchModel
  <2>2. OthersIdle("tool") /\ Readable
    BY <1>6, BeginAlone DEF PatchModel
  <2>3. Onward("tool", "idle", "disk") /\ "patch" \in PatchKinds
    BY DEF Onward, PatchKinds
  <2> QED
    BY <1>1, <2>1, <2>2, <2>3, PatchStep
<1>7. CASE BeginHeal
  BY <1>1, <1>7, BeginStep DEF BeginHeal
<1>8. CASE RegisterBaseline
  <2>1. proc["heal"].pc = "baseline" /\ CommitState("heal", Control(BaseValue), "registered")
    BY <1>8 DEF RegisterBaseline
  <2>2. OthersIdle("heal") /\ Readable
    BY <2>1, BusyAlone DEF Busy
  <2>3. Onward("heal", "registered", "loaded") /\ BaseValue \in Values
    BY VersionsAssumption DEF Onward
  <2> QED
    BY <1>1, <2>1, <2>2, <2>3, CommitStep
<1>9. CASE PlantFault
  <2> DEFINE operations == <<[op |-> "remove_object"]>>
  <2>1. proc["heal"].pc = "registered" /\ Patch("heal", BaseValue, operations, "fault", "faulted")
    BY <1>9 DEF PlantFault
  <2>2. OthersIdle("heal") /\ Readable
    BY <2>1, BusyAlone DEF Busy
  <2>3. CleanHead(proc["heal"].loaded)
    BY <2>1 DEF IInv, Stage, CleanKept, Based
  <2>4. Onward("heal", "faulted", "disk") /\ "fault" \in PatchKinds
    BY DEF Onward, PatchKinds
  <2> HIDE DEF operations
  <2> QED
    BY <1>1, <2>1, <2>2, <2>3, <2>4, PatchStep
<1>10. CASE Replay
  BY <1>1, <1>10, ReplayStep
<1>11. CASE AskAgain
  BY <1>1, <1>11, AskAgainStep
<1>12. CASE Repair
  <2>1. PICK operations \in Repairs :
          Patch("heal", files[proc["heal"].model], operations, "repair", "patched")
    BY <1>12 DEF Repair
  <2>2. proc["heal"].pc = "faulted" /\ OthersIdle("heal") /\ Readable
    BY <1>12, BusyAlone DEF Repair, Busy
  <2>3. CleanHead(proc["heal"].loaded)
    BY <2>2 DEF IInv, Stage, CleanKept, Based
  <2>4. Onward("heal", "patched", "disk") /\ "repair" \in PatchKinds
    BY DEF Onward, PatchKinds
  <2> QED
    BY <1>1, <2>1, <2>2, <2>3, <2>4, PatchStep
<1>13. CASE Rerun
  BY <1>1, <1>13, RerunStep
<1>14. CASE EndHeal
  <2>1. OthersIdle("heal") /\ Readable /\ Raise("heal")
    BY <1>14, BusyAlone DEF EndHeal, Busy
  <2> QED
    BY <1>1, <2>1, RaiseStep
<1>15. CASE \E p \in Processes : Save(p)
  <2>1. IInv' /\ Series!Extend
    BY <1>15, SaveStep
  <2> QED
    BY <2>1 DEF Goal, Series!Next
<1>16. CASE \E p \in Processes : Kill(p)
  <2>1. IInv' /\ (SeriesSame \/ Series!Tear)
    BY <1>16, KillStep
  <2> QED
    BY <1>1, <2>1 DEF Goal, Series!Next
<1> QED
  BY <1>2, <1>3, <1>4, <1>5, <1>6, <1>7, <1>8, <1>9, <1>10, <1>11, <1>12, <1>13, <1>14,
     <1>15, <1>16 DEF Next, Goal

\* The invariant holds while processes take turns.
THEOREM Invariance == ASSUME ~Overlap PROVE Spec => []IInv
  BY InitInvariant, StepInvariant, PTL DEF Spec

\* Snapshots, patches and rollbacks of any number of processes that take turns,
\* killed anywhere, make up one append-only series whose listed models never
\* change (SnapshotWriter.commit, apply_patch, rollback, _append_entry).
THEOREM SeriesIsKept == ASSUME ~Overlap PROVE Spec => SeriesKept
<1>1. IInv /\ [Next]_vars => [Series!Next]_<<Listing, Readable>>
  BY StepInvariant
<1> QED
  BY <1>1, InitInvariant, Invariance, PTL DEF Spec, SeriesKept, Series!Spec

\* Self-heal resumes on a model that runs clean, whatever was patched before it
\* and whatever the planner answers (run_self_heal, rollback).
THEOREM HealedModelRuns == ASSUME ~Overlap PROVE Spec => []ResumesOnCleanModel
<1>1. IInv => ResumesOnCleanModel
  BY DEF IInv, Stage, ModelRuns, ResumesOnCleanModel, Processes
<1> QED
  BY <1>1, Invariance, PTL

\* A listed version without a patch is the base model with the values recorded
\* for it (commit, _patch_state, rollback).
THEOREM UnpatchedStaysItsState == ASSUME ~Overlap PROVE Spec => []UnpatchedIsItsState
<1>1. IInv => UnpatchedIsItsState
  BY DEF IInv, Listed, Filed, UnpatchedIsItsState
<1> QED
  BY <1>1, Invariance, PTL
=============================================================================
