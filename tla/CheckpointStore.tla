--------------------------- MODULE CheckpointStore ---------------------------
(***************************************************************************)
(* Checkpoint directories on disk: Checkpoint.save, its staging, manifest    *)
(* and publication, the cleanup of abandoned staging, and Checkpoint.load    *)
(* (serialization/checkpoint.py).                                            *)
(*                                                                         *)
(* A directory is an object: its files, what its manifest lists, whether its *)
(* entries are synced.  A published name and a hidden staging name are two   *)
(* places it can be in.  Savers are processes that share a parent directory; *)
(* any of them may be killed, a write may raise, and the machine may crash,   *)
(* which keeps of everything that was not synced whatever it likes.          *)
(***************************************************************************)
EXTENDS Integers, FiniteSets, Sequences

CONSTANTS Savers,      \* processes that save checkpoints
          Names,       \* checkpoint directory names (epoch_E_step_S)
          Extras,      \* sequence of further files: optimizer, metrics, tokenizer...
          StaleAge,    \* STALE_STAGING_SECONDS, in ticks
          MaxObjects,  \* bound: directories created
          MaxFaults    \* bound: kills, exceptions and crashes explored

ASSUME SizesAssumption ==
    /\ StaleAge \in Nat \ {0} /\ MaxObjects \in Nat \ {0} /\ MaxFaults \in Nat
ASSUME FilesAssumption ==
    /\ Extras \in Seq({Extras[i] : i \in DOMAIN Extras})
    /\ \A i \in DOMAIN Extras : Extras[i] \notin {"meta", "config", "weights", "manifest"}

Required == {"meta", "config", "weights"}
WriteOrder == <<"meta", "config", "weights">> \o Extras
Contents == {WriteOrder[i] : i \in DOMAIN WriteOrder}
AllFiles == Append(WriteOrder, "manifest")
Files == {AllFiles[i] : i \in DOMAIN AllFiles}
Absent == -1
Junk == 0        \* a directory somebody made: it has a meta file and no manifest
Objects == Junk..MaxObjects

VARIABLES
    file,     \* of each directory: every file absent, cached, synced or torn
    listed,   \* what its manifest lists
    entries,  \* its directory entries are synced
    age,      \* ticks since a file was last created in it (st_mtime)
    staging,  \* directories under a staging name
    at,       \* the directory under each published name, or Absent
    onDisk,   \* the same as the disk would say after a crash
    used,     \* directories created so far
    pc,       \* each saver
    name,     \* the name it saves under
    mine,     \* its staging directory
    next,     \* index of the file it writes next
    doomed,   \* staging directories its cleanup is removing
    promised, \* ghost: names some save() returned True for
    reader,   \* a process in Checkpoint.load
    faults    \* faults so far

contentVars == <<file, listed, entries, age>>
placeVars == <<staging, at, onDisk, used>>
saverVars == <<name, mine, next, doomed>>
vars == <<contentVars, placeVars, pc, saverVars, promised, reader, faults>>

Saving(s) == pc[s] # "idle"
HasManifest(d) == d # Absent /\ file[d]["manifest"] # "absent"
Idle == [pc |-> "idle", name |-> "none", checked |-> Absent, meta |-> Absent,
         rest |-> Absent]

Init ==
    /\ file = [d \in Objects |-> [f \in Files |->
                 IF d = Junk /\ f = "meta" THEN "synced" ELSE "absent"]]
    /\ listed = [d \in Objects |-> {}]
    /\ entries = [d \in Objects |-> d = Junk]
    /\ age = [d \in Objects |-> 0]
    /\ staging = {} /\ used = 0
    /\ at \in {a \in [Names -> {Absent, Junk}] :
                Cardinality({n \in Names : a[n] = Junk}) <= 1}
    /\ onDisk = at
    /\ pc = [s \in Savers |-> "idle"]
    /\ name = [s \in Savers |-> "none"]
    /\ mine = [s \in Savers |-> Absent]
    /\ next = [s \in Savers |-> 1]
    /\ doomed = [s \in Savers |-> {}]
    /\ promised = {}
    /\ reader = Idle
    /\ faults = 0

-----------------------------------------------------------------------------
(* Checkpoint.save: the name, and the staging others left behind. *)

Goto(s, label) == pc' = [pc EXCEPT ![s] = label]

\* The save is over, however it ended; the process keeps nothing of it.
End(s) ==
    /\ pc' = [pc EXCEPT ![s] = "idle"]
    /\ name' = [name EXCEPT ![s] = "none"]
    /\ mine' = [mine EXCEPT ![s] = Absent]
    /\ next' = [next EXCEPT ![s] = 1]
    /\ doomed' = [doomed EXCEPT ![s] = {}]

\* A run saves under a name of its own: one rank writes, and a restarted run
\* starts after the old one ended.  (save() removes what it finds in its way without
\* looking for a manifest again.)
Begin(s, n) ==
    /\ pc[s] = "idle"
    /\ \A t \in Savers \ {s} : Saving(t) => name[t] # n
    /\ name' = [name EXCEPT ![s] = n]
    /\ Goto(s, "check")
    /\ UNCHANGED <<contentVars, placeVars, mine, next, doomed, promised, reader, faults>>

\* Publication is write-once: a name with a manifest is kept and save() is False.
Check(s) ==
    /\ pc[s] = "check"
    /\ IF HasManifest(at[name[s]]) THEN End(s)
       ELSE Goto(s, "clean") /\ UNCHANGED saverVars
    /\ UNCHANGED <<contentVars, placeVars, promised, reader, faults>>

\* A mutant of Stale that forgets the age.
MutantStaleAtOnce == staging

\* What cleanup takes for abandoned.
Stale == {d \in staging : age[d] >= StaleAge}

\* cleanup_stale_staging: every staging directory of the parent that is old enough.
CleanBegins(s) ==
    /\ pc[s] = "clean"
    /\ doomed' = [doomed EXCEPT ![s] = Stale]
    /\ Goto(s, "rmtree")
    /\ UNCHANGED <<contentVars, placeVars, name, mine, next, promised, reader, faults>>

\* rmtree removes a directory file by file, in some order of the file system's.
RemoveFile(s, d) ==
    /\ pc[s] = "rmtree" /\ d \in doomed[s]
    /\ \E i \in DOMAIN AllFiles :
        /\ file[d][AllFiles[i]] # "absent"
        /\ \A j \in 1..(i - 1) : file[d][AllFiles[j]] = "absent"
        /\ file' = [file EXCEPT ![d][AllFiles[i]] = "absent"]
    /\ UNCHANGED <<listed, entries, age, placeVars, pc, saverVars, promised, reader,
                   faults>>

\* Its last act removes the empty directory.
RemoveDirectory(s, d) ==
    /\ pc[s] = "rmtree" /\ d \in doomed[s]
    /\ \A f \in Files : file[d][f] = "absent"
    /\ staging' = staging \ {d}
    /\ doomed' = [doomed EXCEPT ![s] = @ \ {d}]
    /\ UNCHANGED <<contentVars, at, onDisk, used, pc, name, mine, next, promised,
                   reader, faults>>

\* mkdtemp.
MakeStaging(s) ==
    /\ pc[s] = "rmtree" /\ doomed[s] = {} /\ used < MaxObjects
    /\ used' = used + 1
    /\ staging' = staging \union {used + 1}
    /\ mine' = [mine EXCEPT ![s] = used + 1]
    /\ next' = [next EXCEPT ![s] = 1]
    /\ Goto(s, "write")
    /\ UNCHANGED <<contentVars, at, onDisk, name, doomed, promised, reader, faults>>

-----------------------------------------------------------------------------
(* Filling and publishing the staging directory; each step raises when it is gone. *)

Created(s, f) ==
    /\ mine[s] \in staging
    /\ file' = [file EXCEPT ![mine[s]][f] = "cached"]
    /\ age' = [age EXCEPT ![mine[s]] = 0]

\* The next file of meta, config, weights, extras and what prepare_staging adds.
WriteFile(s) ==
    /\ pc[s] = "write"
    /\ Created(s, WriteOrder[next[s]])
    /\ next' = [next EXCEPT ![s] = @ + 1]
    /\ Goto(s, IF next[s] = Len(WriteOrder) THEN "manifest" ELSE "write")
    /\ UNCHANGED <<listed, entries, placeVars, name, mine, doomed, promised, reader,
                   faults>>

\* The manifest lists the files that are there.
WriteManifest(s) ==
    /\ pc[s] = "manifest"
    /\ Created(s, "manifest")
    /\ listed' = [listed EXCEPT ![mine[s]] =
                    {f \in Contents : file[mine[s]][f] # "absent"}]
    /\ Goto(s, "sync")
    /\ UNCHANGED <<entries, placeVars, saverVars, promised, reader, faults>>

\* fsync of every file, then of the directory.
SyncFiles(s) ==
    /\ pc[s] = "sync" /\ mine[s] \in staging
    /\ file' = [file EXCEPT ![mine[s]] =
                  [f \in Files |-> IF @[f] = "absent" THEN "absent" ELSE "synced"]]
    /\ entries' = [entries EXCEPT ![mine[s]] = TRUE]
    /\ Goto(s, "replace")
    /\ UNCHANGED <<listed, age, placeVars, saverVars, promised, reader, faults>>

\* Whatever is in the way has no manifest, the save believes, and is removed.
RemoveJunk(s) ==
    /\ pc[s] = "replace"
    /\ at' = [at EXCEPT ![name[s]] = Absent]
    /\ Goto(s, "rename")
    /\ UNCHANGED <<contentVars, staging, onDisk, used, saverVars, promised, reader,
                   faults>>

\* os.replace, which fails on a directory that appeared in between.
Rename(s) ==
    /\ pc[s] = "rename" /\ mine[s] \in staging /\ at[name[s]] = Absent
    /\ at' = [at EXCEPT ![name[s]] = mine[s]]
    /\ staging' = staging \ {mine[s]}
    /\ Goto(s, "published")
    /\ UNCHANGED <<contentVars, onDisk, used, saverVars, promised, reader, faults>>

\* The parent's entries reach the disk, and save() returns True.
SyncParent(s) ==
    /\ pc[s] = "published"
    /\ onDisk' = at
    /\ promised' = promised \union {name[s]}
    /\ End(s)
    /\ UNCHANGED <<contentVars, staging, at, used, reader, faults>>

-----------------------------------------------------------------------------
(* What goes wrong. *)

Staged == {"write", "manifest", "sync", "replace", "rename", "published"}

\* An exception: the staging directory is removed and the save raises.
Raise(s) ==
    /\ pc[s] \in Staged
    /\ faults < MaxFaults /\ faults' = faults + 1
    /\ staging' = staging \ {mine[s]}
    /\ file' = [d \in Objects |-> IF d = mine[s] /\ d \in staging
                                  THEN [f \in Files |-> "absent"] ELSE file[d]]
    /\ End(s)
    /\ UNCHANGED <<listed, entries, age, at, onDisk, used, promised, reader>>

\* The process is killed where it stands, and another one may save later.
Kill(s) ==
    /\ Saving(s) /\ faults < MaxFaults
    /\ faults' = faults + 1
    /\ End(s)
    /\ UNCHANGED <<contentVars, placeVars, promised, reader>>

Unsynced == {n \in Names \X Files :
                /\ at[n[1]] # Absent /\ file[at[n[1]]][n[2]] # "absent"
                /\ ~entries[at[n[1]]] \/ file[at[n[1]]][n[2]] = "cached"}

\* The machine crashes: a file that was not synced may be torn, one whose entry
\* was not synced may be gone, and a rename that was not synced may be undone.
\* (What a staging directory loses is left out: nobody reads one.)
Crash ==
    /\ faults < MaxFaults
    /\ faults' = faults + 1
    /\ \E lost \in SUBSET Unsynced :
        file' = [d \in Objects |-> [f \in Files |->
            IF \A n \in Names : at[n] = d => <<n, f>> \notin lost THEN file[d][f]
            ELSE IF ~entries[d] THEN "absent" ELSE "torn"]]
    /\ \E kept \in SUBSET Names :
        at' = [n \in Names |-> IF n \in kept THEN at[n] ELSE onDisk[n]]
    /\ onDisk' = at'
    /\ staging' = staging \union
                    {d \in {at[n] : n \in Names} : d # Absent /\ \A n \in Names : at'[n] # d}
    /\ pc' = [s \in Savers |-> "idle"]
    /\ name' = [s \in Savers |-> "none"]
    /\ mine' = [s \in Savers |-> Absent]
    /\ next' = [s \in Savers |-> 1]
    /\ doomed' = [s \in Savers |-> {}]
    /\ reader' = Idle
    /\ UNCHANGED <<listed, entries, age, used, promised>>

\* Time passes.  Assumed: a live save creates a file more often than every StaleAge,
\* since its staging directory is dated by the last file created in it.
Tick ==
    /\ \A s \in Savers : pc[s] \in Staged => age[mine[s]] + 1 < StaleAge
    /\ \E d \in staging : age[d] < StaleAge
    /\ age' = [d \in Objects |-> IF d \in staging /\ age[d] < StaleAge
                                 THEN age[d] + 1 ELSE age[d]]
    /\ UNCHANGED <<file, listed, entries, placeVars, pc, saverVars, promised, reader,
                   faults>>

-----------------------------------------------------------------------------
(* Checkpoint.load. *)

\* _validate_manifest: the required files are listed, the listed ones are there
\* in the size they were written.
Valid(d) ==
    /\ Required \subseteq listed[d]
    /\ \A f \in listed[d] : file[d][f] \notin {"absent", "torn"}

\* A directory without a manifest is read as it is, an invalid one is refused.
LoadChecks(n) ==
    /\ reader.pc = "idle" /\ at[n] # Absent
    /\ HasManifest(at[n]) => Valid(at[n])
    /\ reader' = [Idle EXCEPT !.pc = "meta", !.name = n,
                    !.checked = IF HasManifest(at[n]) THEN at[n] ELSE Absent]
    /\ UNCHANGED <<contentVars, placeVars, pc, saverVars, promised, faults>>

Missing(f) == at[reader.name] = Absent \/ file[at[reader.name]][f] = "absent"

LoadMeta ==
    /\ reader.pc = "meta"
    /\ reader' = IF Missing("meta") THEN Idle
                 ELSE [reader EXCEPT !.pc = "rest", !.meta = at[reader.name]]
    /\ UNCHANGED <<contentVars, placeVars, pc, saverVars, promised, faults>>

\* Configuration, weights and every .pt file of the directory.
LoadRest ==
    /\ reader.pc = "rest"
    /\ reader' = IF Missing("config") \/ Missing("weights") THEN Idle
                 ELSE [reader EXCEPT !.pc = "loaded", !.rest = at[reader.name]]
    /\ UNCHANGED <<contentVars, placeVars, pc, saverVars, promised, faults>>

LoadReturns ==
    /\ reader.pc = "loaded" /\ reader' = Idle
    /\ UNCHANGED <<contentVars, placeVars, pc, saverVars, promised, faults>>

-----------------------------------------------------------------------------

SaveStep(s) ==
    \/ \E n \in Names : Begin(s, n)
    \/ Check(s) \/ CleanBegins(s)
    \/ \E d \in Objects : RemoveFile(s, d) \/ RemoveDirectory(s, d)
    \/ MakeStaging(s)
    \/ WriteFile(s) \/ WriteManifest(s) \/ SyncFiles(s) \/ RemoveJunk(s) \/ Rename(s) \/ SyncParent(s)

Next ==
    \/ \E s \in Savers : SaveStep(s) \/ Raise(s) \/ Kill(s)
    \/ Crash \/ Tick
    \/ \E n \in Names : LoadChecks(n)
    \/ LoadMeta \/ LoadRest \/ LoadReturns

Spec == Init /\ [][Next]_vars

-----------------------------------------------------------------------------
(* Properties. *)

\* What is visible is complete: a published directory with a manifest has every
\* file its save wrote, whole, whichever savers were killed, whatever cleanup ran
\* beside it and whatever a crash of the machine lost (checkpoint.py:28-30).
VisibleIsWhole ==
    \A n \in Names : HasManifest(at[n]) =>
        /\ listed[at[n]] = Contents
        /\ \A f \in Files : file[at[n]][f] \in {"cached", "synced"}

\* A checkpoint whose save() returned True is there from then on, after any crash.
PublishedStays == \A n \in promised : HasManifest(at[n])

\* What is loaded after its manifest was checked comes from the one directory that
\* was checked, whoever saves under that name meanwhile.
LoadsAreWhole ==
    reader.pc = "loaded" /\ reader.checked # Absent =>
        reader.meta = reader.checked /\ reader.rest = reader.checked

\* Whatever is killed, raises or crashes: a name that can be seen is a whole checkpoint, one
\* that save() reported survives, and a load that checked a manifest reads that checkpoint.
CheckpointsAreWhole == VisibleIsWhole /\ PublishedStays /\ LoadsAreWhole
=============================================================================
