------------------------ MODULE CheckpointStoreProofs ------------------------
(* Proofs about CheckpointStore, for any savers, names, files and bounds:     *)
(* what is visible is whole, what save() reported stays, and a load returns   *)
(* the files of one checkpoint.                                               *)
EXTENDS CheckpointStore, SequenceTheorems, TLAPS

-----------------------------------------------------------------------------
(* The inductive invariant. *)

Labels == {"idle", "check", "clean", "rmtree"} \union Staged
States == {"absent", "cached", "synced"}

\* Nothing is ever torn: what a crash may tear is never visible (see NothingUnsynced).
StoreTypes ==
    /\ file \in [Objects -> [Files -> States]]
    /\ listed \in [Objects -> SUBSET Contents]
    /\ entries \in [Objects -> BOOLEAN]
    /\ age \in [Objects -> Nat]
    /\ used \in 0..MaxObjects
    /\ staging \subseteq 1..used
    /\ at \in [Names -> Objects \union {Absent}]
    /\ onDisk \in [Names -> Objects \union {Absent}]
    /\ pc \in [Savers -> Labels]
    /\ name \in [Savers -> Names \union {"none"}]
    /\ mine \in [Savers -> Objects \union {Absent}]
    /\ next \in [Savers -> Nat \ {0}]
    /\ doomed \in [Savers -> SUBSET (1..used)]
    /\ promised \subseteq Names

\* A directory that holds what its save wrote, on the disk.
Whole(d) ==
    /\ listed[d] = Contents /\ entries[d]
    /\ \A f \in Files : file[d][f] = "synced"

\* What may be under a published name: nothing, the directory somebody made, or a whole
\* checkpoint, which no cleanup can see any more; the disk lags behind by whole renames.
PlacesOK ==
    /\ \A d \in Objects : d > used => age[d] = 0
    /\ entries[Junk] /\ file[Junk]["manifest"] = "absent"
    /\ \A f \in Files : file[Junk][f] # "cached"
    /\ \A n \in Names : at[n] > Junk => at[n] \in 1..used /\ at[n] \notin staging /\ Whole(at[n])
    /\ \A n \in Names : onDisk[n] > Junk => onDisk[n] = at[n]
    /\ \A n \in Names : at[n] = Junk => onDisk[n] = Junk

Unpublished == {"clean", "rmtree", "write", "manifest", "sync", "replace"}

\* Savers keep apart: each has a name of its own, where nothing whole is found before it has
\* put its own directory there.
NamedApart(s) ==
    /\ Saving(s) => name[s] \in Names
    /\ \A t \in Savers : s # t /\ Saving(s) /\ Saving(t) => name[s] # name[t]
    /\ pc[s] \in Unpublished => at[name[s]] \in {Absent, Junk}
\* Cleanup removes nothing that can be seen.
CleansUnseen(s) == \A d \in doomed[s] : \A n \in Names : at[n] # d
\* A save has a staging directory that no cleanup takes for abandoned and nobody shares.
StagesApart(s) ==
    pc[s] \in Staged =>
        /\ mine[s] \in 1..used /\ age[mine[s]] < StaleAge
        /\ \A t \in Savers : mine[s] \notin doomed[t]
        /\ \A t \in Savers : t # s /\ pc[t] \in Staged => mine[t] # mine[s]
        /\ pc[s] # "published" => mine[s] \in staging
\* The files it has written so far.
FillsInOrder(s) ==
    pc[s] \in Staged =>
        /\ \A i \in 1..Len(WriteOrder) :
              i < next[s] => file[mine[s]][WriteOrder[i]] # "absent"
        /\ pc[s] = "write" <=> next[s] <= Len(WriteOrder)
\* What is about to be renamed is whole.
PublishesWhole(s) ==
    /\ pc[s] \in {"sync", "replace", "rename", "published"} =>
        listed[mine[s]] = Contents /\ file[mine[s]]["manifest"] # "absent"
    /\ pc[s] \in {"replace", "rename", "published"} => Whole(mine[s])
    /\ pc[s] = "published" => at[name[s]] = mine[s]

SaversOK ==
    \A s \in Savers : /\ NamedApart(s) /\ CleansUnseen(s) /\ StagesApart(s)
                      /\ FillsInOrder(s) /\ PublishesWhole(s)

\* A name some save() returned True for is on the disk.
PromisesOK == \A n \in promised : at[n] > Junk /\ onDisk[n] = at[n]

\* A load whose manifest was checked: its name still stands for the directory it checked.
ReaderOK ==
    /\ reader.pc \in {"idle", "meta", "rest", "loaded"}
    /\ reader.pc # "idle" /\ reader.checked # Absent =>
        /\ reader.name \in Names /\ reader.checked > Junk
        /\ at[reader.name] = reader.checked
        /\ reader.pc \in {"rest", "loaded"} => reader.meta = reader.checked
        /\ reader.pc = "loaded" => reader.rest = reader.checked

StoreInv == StoreTypes /\ PlacesOK /\ SaversOK /\ PromisesOK /\ ReaderOK

-----------------------------------------------------------------------------
(* What the steps rest on. *)

\* The files of a checkpoint, in the order they are written.
LEMMA FilesToWrite ==
    /\ DOMAIN WriteOrder = 1..Len(WriteOrder)
    /\ Len(WriteOrder) \in Nat /\ Len(WriteOrder) >= 3
    /\ \A i \in 1..Len(WriteOrder) : WriteOrder[i] \in Contents
    /\ \A f \in Contents : \E i \in 1..Len(WriteOrder) : f = WriteOrder[i]
    /\ Files = Contents \union {"manifest"} /\ "manifest" \notin Contents
    /\ "meta" \in Contents
    /\ \A i \in DOMAIN AllFiles : AllFiles[i] \in Files
<1> DEFINE base == <<"meta", "config", "weights">>
           extra == {Extras[i] : i \in DOMAIN Extras}
           all == {"meta", "config", "weights"} \union extra
<1>0. Extras \in Seq(extra)
  BY FilesAssumption
<1> HIDE DEF extra
<1>1. base \in Seq(all) /\ Len(base) = 3 /\ base[1] = "meta" /\ base[2] = "config"
      /\ base[3] = "weights"
  OBVIOUS
<1>2. Extras \in Seq(all) /\ Len(Extras) \in Nat /\ DOMAIN Extras = 1..Len(Extras)
  BY <1>0
<1>3. WriteOrder = base \o Extras
  BY DEF WriteOrder
<1> HIDE DEF base, all
<1>4. /\ WriteOrder \in Seq(all) /\ Len(WriteOrder) = 3 + Len(Extras)
      /\ \A i \in 1..(3 + Len(Extras)) :
            WriteOrder[i] = IF i <= 3 THEN base[i] ELSE Extras[i - 3]
  <2>1. /\ (base \o Extras) \in Seq(all) /\ Len(base \o Extras) = Len(base) + Len(Extras)
        /\ \A i \in 1..(Len(base) + Len(Extras)) : (base \o Extras)[i] =
              IF i <= Len(base) THEN base[i] ELSE Extras[i - Len(base)]
    BY <1>1, <1>2, ConcatProperties
  <2> QED
    BY <1>1, <1>3, <2>1
<1>5. \A i \in 1..Len(WriteOrder) : WriteOrder[i] # "manifest"
  <2> SUFFICES ASSUME NEW i \in 1..Len(WriteOrder) PROVE WriteOrder[i] # "manifest"
    OBVIOUS
  <2>1. CASE i <= 3
    BY <1>1, <1>2, <1>4, <2>1
  <2>2. CASE i > 3
    <3>1. i - 3 \in DOMAIN Extras /\ WriteOrder[i] = Extras[i - 3]
      BY <1>2, <1>4, <2>2
    <3> QED
      BY <3>1, FilesAssumption
  <2> QED
    BY <1>2, <1>4, <2>1, <2>2
<1>6. DOMAIN WriteOrder = 1..Len(WriteOrder)
  BY <1>4
<1>7. /\ Len(AllFiles) = Len(WriteOrder) + 1 /\ DOMAIN AllFiles = 1..(Len(WriteOrder) + 1)
      /\ \A i \in 1..Len(WriteOrder) : AllFiles[i] = WriteOrder[i]
      /\ AllFiles[Len(WriteOrder) + 1] = "manifest"
  BY <1>4, AppendProperties DEF AllFiles
<1>8. Files = Contents \union {"manifest"}
  BY <1>2, <1>4, <1>6, <1>7 DEF Files, Contents
<1>9. "meta" \in Contents
  BY <1>1, <1>2, <1>4, <1>6 DEF Contents
<1> QED
  BY <1>2, <1>4, <1>5, <1>6, <1>7, <1>8, <1>9 DEF Contents, Files

\* Nothing that can be seen is lost in a crash: all of it was synced before it was renamed.
LEMMA NothingUnsynced ==
    ASSUME StoreTypes, PlacesOK
    PROVE  Unsynced = {}
<1> SUFFICES ASSUME NEW n \in Names, NEW f \in Files, at[n] # Absent,
                    file[at[n]][f] # "absent",
                    ~entries[at[n]] \/ file[at[n]][f] = "cached"
             PROVE  FALSE
  BY DEF Unsynced
<1>1. CASE at[n] = Junk
  BY <1>1 DEF PlacesOK
<1>2. CASE at[n] > Junk
  BY <1>2 DEF PlacesOK, Whole
<1> QED
  BY <1>1, <1>2 DEF StoreTypes, Objects, Absent, Junk

-----------------------------------------------------------------------------
(* The invariant holds at first, and every step preserves it. *)

USE DEF contentVars, placeVars, saverVars, Goto, Saving, Objects, Junk, Absent

\* The directory as a first save finds it.
LEMMA StoreInit ==
    ASSUME Init
    PROVE  StoreInv
<1>1. StoreTypes
  BY FilesToWrite, SizesAssumption DEF StoreTypes, Init, Labels, States
<1>2. PlacesOK
  <2>1. \A n \in Names : at[n] \in {Absent, Junk} /\ onDisk[n] = at[n]
    BY DEF Init
  <2>2. /\ \A d \in Objects : age[d] = 0
        /\ entries[Junk] /\ file[Junk]["manifest"] = "absent"
        /\ \A f \in Files : file[Junk][f] # "cached"
    <3>1. "meta" \in Files /\ "manifest" \in Files /\ Junk \in Objects
      BY FilesToWrite, SizesAssumption
    <3>2. /\ \A d \in Objects : age[d] = 0
          /\ entries = [d \in Objects |-> d = Junk]
          /\ \A f \in Files : file[Junk][f] = IF f = "meta" THEN "synced" ELSE "absent"
      BY <3>1 DEF Init
    <3> QED
      BY <3>1, <3>2
  <2> QED
    BY <2>1, <2>2 DEF PlacesOK
<1>3. SaversOK
  BY DEF SaversOK, NamedApart, CleansUnseen, StagesApart, FillsInOrder, PublishesWhole, Init,
         Staged, Unpublished
<1>4. PromisesOK
  BY DEF PromisesOK, Init
<1>5. ReaderOK
  BY DEF ReaderOK, Init, Idle
<1> QED
  BY <1>1, <1>2, <1>3, <1>4, <1>5 DEF StoreInv

\* A save that is over keeps nothing; the other savers are as they were.
LEMMA EndsClean ==
    ASSUME StoreTypes, NEW s \in Savers, End(s)
    PROVE  /\ pc' \in [Savers -> Labels] /\ name' \in [Savers -> Names \union {"none"}]
           /\ mine' \in [Savers -> Objects \union {Absent}] /\ next' \in [Savers -> Nat \ {0}]
           /\ doomed' \in [Savers -> SUBSET (1..used)]
           /\ pc'[s] = "idle" /\ doomed'[s] = {}
           /\ \A r \in Savers \ {s} :
                /\ pc'[r] = pc[r] /\ name'[r] = name[r] /\ mine'[r] = mine[r]
                /\ next'[r] = next[r] /\ doomed'[r] = doomed[r]
<1>1. "idle" \in Labels /\ Absent \in Objects \union {Absent} /\ 1 \in Nat \ {0}
      /\ {} \in SUBSET (1..used)
  BY DEF Labels
<1>2. pc' \in [Savers -> Labels] /\ name' \in [Savers -> Names \union {"none"}]
  BY <1>1 DEF StoreTypes, End
<1>3. mine' \in [Savers -> Objects \union {Absent}]
  BY <1>1 DEF StoreTypes, End
<1>4. next' \in [Savers -> Nat \ {0}]
  BY <1>1 DEF StoreTypes, End
<1>5. doomed' \in [Savers -> SUBSET (1..used)]
  BY <1>1 DEF StoreTypes, End
<1> QED
  BY <1>2, <1>3, <1>4, <1>5 DEF StoreTypes, End

\* A name is free when no other save runs under it.
LEMMA BeginKeeps ==
    ASSUME StoreInv,
           NEW s \in Savers, NEW n \in Names, Begin(s, n)
    PROVE  StoreInv'
<1> USE DEF StoreInv, Begin
<1>1. StoreTypes'
  BY FilesToWrite DEF StoreTypes, Labels, States, Staged
<1>2. PlacesOK'
  BY FilesToWrite DEF StoreTypes, PlacesOK, SaversOK, StagesApart, CleansUnseen,
         PublishesWhole, NamedApart, Whole, Staged, Unpublished
<1>3. SaversOK'
  <2> SUFFICES ASSUME NEW r \in Savers
               PROVE  /\ NamedApart(r)' /\ CleansUnseen(r)' /\ StagesApart(r)'
                      /\ FillsInOrder(r)' /\ PublishesWhole(r)'
    BY DEF SaversOK
  <2>1. NamedApart(r)'
    BY DEF StoreTypes, SaversOK, NamedApart, Labels, Unpublished, Staged
  <2>2. CleansUnseen(r)'
    BY DEF StoreTypes, SaversOK, CleansUnseen, PlacesOK, StagesApart, Labels, Staged
  <2>3. StagesApart(r)'
    BY SizesAssumption DEF StoreTypes, SaversOK, StagesApart, PlacesOK, Labels, Staged
  <2>4. FillsInOrder(r)'
    BY FilesToWrite DEF StoreTypes, SaversOK, FillsInOrder, StagesApart, Labels, Staged
  <2>5. PublishesWhole(r)'
    BY FilesToWrite DEF StoreTypes, SaversOK, PublishesWhole, NamedApart, StagesApart,
           FillsInOrder, Whole, Labels, Staged, Unpublished
  <2> QED
    BY <2>1, <2>2, <2>3, <2>4, <2>5
<1>4. PromisesOK'
  BY DEF StoreTypes, PromisesOK, PlacesOK, SaversOK, NamedApart, PublishesWhole, StagesApart,
         Unpublished, Staged
<1>5. ReaderOK'
  BY DEF StoreTypes, ReaderOK, PlacesOK, SaversOK, NamedApart, Unpublished
<1> QED
  BY <1>1, <1>2, <1>3, <1>4, <1>5

\* What the name check finds stays so until the save has published.
LEMMA CheckKeeps ==
    ASSUME StoreInv, NEW s \in Savers, Check(s)
    PROVE  StoreInv'
<1> USE DEF StoreInv
<1>0. /\ UNCHANGED <<contentVars, placeVars, promised, reader>>
      /\ pc' \in [Savers -> Labels] /\ name' \in [Savers -> Names \union {"none"}]
      /\ mine' \in [Savers -> Objects \union {Absent}] /\ next' \in [Savers -> Nat \ {0}]
      /\ doomed' \in [Savers -> SUBSET (1..used)]
      /\ \/ pc'[s] = "idle" /\ doomed'[s] = {}
         \/ /\ pc[s] = "check" /\ pc'[s] = "clean" /\ name'[s] = name[s]
            /\ doomed'[s] = doomed[s] /\ ~HasManifest(at[name[s]])
      /\ \A r \in Savers \ {s} :
            /\ pc'[r] = pc[r] /\ name'[r] = name[r] /\ mine'[r] = mine[r]
            /\ next'[r] = next[r] /\ doomed'[r] = doomed[r]
  <2>1. CASE HasManifest(at[name[s]])
    BY <2>1, EndsClean DEF Check
  <2>2. CASE ~HasManifest(at[name[s]])
    BY <2>2 DEF Check, StoreTypes, Labels
  <2> QED
    BY <2>1, <2>2
<1>1. StoreTypes'
  BY <1>0, FilesToWrite DEF StoreTypes, Labels, States, Staged
<1>2. PlacesOK'
  BY <1>0, FilesToWrite DEF StoreTypes, PlacesOK, SaversOK, StagesApart, CleansUnseen,
         PublishesWhole, NamedApart, Whole, Staged, Unpublished
<1>3. SaversOK'
  <2> SUFFICES ASSUME NEW r \in Savers
               PROVE  /\ NamedApart(r)' /\ CleansUnseen(r)' /\ StagesApart(r)'
                      /\ FillsInOrder(r)' /\ PublishesWhole(r)'
    BY DEF SaversOK
  <2>0. pc'[s] = "clean" => name[s] \in Names /\ at[name[s]] \in {Absent, Junk}
    <3> SUFFICES ASSUME pc'[s] = "clean"
                 PROVE  name[s] \in Names /\ at[name[s]] \in {Absent, Junk}
      OBVIOUS
    <3>1. pc[s] = "check" /\ ~HasManifest(at[name[s]])
      BY <1>0
    <3>2. name[s] \in Names
      BY <3>1 DEF SaversOK, NamedApart
    <3>3. at[name[s]] > Junk => file[at[name[s]]]["manifest"] = "synced"
      BY <3>2, FilesToWrite DEF PlacesOK, Whole
    <3> QED
      BY <3>1, <3>2, <3>3 DEF HasManifest, StoreTypes
  <2>1. CASE r = s
    <3>1. NamedApart(r)'
      <4> SUFFICES ASSUME pc'[s] = "clean"
                   PROVE  /\ name'[s] \in Names /\ at'[name'[s]] \in {Absent, Junk}
                          /\ \A t \in Savers : s # t /\ pc'[t] # "idle" => name'[s] # name'[t]
        BY <1>0, <2>1 DEF NamedApart, Unpublished
      <4>1. \A t \in Savers : s # t /\ pc[t] # "idle" => name[s] # name[t]
        BY <1>0 DEF SaversOK, NamedApart
      <4> QED
        BY <1>0, <2>0, <4>1
    <3>2. CleansUnseen(r)'
      BY <1>0, <2>1 DEF SaversOK, CleansUnseen
    <3>3. StagesApart(r)' /\ FillsInOrder(r)' /\ PublishesWhole(r)'
      BY <1>0, <2>1 DEF StagesApart, FillsInOrder, PublishesWhole, Staged
    <3> QED
      BY <3>1, <3>2, <3>3
  <2>2. CASE r # s
    <3> r \in Savers \ {s}
      BY <2>2
    <3>1. NamedApart(r)'
      <4>1. \A t \in Savers : r # t /\ pc'[t] # "idle" /\ pc'[r] # "idle" => name'[r] # name'[t]
        BY <1>0 DEF SaversOK, NamedApart
      <4> QED
        BY <1>0, <4>1 DEF SaversOK, NamedApart
    <3>2. CleansUnseen(r)'
      BY <1>0 DEF SaversOK, CleansUnseen
    <3>3. StagesApart(r)'
      <4>1. StagesApart(r)
        BY DEF SaversOK
      <4>2. \A t \in Savers : /\ doomed'[t] \subseteq doomed[t]
                              /\ pc'[t] \in Staged => pc[t] \in Staged /\ mine'[t] = mine[t]
        BY <1>0 DEF Staged
      <4> QED
        BY <1>0, <4>1, <4>2 DEF StagesApart
    <3>4. FillsInOrder(r)' /\ PublishesWhole(r)'
      <4>1. FillsInOrder(r) /\ PublishesWhole(r)
        BY DEF SaversOK
      <4> QED
        BY <1>0, <4>1, SMTT(60) DEF FillsInOrder, PublishesWhole, Whole
    <3> QED
      BY <3>1, <3>2, <3>3, <3>4
  <2> QED
    BY <2>1, <2>2
<1>4. PromisesOK'
  BY <1>0 DEF StoreTypes, PromisesOK, PlacesOK, SaversOK, NamedApart, PublishesWhole,
         StagesApart, Unpublished, Staged
<1>5. ReaderOK'
  BY <1>0 DEF StoreTypes, ReaderOK, PlacesOK, SaversOK, NamedApart, Unpublished
<1> QED
  BY <1>1, <1>2, <1>3, <1>4, <1>5

\* Nothing a live save fills is old enough to be taken for abandoned.
LEMMA CleanBeginsKeeps ==
    ASSUME StoreInv, NEW s \in Savers, CleanBegins(s)
    PROVE  StoreInv'
<1> USE DEF StoreInv, CleanBegins, Stale
<1>1. StoreTypes'
  BY FilesToWrite DEF StoreTypes, Labels, States, Staged
<1>2. PlacesOK'
  BY FilesToWrite DEF StoreTypes, PlacesOK, SaversOK, StagesApart, CleansUnseen,
         PublishesWhole, NamedApart, Whole, Staged, Unpublished
<1>3. SaversOK'
  <2> SUFFICES ASSUME NEW r \in Savers
               PROVE  /\ NamedApart(r)' /\ CleansUnseen(r)' /\ StagesApart(r)'
                      /\ FillsInOrder(r)' /\ PublishesWhole(r)'
    BY DEF SaversOK
  <2>1. NamedApart(r)'
    BY DEF StoreTypes, SaversOK, NamedApart, Labels, Unpublished, Staged
  <2>2. CleansUnseen(r)'
    BY DEF StoreTypes, SaversOK, CleansUnseen, PlacesOK, StagesApart, Labels, Staged
  <2>3. StagesApart(r)'
    BY SizesAssumption DEF StoreTypes, SaversOK, StagesApart, PlacesOK, Labels, Staged
  <2>4. FillsInOrder(r)'
    BY FilesToWrite DEF StoreTypes, SaversOK, FillsInOrder, StagesApart, Labels, Staged
  <2>5. PublishesWhole(r)'
    BY FilesToWrite DEF StoreTypes, SaversOK, PublishesWhole, NamedApart, StagesApart,
           FillsInOrder, Whole, Labels, Staged, Unpublished
  <2> QED
    BY <2>1, <2>2, <2>3, <2>4, <2>5
<1>4. PromisesOK'
  BY DEF StoreTypes, PromisesOK, PlacesOK, SaversOK, NamedApart, PublishesWhole, StagesApart,
         Unpublished, Staged
<1>5. ReaderOK'
  BY DEF StoreTypes, ReaderOK, PlacesOK, SaversOK, NamedApart, Unpublished
<1> QED
  BY <1>1, <1>2, <1>3, <1>4, <1>5

\* Cleanup takes files of directories nobody sees or fills.
LEMMA RemoveFileKeeps ==
    ASSUME StoreInv,
           NEW s \in Savers, NEW d \in Objects, RemoveFile(s, d)
    PROVE  StoreInv'
<1> USE DEF StoreInv, RemoveFile
<1>1. StoreTypes'
  <2>1. PICK f \in Files : file' = [file EXCEPT ![d] = [file[d] EXCEPT ![f] = "absent"]]
    BY FilesToWrite
  <2>2. file' \in [Objects -> [Files -> States]]
    BY <2>1 DEF StoreTypes, States
  <2> QED
    BY <2>2 DEF StoreTypes, Labels, Staged
<1>2. PlacesOK'
  BY FilesToWrite DEF StoreTypes, PlacesOK, SaversOK, StagesApart, CleansUnseen,
         PublishesWhole, NamedApart, Whole, Staged, Unpublished
<1>3. SaversOK'
  <2> SUFFICES ASSUME NEW r \in Savers
               PROVE  /\ NamedApart(r)' /\ CleansUnseen(r)' /\ StagesApart(r)'
                      /\ FillsInOrder(r)' /\ PublishesWhole(r)'
    BY DEF SaversOK
  <2>1. NamedApart(r)'
    BY DEF StoreTypes, SaversOK, NamedApart, Labels, Unpublished, Staged
  <2>2. CleansUnseen(r)'
    BY DEF StoreTypes, SaversOK, CleansUnseen, PlacesOK, StagesApart, Labels, Staged
  <2>3. StagesApart(r)'
    BY SizesAssumption DEF StoreTypes, SaversOK, StagesApart, PlacesOK, Labels, Staged
  <2>4. FillsInOrder(r)'
    BY FilesToWrite DEF StoreTypes, SaversOK, FillsInOrder, StagesApart, Labels, Staged
  <2>5. PublishesWhole(r)'
    BY FilesToWrite DEF StoreTypes, SaversOK, PublishesWhole, NamedApart, StagesApart,
           FillsInOrder, Whole, Labels, Staged, Unpublished
  <2> QED
    BY <2>1, <2>2, <2>3, <2>4, <2>5
<1>4. PromisesOK'
  BY DEF StoreTypes, PromisesOK, PlacesOK, SaversOK, NamedApart, PublishesWhole, StagesApart,
         Unpublished, Staged
<1>5. ReaderOK'
  BY DEF StoreTypes, ReaderOK, PlacesOK, SaversOK, NamedApart, Unpublished
<1> QED
  BY <1>1, <1>2, <1>3, <1>4, <1>5

\* The same for the directory itself.
LEMMA RemoveDirectoryKeeps ==
    ASSUME StoreInv,
           NEW s \in Savers, NEW d \in Objects, RemoveDirectory(s, d)
    PROVE  StoreInv'
<1> USE DEF StoreInv, RemoveDirectory
<1>1. StoreTypes'
  BY FilesToWrite DEF StoreTypes, Labels, States, Staged
<1>2. PlacesOK'
  BY FilesToWrite DEF StoreTypes, PlacesOK, SaversOK, StagesApart, CleansUnseen,
         PublishesWhole, NamedApart, Whole, Staged, Unpublished
<1>3. SaversOK'
  <2> SUFFICES ASSUME NEW r \in Savers
               PROVE  /\ NamedApart(r)' /\ CleansUnseen(r)' /\ StagesApart(r)'
                      /\ FillsInOrder(r)' /\ PublishesWhole(r)'
    BY DEF SaversOK
  <2>1. NamedApart(r)'
    BY DEF StoreTypes, SaversOK, NamedApart, Labels, Unpublished, Staged
  <2>2. CleansUnseen(r)'
    BY DEF StoreTypes, SaversOK, CleansUnseen, PlacesOK, StagesApart, Labels, Staged
  <2>3. StagesApart(r)'
    BY SizesAssumption DEF StoreTypes, SaversOK, StagesApart, PlacesOK, Labels, Staged
  <2>4. FillsInOrder(r)'
    BY FilesToWrite DEF StoreTypes, SaversOK, FillsInOrder, StagesApart, Labels, Staged
  <2>5. PublishesWhole(r)'
    BY FilesToWrite DEF StoreTypes, SaversOK, PublishesWhole, NamedApart, StagesApart,
           FillsInOrder, Whole, Labels, Staged, Unpublished
  <2> QED
    BY <2>1, <2>2, <2>3, <2>4, <2>5
<1>4. PromisesOK'
  BY DEF StoreTypes, PromisesOK, PlacesOK, SaversOK, NamedApart, PublishesWhole, StagesApart,
         Unpublished, Staged
<1>5. ReaderOK'
  BY DEF StoreTypes, ReaderOK, PlacesOK, SaversOK, NamedApart, Unpublished
<1> QED
  BY <1>1, <1>2, <1>3, <1>4, <1>5

\* A new directory is nobody else's and has no age.
LEMMA MakeStagingKeeps ==
    ASSUME StoreInv, NEW s \in Savers, MakeStaging(s)
    PROVE  StoreInv'
<1> USE DEF StoreInv, MakeStaging
<1>1. StoreTypes'
  <2>1. used + 1 \in 1..MaxObjects /\ used + 1 \in Objects /\ "write" \in Labels
    BY SizesAssumption DEF StoreTypes, Labels, Staged
  <2>2. used' \in 0..MaxObjects /\ staging' \subseteq 1..used'
    BY <2>1 DEF StoreTypes
  <2>3. pc' \in [Savers -> Labels] /\ mine' \in [Savers -> Objects \union {Absent}]
    BY <2>1 DEF StoreTypes
  <2>4. next' \in [Savers -> Nat \ {0}]
    BY DEF StoreTypes
  <2>5. doomed' \in [Savers -> SUBSET (1..used')]
    BY DEF StoreTypes
  <2> QED
    BY <2>2, <2>3, <2>4, <2>5 DEF StoreTypes
<1>2. PlacesOK'
  BY FilesToWrite DEF StoreTypes, PlacesOK, SaversOK, StagesApart, CleansUnseen,
         PublishesWhole, NamedApart, Whole, Staged, Unpublished
<1>3. SaversOK'
  <2> SUFFICES ASSUME NEW r \in Savers
               PROVE  /\ NamedApart(r)' /\ CleansUnseen(r)' /\ StagesApart(r)'
                      /\ FillsInOrder(r)' /\ PublishesWhole(r)'
    BY DEF SaversOK
  <2>1. NamedApart(r)'
    BY DEF StoreTypes, SaversOK, NamedApart, Labels, Unpublished, Staged
  <2>2. CleansUnseen(r)'
    BY DEF StoreTypes, SaversOK, CleansUnseen, PlacesOK, StagesApart, Labels, Staged
  <2>3. StagesApart(r)'
    BY SizesAssumption DEF StoreTypes, SaversOK, StagesApart, PlacesOK, Labels, Staged
  <2>4. FillsInOrder(r)'
    BY FilesToWrite DEF StoreTypes, SaversOK, FillsInOrder, StagesApart, Labels, Staged
  <2>5. PublishesWhole(r)'
    BY FilesToWrite DEF StoreTypes, SaversOK, PublishesWhole, NamedApart, StagesApart,
           FillsInOrder, Whole, Labels, Staged, Unpublished
  <2> QED
    BY <2>1, <2>2, <2>3, <2>4, <2>5
<1>4. PromisesOK'
  BY DEF StoreTypes, PromisesOK, PlacesOK, SaversOK, NamedApart, PublishesWhole, StagesApart,
         Unpublished, Staged
<1>5. ReaderOK'
  BY DEF StoreTypes, ReaderOK, PlacesOK, SaversOK, NamedApart, Unpublished
<1> QED
  BY <1>1, <1>2, <1>3, <1>4, <1>5

\* One more file of the save's own directory.
LEMMA WriteFileKeeps ==
    ASSUME StoreInv, NEW s \in Savers, WriteFile(s)
    PROVE  StoreInv'
<1> USE DEF StoreInv, WriteFile, Created
<1>1. StoreTypes'
  <2>1. /\ mine[s] \in Objects /\ WriteOrder[next[s]] \in Files
    BY FilesToWrite DEF StoreTypes, SaversOK, StagesApart, FillsInOrder, Staged
  <2>2. file' \in [Objects -> [Files -> States]]
    BY <2>1 DEF StoreTypes, States
  <2>3. age' \in [Objects -> Nat]
    BY <2>1 DEF StoreTypes
  <2>4. next' \in [Savers -> Nat \ {0}]
    BY DEF StoreTypes
  <2>5. pc' \in [Savers -> Labels]
    BY DEF StoreTypes, Labels, Staged
  <2> QED
    BY <2>2, <2>3, <2>4, <2>5 DEF StoreTypes
<1>2. PlacesOK'
  BY FilesToWrite DEF StoreTypes, PlacesOK, SaversOK, StagesApart, CleansUnseen,
         PublishesWhole, NamedApart, Whole, Staged, Unpublished
<1>3. SaversOK'
  <2> SUFFICES ASSUME NEW r \in Savers
               PROVE  /\ NamedApart(r)' /\ CleansUnseen(r)' /\ StagesApart(r)'
                      /\ FillsInOrder(r)' /\ PublishesWhole(r)'
    BY DEF SaversOK
  <2>1. NamedApart(r)'
    BY DEF StoreTypes, SaversOK, NamedApart, Labels, Unpublished, Staged
  <2>2. CleansUnseen(r)'
    BY DEF StoreTypes, SaversOK, CleansUnseen, PlacesOK, StagesApart, Labels, Staged
  <2>3. StagesApart(r)'
    BY SizesAssumption DEF StoreTypes, SaversOK, StagesApart, PlacesOK, Labels, Staged
  <2>4. FillsInOrder(r)'
    BY FilesToWrite DEF StoreTypes, SaversOK, FillsInOrder, StagesApart, Labels, Staged
  <2>5. PublishesWhole(r)'
    BY FilesToWrite DEF StoreTypes, SaversOK, PublishesWhole, NamedApart, StagesApart,
           FillsInOrder, Whole, Labels, Staged, Unpublished
  <2> QED
    BY <2>1, <2>2, <2>3, <2>4, <2>5
<1>4. PromisesOK'
  BY DEF StoreTypes, PromisesOK, PlacesOK, SaversOK, NamedApart, PublishesWhole, StagesApart,
         Unpublished, Staged
<1>5. ReaderOK'
  BY DEF StoreTypes, ReaderOK, PlacesOK, SaversOK, NamedApart, Unpublished
<1> QED
  BY <1>1, <1>2, <1>3, <1>4, <1>5

\* The manifest lists all contents, since all were written before it.
LEMMA WriteManifestKeeps ==
    ASSUME StoreInv, NEW s \in Savers, WriteManifest(s)
    PROVE  StoreInv'
<1> USE DEF StoreInv, WriteManifest, Created
<1>1. StoreTypes'
  BY FilesToWrite DEF StoreTypes, Labels, States, Staged
<1>2. PlacesOK'
  BY FilesToWrite DEF StoreTypes, PlacesOK, SaversOK, StagesApart, CleansUnseen,
         PublishesWhole, NamedApart, Whole, Staged, Unpublished
<1>3. SaversOK'
  <2> SUFFICES ASSUME NEW r \in Savers
               PROVE  /\ NamedApart(r)' /\ CleansUnseen(r)' /\ StagesApart(r)'
                      /\ FillsInOrder(r)' /\ PublishesWhole(r)'
    BY DEF SaversOK
  <2>1. NamedApart(r)'
    BY DEF StoreTypes, SaversOK, NamedApart, Labels, Unpublished, Staged
  <2>2. CleansUnseen(r)'
    BY DEF StoreTypes, SaversOK, CleansUnseen, PlacesOK, StagesApart, Labels, Staged
  <2>3. StagesApart(r)'
    BY SizesAssumption DEF StoreTypes, SaversOK, StagesApart, PlacesOK, Labels, Staged
  <2>4. FillsInOrder(r)'
    BY FilesToWrite, SMTT(60) DEF StoreTypes, SaversOK, FillsInOrder, StagesApart, Labels, Staged
  <2>5. PublishesWhole(r)'
    <3>1. mine[s] \in Objects /\ \A f \in Contents : file[mine[s]][f] # "absent"
      BY FilesToWrite DEF StoreTypes, SaversOK, StagesApart, FillsInOrder, Staged
    <3>2. CASE r = s
      <4>1. listed'[mine[s]] = Contents
        BY <3>1 DEF StoreTypes
      <4>2. file'[mine[s]]["manifest"] # "absent"
        BY <3>1, FilesToWrite DEF StoreTypes
      <4> QED
        BY <3>2, <4>1, <4>2 DEF PublishesWhole, StoreTypes
    <3>3. CASE r # s
      <4>1. pc[r] \in Staged => mine[r] # mine[s]
        BY <3>3 DEF SaversOK, StagesApart, Staged
      <4>2. PublishesWhole(r)
        BY DEF SaversOK
      <4> QED
        BY <3>1, <3>3, <4>1, <4>2 DEF PublishesWhole, StoreTypes, Whole, Staged
    <3> QED
      BY <3>2, <3>3
  <2> QED
    BY <2>1, <2>2, <2>3, <2>4, <2>5
<1>4. PromisesOK'
  BY DEF StoreTypes, PromisesOK, PlacesOK, SaversOK, NamedApart, PublishesWhole, StagesApart,
         Unpublished, Staged
<1>5. ReaderOK'
  BY DEF StoreTypes, ReaderOK, PlacesOK, SaversOK, NamedApart, Unpublished
<1> QED
  BY <1>1, <1>2, <1>3, <1>4, <1>5

\* After the syncs the directory is whole.
LEMMA SyncFilesKeeps ==
    ASSUME StoreInv, NEW s \in Savers, SyncFiles(s)
    PROVE  StoreInv'
<1> USE DEF StoreInv, SyncFiles
<1>1. StoreTypes'
  BY FilesToWrite DEF StoreTypes, Labels, States, Staged
<1>2. PlacesOK'
  BY FilesToWrite DEF StoreTypes, PlacesOK, SaversOK, StagesApart, CleansUnseen,
         PublishesWhole, NamedApart, Whole, Staged, Unpublished
<1>3. SaversOK'
  <2> SUFFICES ASSUME NEW r \in Savers
               PROVE  /\ NamedApart(r)' /\ CleansUnseen(r)' /\ StagesApart(r)'
                      /\ FillsInOrder(r)' /\ PublishesWhole(r)'
    BY DEF SaversOK
  <2>1. NamedApart(r)'
    BY DEF StoreTypes, SaversOK, NamedApart, Labels, Unpublished, Staged
  <2>2. CleansUnseen(r)'
    BY DEF StoreTypes, SaversOK, CleansUnseen, PlacesOK, StagesApart, Labels, Staged
  <2>3. StagesApart(r)'
    BY SizesAssumption DEF StoreTypes, SaversOK, StagesApart, PlacesOK, Labels, Staged
  <2>4. FillsInOrder(r)'
    BY FilesToWrite DEF StoreTypes, SaversOK, FillsInOrder, StagesApart, Labels, Staged
  <2>5. PublishesWhole(r)'
    <3>1. /\ mine[s] \in Objects /\ listed[mine[s]] = Contents
          /\ file[mine[s]]["manifest"] # "absent"
          /\ \A f \in Contents : file[mine[s]][f] # "absent"
      BY FilesToWrite DEF StoreTypes, SaversOK, StagesApart, FillsInOrder, PublishesWhole,
             Staged
    <3>2. CASE r = s
      <4>1. \A f \in Files : file'[mine[s]][f] = "synced"
        BY <3>1, FilesToWrite DEF StoreTypes
      <4>2. entries'[mine[s]] /\ listed'[mine[s]] = Contents /\ "manifest" \in Files
        BY <3>1, FilesToWrite DEF StoreTypes
      <4> QED
        BY <3>2, <4>1, <4>2 DEF PublishesWhole, StoreTypes, Whole
    <3>3. CASE r # s
      <4>1. pc[r] \in Staged => mine[r] # mine[s]
        BY <3>3 DEF SaversOK, StagesApart, Staged
      <4>2. PublishesWhole(r)
        BY DEF SaversOK
      <4> QED
        BY <3>1, <3>3, <4>1, <4>2 DEF PublishesWhole, StoreTypes, Whole, Staged
    <3> QED
      BY <3>2, <3>3
  <2> QED
    BY <2>1, <2>2, <2>3, <2>4, <2>5
<1>4. PromisesOK'
  BY DEF StoreTypes, PromisesOK, PlacesOK, SaversOK, NamedApart, PublishesWhole, StagesApart,
         Unpublished, Staged
<1>5. ReaderOK'
  BY DEF StoreTypes, ReaderOK, PlacesOK, SaversOK, NamedApart, Unpublished
<1> QED
  BY <1>1, <1>2, <1>3, <1>4, <1>5

\* What is removed under the name was no checkpoint.
LEMMA RemoveJunkKeeps ==
    ASSUME StoreInv, NEW s \in Savers, RemoveJunk(s)
    PROVE  StoreInv'
<1> USE DEF StoreInv, RemoveJunk
<1>1. StoreTypes'
  BY FilesToWrite DEF StoreTypes, Labels, States, Staged
<1>2. PlacesOK'
  BY FilesToWrite DEF StoreTypes, PlacesOK, SaversOK, StagesApart, CleansUnseen,
         PublishesWhole, NamedApart, Whole, Staged, Unpublished
<1>3. SaversOK'
  <2> SUFFICES ASSUME NEW r \in Savers
               PROVE  /\ NamedApart(r)' /\ CleansUnseen(r)' /\ StagesApart(r)'
                      /\ FillsInOrder(r)' /\ PublishesWhole(r)'
    BY DEF SaversOK
  <2>1. NamedApart(r)'
    BY DEF StoreTypes, SaversOK, NamedApart, Labels, Unpublished, Staged
  <2>2. CleansUnseen(r)'
    BY DEF StoreTypes, SaversOK, CleansUnseen, PlacesOK, StagesApart, Labels, Staged
  <2>3. StagesApart(r)'
    BY SizesAssumption DEF StoreTypes, SaversOK, StagesApart, PlacesOK, Labels, Staged
  <2>4. FillsInOrder(r)'
    BY FilesToWrite DEF StoreTypes, SaversOK, FillsInOrder, StagesApart, Labels, Staged
  <2>5. PublishesWhole(r)'
    BY FilesToWrite DEF StoreTypes, SaversOK, PublishesWhole, NamedApart, StagesApart,
           FillsInOrder, Whole, Labels, Staged, Unpublished
  <2> QED
    BY <2>1, <2>2, <2>3, <2>4, <2>5
<1>4. PromisesOK'
  BY DEF StoreTypes, PromisesOK, PlacesOK, SaversOK, NamedApart, PublishesWhole, StagesApart,
         Unpublished, Staged
<1>5. ReaderOK'
  BY DEF StoreTypes, ReaderOK, PlacesOK, SaversOK, NamedApart, Unpublished
<1> QED
  BY <1>1, <1>2, <1>3, <1>4, <1>5

\* The directory that takes the name is whole, and leaves the staging area.
LEMMA RenameKeeps ==
    ASSUME StoreInv, NEW s \in Savers, Rename(s)
    PROVE  StoreInv'
<1> USE DEF StoreInv, Rename
<1>1. StoreTypes'
  BY FilesToWrite DEF StoreTypes, Labels, States, Staged
<1>2. PlacesOK'
  BY FilesToWrite DEF StoreTypes, PlacesOK, SaversOK, StagesApart, CleansUnseen,
         PublishesWhole, NamedApart, Whole, Staged, Unpublished
<1>3. SaversOK'
  <2> SUFFICES ASSUME NEW r \in Savers
               PROVE  /\ NamedApart(r)' /\ CleansUnseen(r)' /\ StagesApart(r)'
                      /\ FillsInOrder(r)' /\ PublishesWhole(r)'
    BY DEF SaversOK
  <2>1. NamedApart(r)'
    BY DEF StoreTypes, SaversOK, NamedApart, Labels, Unpublished, Staged
  <2>2. CleansUnseen(r)'
    BY DEF StoreTypes, SaversOK, CleansUnseen, PlacesOK, StagesApart, Labels, Staged
  <2>3. StagesApart(r)'
    BY SizesAssumption DEF StoreTypes, SaversOK, StagesApart, PlacesOK, Labels, Staged
  <2>4. FillsInOrder(r)'
    BY FilesToWrite DEF StoreTypes, SaversOK, FillsInOrder, StagesApart, Labels, Staged
  <2>5. PublishesWhole(r)'
    BY FilesToWrite DEF StoreTypes, SaversOK, PublishesWhole, NamedApart, StagesApart,
           FillsInOrder, Whole, Labels, Staged, Unpublished
  <2> QED
    BY <2>1, <2>2, <2>3, <2>4, <2>5
<1>4. PromisesOK'
  BY DEF StoreTypes, PromisesOK, PlacesOK, SaversOK, NamedApart, PublishesWhole, StagesApart,
         Unpublished, Staged
<1>5. ReaderOK'
  BY DEF StoreTypes, ReaderOK, PlacesOK, SaversOK, NamedApart, Unpublished
<1> QED
  BY <1>1, <1>2, <1>3, <1>4, <1>5

\* What save() promises is on the disk.
LEMMA SyncParentKeeps ==
    ASSUME StoreInv, NEW s \in Savers, SyncParent(s)
    PROVE  StoreInv'
<1> USE DEF StoreInv, SyncParent, End
<1>1. StoreTypes'
  <2>1. promised' \subseteq Names
    BY DEF StoreTypes, SaversOK, NamedApart
  <2>2. /\ pc' \in [Savers -> Labels] /\ name' \in [Savers -> Names \union {"none"}]
        /\ mine' \in [Savers -> Objects \union {Absent}] /\ next' \in [Savers -> Nat \ {0}]
        /\ doomed' \in [Savers -> SUBSET (1..used)]
    BY EndsClean
  <2> QED
    BY <2>1, <2>2 DEF StoreTypes
<1>2. PlacesOK'
  BY FilesToWrite DEF StoreTypes, PlacesOK, SaversOK, StagesApart, CleansUnseen,
         PublishesWhole, NamedApart, Whole, Staged, Unpublished
<1>3. SaversOK'
  <2> SUFFICES ASSUME NEW r \in Savers
               PROVE  /\ NamedApart(r)' /\ CleansUnseen(r)' /\ StagesApart(r)'
                      /\ FillsInOrder(r)' /\ PublishesWhole(r)'
    BY DEF SaversOK
  <2>1. NamedApart(r)'
    BY DEF StoreTypes, SaversOK, NamedApart, Labels, Unpublished, Staged
  <2>2. CleansUnseen(r)'
    BY DEF StoreTypes, SaversOK, CleansUnseen, PlacesOK, StagesApart, Labels, Staged
  <2>3. StagesApart(r)'
    BY SizesAssumption DEF StoreTypes, SaversOK, StagesApart, PlacesOK, Labels, Staged
  <2>4. FillsInOrder(r)'
    BY FilesToWrite DEF StoreTypes, SaversOK, FillsInOrder, StagesApart, Labels, Staged
  <2>5. PublishesWhole(r)'
    BY FilesToWrite DEF StoreTypes, SaversOK, PublishesWhole, NamedApart, StagesApart,
           FillsInOrder, Whole, Labels, Staged, Unpublished
  <2> QED
    BY <2>1, <2>2, <2>3, <2>4, <2>5
<1>4. PromisesOK'
  BY DEF StoreTypes, PromisesOK, PlacesOK, SaversOK, NamedApart, PublishesWhole, StagesApart,
         Unpublished, Staged
<1>5. ReaderOK'
  BY DEF StoreTypes, ReaderOK, PlacesOK, SaversOK, NamedApart, Unpublished
<1> QED
  BY <1>1, <1>2, <1>3, <1>4, <1>5

\* A save that raises removes only its own staging directory.
LEMMA RaiseKeeps ==
    ASSUME StoreInv, NEW s \in Savers, Raise(s)
    PROVE  StoreInv'
<1> USE DEF StoreInv
<1>0. /\ pc' \in [Savers -> Labels] /\ name' \in [Savers -> Names \union {"none"}]
      /\ mine' \in [Savers -> Objects \union {Absent}] /\ next' \in [Savers -> Nat \ {0}]
      /\ doomed' \in [Savers -> SUBSET (1..used)]
      /\ pc'[s] = "idle" /\ doomed'[s] = {}
      /\ \A r \in Savers \ {s} :
           /\ pc'[r] = pc[r] /\ name'[r] = name[r] /\ mine'[r] = mine[r]
           /\ next'[r] = next[r] /\ doomed'[r] = doomed[r]
  BY EndsClean DEF Raise
<1>a. /\ UNCHANGED <<listed, entries, age, at, onDisk, used, promised, reader>>
      /\ staging' \subseteq staging
      /\ \A d \in staging : d # mine[s] => d \in staging'
      /\ \A d \in Objects : d # mine[s] \/ d \notin staging => file'[d] = file[d]
      /\ file' \in [Objects -> [Files -> States]]
  <2>1. [f \in Files |-> "absent"] \in [Files -> States]
    BY DEF States
  <2> QED
    BY <2>1 DEF Raise, StoreTypes
<1>b. pc[s] \in Staged /\ mine[s] \in 1..used
  BY DEF Raise, SaversOK, StagesApart
<1>1. StoreTypes'
  BY <1>0, <1>a, <1>b, FilesToWrite DEF StoreTypes, Labels, States, Staged
<1>2. PlacesOK'
  <2>1. mine[s] # Junk /\ \A n \in Names : at[n] > Junk => at[n] \notin staging
    BY <1>b DEF PlacesOK
  <2>2. \A n \in Names : at[n] > Junk => file'[at[n]] = file[at[n]] /\ at[n] \notin staging'
    BY <1>a, <2>1 DEF StoreTypes
  <2>3. file'[Junk] = file[Junk]
    BY <1>a, <2>1, SizesAssumption DEF StoreTypes
  <2> QED
    BY <1>a, <2>2, <2>3 DEF PlacesOK, Whole
<1>3. SaversOK'
  <2> SUFFICES ASSUME NEW r \in Savers
               PROVE  /\ NamedApart(r)' /\ CleansUnseen(r)' /\ StagesApart(r)'
                      /\ FillsInOrder(r)' /\ PublishesWhole(r)'
    BY DEF SaversOK
  <2>1. CASE r = s
    BY <1>0, <2>1 DEF NamedApart, CleansUnseen, StagesApart, FillsInOrder, PublishesWhole,
       Staged, Unpublished
  <2>2. CASE r # s
    <3> r \in Savers \ {s}
      BY <2>2
    <3>0. \A t \in Savers : /\ doomed'[t] \subseteq doomed[t]
                            /\ pc'[t] # "idle" => /\ pc'[t] = pc[t] /\ mine'[t] = mine[t]
                                                  /\ name'[t] = name[t]
      BY <1>0
    <3>1. NamedApart(r)'
      <4>1. NamedApart(r)
        BY DEF SaversOK
      <4>2. \A t \in Savers : r # t /\ pc'[t] # "idle" /\ pc'[r] # "idle" => name'[r] # name'[t]
        BY <3>0, <4>1 DEF NamedApart
      <4> QED
        BY <1>0, <1>a, <4>1, <4>2 DEF NamedApart
    <3>2. CleansUnseen(r)'
      BY <1>0, <1>a DEF SaversOK, CleansUnseen
    <3>3. pc[r] \in Staged => mine[r] # mine[s] /\ mine[r] \in Objects
      BY <1>b DEF SaversOK, StagesApart, StoreTypes
    <3>4. StagesApart(r)'
      <4>1. StagesApart(r)
        BY DEF SaversOK
      <4> QED
        BY <1>0, <1>a, <3>0, <3>3, <4>1 DEF StagesApart, Staged
    <3>5. FillsInOrder(r)' /\ PublishesWhole(r)'
      <4>1. FillsInOrder(r) /\ PublishesWhole(r)
        BY DEF SaversOK
      <4> QED
        BY <1>0, <1>a, <3>3, <4>1 DEF FillsInOrder, PublishesWhole, Whole, Staged
    <3> QED
      BY <3>1, <3>2, <3>4, <3>5
  <2> QED
    BY <2>1, <2>2
<1>4. PromisesOK'
  BY <1>0, <1>a, <1>b DEF StoreTypes, PromisesOK, PlacesOK, SaversOK, NamedApart,
         PublishesWhole, StagesApart, Unpublished, Staged
<1>5. ReaderOK'
  BY <1>0, <1>a, <1>b DEF StoreTypes, ReaderOK, PlacesOK, SaversOK, NamedApart, Unpublished
<1> QED
  BY <1>1, <1>2, <1>3, <1>4, <1>5

\* A killed save leaves its directory to later cleanups.
LEMMA KillKeeps ==
    ASSUME StoreInv, NEW s \in Savers, Kill(s)
    PROVE  StoreInv'
<1> USE DEF StoreInv, Kill, End
<1>1. StoreTypes'
  <2>1. /\ pc' \in [Savers -> Labels] /\ name' \in [Savers -> Names \union {"none"}]
        /\ mine' \in [Savers -> Objects \union {Absent}]
    BY DEF StoreTypes, Labels
  <2>2. next' \in [Savers -> Nat \ {0}] /\ doomed' \in [Savers -> SUBSET (1..used)]
    BY DEF StoreTypes
  <2>3. UNCHANGED <<contentVars, placeVars, promised>>
    OBVIOUS
  <2> QED
    BY <2>1, <2>2, <2>3 DEF StoreTypes, contentVars, placeVars
<1>2. PlacesOK'
  BY FilesToWrite DEF StoreTypes, PlacesOK, SaversOK, StagesApart, CleansUnseen,
         PublishesWhole, NamedApart, Whole, Staged, Unpublished
<1>3. SaversOK'
  <2> SUFFICES ASSUME NEW r \in Savers
               PROVE  /\ NamedApart(r)' /\ CleansUnseen(r)' /\ StagesApart(r)'
                      /\ FillsInOrder(r)' /\ PublishesWhole(r)'
    BY DEF SaversOK
  <2>1. NamedApart(r)'
    BY DEF StoreTypes, SaversOK, NamedApart, Labels, Unpublished, Staged
  <2>2. CleansUnseen(r)'
    BY DEF StoreTypes, SaversOK, CleansUnseen, PlacesOK, StagesApart, Labels, Staged
  <2>3. StagesApart(r)'
    BY SizesAssumption DEF StoreTypes, SaversOK, StagesApart, PlacesOK, Labels, Staged
  <2>4. FillsInOrder(r)'
    BY FilesToWrite DEF StoreTypes, SaversOK, FillsInOrder, StagesApart, Labels, Staged
  <2>5. PublishesWhole(r)'
    BY FilesToWrite DEF StoreTypes, SaversOK, PublishesWhole, NamedApart, StagesApart,
           FillsInOrder, Whole, Labels, Staged, Unpublished
  <2> QED
    BY <2>1, <2>2, <2>3, <2>4, <2>5
<1>4. PromisesOK'
  BY DEF StoreTypes, PromisesOK, PlacesOK, SaversOK, NamedApart, PublishesWhole, StagesApart,
         Unpublished, Staged
<1>5. ReaderOK'
  BY DEF StoreTypes, ReaderOK, PlacesOK, SaversOK, NamedApart, Unpublished
<1> QED
  BY <1>1, <1>2, <1>3, <1>4, <1>5

\* A crash loses renames and nothing inside of what was renamed.
LEMMA CrashKeeps ==
    ASSUME StoreInv, Crash
    PROVE  StoreInv'
<1> USE DEF StoreInv
<1>0. /\ UNCHANGED <<listed, entries, age, used, promised>>
      /\ pc' = [r \in Savers |-> "idle"] /\ name' = [r \in Savers |-> "none"]
      /\ mine' = [r \in Savers |-> Absent] /\ next' = [r \in Savers |-> 1]
      /\ doomed' = [r \in Savers |-> {}] /\ reader' = Idle /\ onDisk' = at'
  BY DEF Crash
<1>a. file' = file
  <2>1. file' = [d \in Objects |-> [f \in Files |-> file[d][f]]]
    BY NothingUnsynced DEF Crash
  <2> QED
    BY <2>1 DEF StoreTypes
<1>b. /\ at' \in [Names -> Objects \union {Absent}]
      /\ \A n \in Names : at'[n] = at[n] \/ at'[n] = onDisk[n]
  BY DEF Crash, StoreTypes
<1>c. \A n \in Names : /\ at[n] = Junk => at'[n] = Junk
                       /\ at'[n] > Junk => at'[n] = at[n]
  BY <1>b DEF PlacesOK
<1>d. staging' = staging \union
                   {d \in {at[n] : n \in Names} : d # Absent /\ \A n \in Names : at'[n] # d}
  BY DEF Crash
<1>e. staging' \subseteq 1..used /\ \A n \in Names : at'[n] > Junk => at'[n] \notin staging'
  <2>1. ASSUME NEW d \in staging' PROVE d \in 1..used
    <3>1. CASE d \in staging
      BY <3>1 DEF StoreTypes
    <3>2. ASSUME NEW n \in Names, d = at[n], d # Absent, \A m \in Names : at'[m] # d
          PROVE  d \in 1..used
      <4>1. at[n] # Junk
        BY <1>c, <3>2
      <4> QED
        BY <3>2, <4>1 DEF StoreTypes, PlacesOK
    <3> QED
      BY <1>d, <2>1, <3>1, <3>2
  <2>2. ASSUME NEW n \in Names, at'[n] > Junk PROVE at'[n] \notin staging'
    BY <1>c, <1>d, <2>2 DEF PlacesOK
  <2> QED
    BY <2>1, <2>2
<1>1. StoreTypes'
  BY <1>0, <1>a, <1>b, <1>c, <1>e, SizesAssumption DEF StoreTypes, Labels, States, Staged
<1>2. PlacesOK'
  BY <1>0, <1>a, <1>b, <1>c, <1>e, FilesToWrite DEF StoreTypes, PlacesOK, SaversOK,
         StagesApart, CleansUnseen,
         PublishesWhole, NamedApart, Whole, Staged, Unpublished
<1>3. SaversOK'
  <2> SUFFICES ASSUME NEW r \in Savers
               PROVE  /\ NamedApart(r)' /\ CleansUnseen(r)' /\ StagesApart(r)'
                      /\ FillsInOrder(r)' /\ PublishesWhole(r)'
    BY DEF SaversOK
  <2>1. NamedApart(r)'
    BY <1>0, <1>a, <1>b, <1>c, <1>e DEF StoreTypes, SaversOK, NamedApart, Labels,
           Unpublished, Staged
  <2>2. CleansUnseen(r)'
    BY <1>0, <1>a, <1>b, <1>c, <1>e DEF StoreTypes, SaversOK, CleansUnseen, PlacesOK,
           StagesApart, Labels, Staged
  <2>3. StagesApart(r)'
    BY <1>0, <1>a, <1>b, <1>c, <1>e, SizesAssumption
       DEF StoreTypes, SaversOK, StagesApart, PlacesOK, Labels, Staged
  <2>4. FillsInOrder(r)'
    BY <1>0, <1>a, <1>b, <1>c, <1>e, FilesToWrite DEF StoreTypes, SaversOK, FillsInOrder,
           StagesApart, Labels, Staged
  <2>5. PublishesWhole(r)'
    BY <1>0, <1>a, <1>b, <1>c, <1>e, FilesToWrite DEF StoreTypes, SaversOK, PublishesWhole,
           NamedApart, StagesApart,
           FillsInOrder, Whole, Labels, Staged, Unpublished
  <2> QED
    BY <2>1, <2>2, <2>3, <2>4, <2>5
<1>4. PromisesOK'
  BY <1>0, <1>a, <1>b, <1>c, <1>e DEF StoreTypes, PromisesOK, PlacesOK, SaversOK, NamedApart,
         PublishesWhole, StagesApart, Unpublished, Staged
<1>5. ReaderOK'
  BY <1>0, <1>a, <1>b, <1>c, <1>e DEF StoreTypes, ReaderOK, Idle, PlacesOK, SaversOK,
         NamedApart, Unpublished
<1> QED
  BY <1>1, <1>2, <1>3, <1>4, <1>5

\* Directories age, those of live saves below the limit.
LEMMA TickKeeps ==
    ASSUME StoreInv, Tick
    PROVE  StoreInv'
<1> USE DEF StoreInv, Tick
<1>1. StoreTypes'
  <2>1. age' \in [Objects -> Nat]
    BY DEF StoreTypes
  <2>2. UNCHANGED <<file, listed, entries, placeVars, pc, saverVars, promised>>
    OBVIOUS
  <2> QED
    BY <2>1, <2>2 DEF StoreTypes, placeVars, saverVars
<1>2. PlacesOK'
  BY FilesToWrite DEF StoreTypes, PlacesOK, SaversOK, StagesApart, CleansUnseen,
         PublishesWhole, NamedApart, Whole, Staged, Unpublished
<1>3. SaversOK'
  <2> SUFFICES ASSUME NEW r \in Savers
               PROVE  /\ NamedApart(r)' /\ CleansUnseen(r)' /\ StagesApart(r)'
                      /\ FillsInOrder(r)' /\ PublishesWhole(r)'
    BY DEF SaversOK
  <2>1. NamedApart(r)'
    BY DEF StoreTypes, SaversOK, NamedApart, Labels, Unpublished, Staged
  <2>2. CleansUnseen(r)'
    BY DEF StoreTypes, SaversOK, CleansUnseen, PlacesOK, StagesApart, Labels, Staged
  <2>3. StagesApart(r)'
    BY SizesAssumption DEF StoreTypes, SaversOK, StagesApart, PlacesOK, Labels, Staged
  <2>4. FillsInOrder(r)'
    BY FilesToWrite DEF StoreTypes, SaversOK, FillsInOrder, StagesApart, Labels, Staged
  <2>5. PublishesWhole(r)'
    BY FilesToWrite DEF StoreTypes, SaversOK, PublishesWhole, NamedApart, StagesApart,
           FillsInOrder, Whole, Labels, Staged, Unpublished
  <2> QED
    BY <2>1, <2>2, <2>3, <2>4, <2>5
<1>4. PromisesOK'
  BY DEF StoreTypes, PromisesOK, PlacesOK, SaversOK, NamedApart, PublishesWhole, StagesApart,
         Unpublished, Staged
<1>5. ReaderOK'
  BY DEF StoreTypes, ReaderOK, PlacesOK, SaversOK, NamedApart, Unpublished
<1> QED
  BY <1>1, <1>2, <1>3, <1>4, <1>5

\* The reader remembers which directory it checked.
LEMMA LoadChecksKeeps ==
    ASSUME StoreInv, NEW n \in Names, LoadChecks(n)
    PROVE  StoreInv'
<1> USE DEF StoreInv, LoadChecks, HasManifest, Idle
<1>1. StoreTypes' /\ PlacesOK' /\ SaversOK' /\ PromisesOK'
  BY DEF StoreTypes, PlacesOK, SaversOK, NamedApart, CleansUnseen, StagesApart, FillsInOrder,
         PublishesWhole, PromisesOK, Whole
<1>2. ReaderOK'
  BY DEF StoreTypes, ReaderOK, PlacesOK
<1> QED
  BY <1>1, <1>2

\* The name still stands for that directory.
LEMMA LoadMetaKeeps ==
    ASSUME StoreInv, LoadMeta
    PROVE  StoreInv'
<1> USE DEF StoreInv, LoadMeta, Idle, Missing
<1>1. StoreTypes' /\ PlacesOK' /\ SaversOK' /\ PromisesOK'
  BY DEF StoreTypes, PlacesOK, SaversOK, NamedApart, CleansUnseen, StagesApart, FillsInOrder,
         PublishesWhole, PromisesOK, Whole
<1>2. ReaderOK'
  BY DEF StoreTypes, ReaderOK, PlacesOK
<1> QED
  BY <1>1, <1>2

\* And does so for the weights.
LEMMA LoadRestKeeps ==
    ASSUME StoreInv, LoadRest
    PROVE  StoreInv'
<1> USE DEF StoreInv, LoadRest, Idle, Missing
<1>1. StoreTypes' /\ PlacesOK' /\ SaversOK' /\ PromisesOK'
  BY DEF StoreTypes, PlacesOK, SaversOK, NamedApart, CleansUnseen, StagesApart, FillsInOrder,
         PublishesWhole, PromisesOK, Whole
<1>2. ReaderOK'
  BY DEF StoreTypes, ReaderOK, PlacesOK
<1> QED
  BY <1>1, <1>2

\* The load is over.
LEMMA LoadReturnsKeeps ==
    ASSUME StoreInv, LoadReturns
    PROVE  StoreInv'
<1> USE DEF StoreInv, LoadReturns, Idle
<1>1. StoreTypes' /\ PlacesOK' /\ SaversOK' /\ PromisesOK'
  BY DEF StoreTypes, PlacesOK, SaversOK, NamedApart, CleansUnseen, StagesApart, FillsInOrder,
         PublishesWhole, PromisesOK, Whole
<1>2. ReaderOK'
  BY DEF StoreTypes, ReaderOK, PlacesOK
<1> QED
  BY <1>1, <1>2

\* Every step of savers, readers, faults and time.
LEMMA StoreNext ==
    ASSUME StoreInv, [Next]_vars
    PROVE  StoreInv'
<1>1. ASSUME NEW s \in Savers, SaveStep(s) PROVE StoreInv'
  BY <1>1, BeginKeeps, CheckKeeps, CleanBeginsKeeps, RemoveFileKeeps, RemoveDirectoryKeeps,
     MakeStagingKeeps, WriteFileKeeps, WriteManifestKeeps, SyncFilesKeeps, RemoveJunkKeeps,
     RenameKeeps, SyncParentKeeps DEF SaveStep
<1>2. ASSUME NEW s \in Savers, Raise(s) \/ Kill(s) PROVE StoreInv'
  BY <1>2, RaiseKeeps, KillKeeps
<1>3. CASE Crash \/ Tick
  BY <1>3, CrashKeeps, TickKeeps
<1>4. CASE (\E n \in Names : LoadChecks(n)) \/ LoadMeta \/ LoadRest \/ LoadReturns
  BY <1>4, LoadChecksKeeps, LoadMetaKeeps, LoadRestKeeps, LoadReturnsKeeps
<1>5. CASE UNCHANGED vars
  BY <1>5 DEF vars, StoreInv, StoreTypes, PlacesOK, SaversOK, NamedApart, CleansUnseen,
         StagesApart, FillsInOrder, PublishesWhole, PromisesOK, ReaderOK, Whole
<1> QED
  BY <1>1, <1>2, <1>3, <1>4, <1>5 DEF Next

\* The invariant contains what the runs check.
LEMMA StoreInvGives ==
    ASSUME StoreInv
    PROVE  CheckpointsAreWhole
<1> USE DEF StoreInv
<1>1. ASSUME NEW n \in Names, HasManifest(at[n]) PROVE at[n] > Junk
  BY <1>1 DEF HasManifest, PlacesOK, StoreTypes
<1>2. VisibleIsWhole
  BY <1>1 DEF VisibleIsWhole, PlacesOK, Whole
<1>3. PublishedStays
  BY FilesToWrite DEF PublishedStays, PromisesOK, PlacesOK, HasManifest, Whole, StoreTypes
<1>4. LoadsAreWhole
  BY DEF LoadsAreWhole, ReaderOK
<1> QED
  BY <1>2, <1>3, <1>4 DEF CheckpointsAreWhole

-----------------------------------------------------------------------------

\* Checkpoint.save and load, for any number of savers and names, any extra files and any
\* bounds: a name that can be seen holds every file its save wrote, whole; a name some
\* save() returned True for stays; and a load whose manifest was checked reads one directory.
THEOREM CheckpointsStayWhole ==
    Spec => []CheckpointsAreWhole
<1>1. Init => StoreInv
  BY StoreInit
<1>2. StoreInv /\ [Next]_vars => StoreInv'
  BY StoreNext
<1>3. StoreInv => CheckpointsAreWhole
  BY StoreInvGives
<1> QED
  BY <1>1, <1>2, <1>3, PTL DEF Spec

\* Nothing that a crash of the machine could tear or lose is ever under a published name: the
\* order of writes, syncs and rename in Checkpoint.save.
THEOREM PublishedIsSynced ==
    Spec => [](Unsynced = {})
<1>1. Init => StoreInv
  BY StoreInit
<1>2. StoreInv /\ [Next]_vars => StoreInv'
  BY StoreNext
<1>3. StoreInv => Unsynced = {}
  BY NothingUnsynced DEF StoreInv
<1> QED
  BY <1>1, <1>2, <1>3, PTL DEF Spec
=============================================================================
