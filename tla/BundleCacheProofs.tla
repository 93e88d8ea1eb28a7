-------------------------- MODULE BundleCacheProofs --------------------------
(***************************************************************************)
(* For any number of kohagi processes on one cache, any bundle and any     *)
(* number of crashes: no process loads a bundle that is older than what it *)
(* hashed when it started, and what compile_cached is about to rename is   *)
(* whole. The argument is about names alone: what is in a directory was    *)
(* made from the state its name stands for, or from a later one, and a     *)
(* directory that carries a process's id is touched by that process only.  *)
(*                                                                         *)
(* And a process that has the cache to itself leaves one entry in it, and  *)
(* loads its model, whatever the ones before it left behind. The second    *)
(* needs that converters take turns: bundle_cache_hit shows why.           *)
(***************************************************************************)
EXTENDS BundleCache, TLAPS

Bundles == [ver : 0..MaxVersions, files : SUBSET Files]

Types ==
    /\ kind \in {"compile", "convert"}
    /\ source \in Versions
    /\ dirs \in [Names -> Bundles]
    /\ pc \in [Procs -> Running \union Over]
    /\ key \in [Procs -> Versions]
    /\ at \in [Procs -> Names]
    /\ todo \in [Procs -> SUBSET Files]
    /\ victims \in [Procs -> SUBSET Names]

\* The names, apart from the process that is at work.
PartialOf(v, p) == <<"partial", v, p>>
TempOf(p) == <<"temp", 0, p>>
Entries == {EntryOf(v) : v \in Versions}

\* A directory was made from the state v its name stands for, or a later one.
NoOlderThan(d, v) == dirs[d].ver = 0 \/ (v =< dirs[d].ver /\ dirs[d].ver =< source)

NamesAreKept ==
    \A v \in Versions : /\ NoOlderThan(EntryOf(v), v)
                        /\ \A p \in Procs : NoOlderThan(PartialOf(v, p), v)

\* What each stage of a process knows of its own directories.
KnowsItsDirs(p) ==
    /\ key[p] =< source
    /\ pc[p] \in {"hit", "clear", "heal"} => at[p] = EntryOf(key[p])
    /\ pc[p] \in {"load", "loaded"} => at[p] \in {EntryOf(key[p]), PartialOf(key[p], p), TempOf(p)}
    /\ pc[p] \in {"load", "loaded"} /\ at[p] = TempOf(p) => NoOlderThan(TempOf(p), key[p])
    /\ pc[p] = "move" => /\ kind = "compile" /\ at[p] = TempOf(p)
                         /\ Whole(TempOf(p)) /\ NoOlderThan(TempOf(p), key[p])
    /\ pc[p] = "write" => kind = "convert"
    /\ kind = "compile" =>
        /\ pc[p] \in {"clear", "rename"} =>
               Whole(PartialOf(key[p], p)) /\ NoOlderThan(TempOf(p), key[p])
        /\ victims[p] \subseteq Entries
        /\ pc[p] = "evict" => at[p] \in Entries

CacheInv == Types /\ NamesAreKept /\ \A p \in Procs : KnowsItsDirs(p)

-----------------------------------------------------------------------------

\* A name is of one kind, of one state and, but for an entry's, of one process.
LEMMA NamesDiffer ==
    /\ \A v \in Versions : EntryOf(v) \in Names
    /\ \A v, w \in Versions : EntryOf(v) = EntryOf(w) => v = w
    /\ \A p \in Procs : TempOf(p) \in Names
    /\ \A p, q \in Procs : TempOf(p) = TempOf(q) => p = q
    /\ \A v \in Versions, p \in Procs : PartialOf(v, p) \in Names
    /\ \A v, w \in Versions, p, q \in Procs : PartialOf(v, p) = PartialOf(w, q) => v = w /\ p = q
    /\ \A v, w \in Versions, p \in Procs : EntryOf(v) # PartialOf(w, p)
    /\ \A v \in Versions, p \in Procs : EntryOf(v) # TempOf(p)
    /\ \A v \in Versions, p, q \in Procs : PartialOf(v, p) # TempOf(q)
    /\ \A d \in Names : \/ \E v \in Versions : d = EntryOf(v)
                        \/ \E v \in Versions, p \in Procs : d = PartialOf(v, p)
                        \/ \E p \in Procs : d = TempOf(p)
BY DEF EntryOf, PartialOf, TempOf, Names

\* Nothing is in the cache, or in a process's hands, when it is first used.
LEMMA CacheInit == Init => CacheInv
<1> SUFFICES ASSUME Init PROVE CacheInv
  OBVIOUS
<1>0. 1 \in Versions
  BY BoundsAreNat DEF Versions
<1>1. Absent \in Bundles
  BY BoundsAreNat DEF Absent, Bundles
<1>2. EntryOf(1) \in Names
  BY <1>0, NamesDiffer
<1>3. Types
  BY <1>0, <1>1, <1>2, KindsAreTheTwo DEF Init, Types, Running, Over
<1>4. NamesAreKept
  <2>1. \A d \in Names : dirs[d].ver = 0
    BY DEF Init, Absent
  <2> QED
    BY <2>1, NamesDiffer DEF NamesAreKept, NoOlderThan
<1>5. \A p \in Procs : KnowsItsDirs(p)
  BY DEF Init, KnowsItsDirs
<1> QED
  BY <1>3, <1>4, <1>5 DEF CacheInv

\* What a step puts under a name, or into a process's hands, is of its type.
LEMMA TypesOfParts ==
    ASSUME Types
    PROVE  /\ Absent \in Bundles
           /\ [ver |-> source, files |-> {}] \in Bundles
           /\ [ver |-> source, files |-> Files] \in Bundles
           /\ \A d \in Names : dirs[d] \in Bundles /\ dirs[d].files \subseteq Files
           /\ \A p \in Procs : /\ Entry(p) \in Names /\ Entry(p) = EntryOf(key[p])
                               /\ Staged(p) \in Names /\ Staged(p) = PartialOf(key[p], p)
                               /\ Temp(p) \in Names /\ Temp(p) = TempOf(p)
<1> USE DEF Types
<1>1. source \in 0..MaxVersions /\ 0 \in 0..MaxVersions
  BY BoundsAreNat DEF Versions
<1>2. /\ Absent \in Bundles
      /\ [ver |-> source, files |-> {}] \in Bundles
      /\ [ver |-> source, files |-> Files] \in Bundles
  BY <1>1 DEF Absent, Bundles
<1>3. \A d \in Names : dirs[d] \in Bundles /\ dirs[d].files \subseteq Files
  BY DEF Bundles
<1>5. ASSUME NEW p \in Procs
      PROVE  /\ Entry(p) \in Names /\ Entry(p) = EntryOf(key[p])
             /\ Staged(p) \in Names /\ Staged(p) = PartialOf(key[p], p)
             /\ Temp(p) \in Names /\ Temp(p) = TempOf(p)
  BY NamesDiffer DEF Entry, Staged, Temp, PartialOf, TempOf
<1> QED
  BY <1>2, <1>3, <1>5

\* A file written or unlinked changes no bundle's version, nor any other bundle.
LEMMA FilesChange ==
    ASSUME Types, NEW d \in Names, NEW files \in SUBSET Files,
           dirs' = [dirs EXCEPT ![d].files = files]
    PROVE  /\ dirs' \in [Names -> Bundles]
           /\ \A e \in Names : dirs'[e].ver = dirs[e].ver
           /\ \A e \in Names \ {d} : dirs'[e] = dirs[e]
<1>1. dirs \in [Names -> Bundles]
  BY DEF Types
<1>2. dirs' = [dirs EXCEPT ![d] = [dirs[d] EXCEPT !.files = files]]
  OBVIOUS
<1>3. [dirs[d] EXCEPT !.files = files] \in Bundles
  BY <1>1 DEF Bundles
<1>4. [dirs[d] EXCEPT !.files = files].ver = dirs[d].ver
  BY <1>1 DEF Bundles
<1>5. dirs' \in [Names -> Bundles]
  BY <1>1, <1>2, <1>3
<1>6. dirs'[d] = [dirs[d] EXCEPT !.files = files]
  BY <1>1, <1>2
<1>7. \A e \in Names \ {d} : dirs'[e] = dirs[e]
  BY <1>1, <1>2
<1> QED
  BY <1>4, <1>5, <1>6, <1>7

\* A revision is of the state it stands for or an earlier one, and of a later
\* state no earlier one.
LEMMA RevisionsAreVersions ==
    ASSUME NEW v \in Versions
    PROVE  Revision(v) \in Versions /\ Revision(v) =< v
BY WeightsAreKept DEF Revision, Versions

LEMMA RevisionsGrow ==
    ASSUME NEW v \in Versions, NEW w \in Versions, v =< w
    PROVE  Revision(v) =< Revision(w)
<1>1. CASE kind = "convert"
  <2>1. Revision(v) = WeightsSince[v] /\ Revision(w) = WeightsSince[w]
    BY <1>1 DEF Revision
  <2>2. WeightsSince[v] \in Nat /\ WeightsSince[w] \in Nat /\ v \in Nat /\ w \in Nat /\ WeightsSince[v] <= v
    BY WeightsAreKept, BoundsAreNat DEF Versions
  <2>3. v \in WeightsSince[w]..w => WeightsSince[v] = WeightsSince[w]
    BY WeightsAreKept DEF Versions
  <2>4. CASE WeightsSince[w] <= v
    <3>1. v \in WeightsSince[w]..w
      BY <2>2, <2>4
    <3> QED
      BY <2>1, <2>2, <2>3, <3>1
  <2>5. CASE v < WeightsSince[w]
    BY <2>1, <2>2, <2>5
  <2> QED
    BY <2>2, <2>4, <2>5
<1>2. CASE kind # "convert"
  BY <1>2 DEF Revision
<1> QED
  BY <1>1, <1>2

\* Every step of a process keeps the types.
LEMMA TypesStep ==
    ASSUME Types, [Next]_vars
    PROVE  Types'
<1> USE TypesOfParts DEF Types, Goto, Put, List
<1>3. ASSUME NEW p \in Procs, Start(p) PROVE Types'
  <2>1. key' = [key EXCEPT ![p] = Revision(source)] /\ Entry(p)' \in Names
    <3>1. key'[p] \in Versions
      BY <1>3, RevisionsAreVersions DEF Start
    <3> QED
      BY <1>3, <3>1, NamesDiffer DEF Start, Entry
  <2>2. at' = [at EXCEPT ![p] = Entry(p)'] /\ UNCHANGED <<kind, source, dirs, todo, victims>>
    BY <1>3 DEF Start, shared
  <2>3. pc' \in [Procs -> Running \union Over]
    BY <1>3 DEF Start, Running
  <2>4. Revision(source) \in Versions
    BY RevisionsAreVersions
  <2> QED
    BY <2>1, <2>2, <2>3, <2>4
<1>4. ASSUME NEW p \in Procs, MakeFails(p) PROVE Types'
  BY <1>4 DEF MakeFails, Over
<1>5. ASSUME NEW p \in Procs, CompilePackage(p) PROVE Types'
  BY <1>5 DEF CompilePackage, Running
<1>6. ASSUME NEW p \in Procs, BeginConvert(p) PROVE Types'
  BY <1>6 DEF BeginConvert, Running
<1>7. ASSUME NEW p \in Procs, WriteFile(p) PROVE Types'
  <2>1. dirs' \in [Names -> Bundles] /\ todo' \in [Procs -> SUBSET Files]
    <3>1. CASE ~Exists(Staged(p))
      BY <1>7, <3>1 DEF WriteFile
    <3>2. ASSUME NEW f \in todo[p],
                 dirs' = [dirs EXCEPT ![Staged(p)].files = @ \union {f}],
                 todo' = [todo EXCEPT ![p] = @ \ {f}]
          PROVE  dirs' \in [Names -> Bundles] /\ todo' \in [Procs -> SUBSET Files]
      <4>1. dirs[Staged(p)].files \union {f} \in SUBSET Files
        BY <3>2
      <4>2. dirs' \in [Names -> Bundles]
        BY <3>2, <4>1, FilesChange
      <4> QED
        BY <3>2, <4>2
    <3> QED
      BY <1>7, <3>1, <3>2 DEF WriteFile
  <2> QED
    BY <1>7, <2>1 DEF WriteFile, Over
<1>8. ASSUME NEW p \in Procs, MoveDir(p) PROVE Types'
  <2>1. dirs' \in [Names -> Bundles] /\ at' \in [Procs -> Names]
    BY <1>8 DEF MoveDir
  <2>2. todo' \in [Procs -> SUBSET Files] /\ pc' \in [Procs -> Running \union Over]
    BY <1>8 DEF MoveDir, Running
  <2> QED
    BY <1>8, <2>1, <2>2 DEF MoveDir
<1>9. ASSUME NEW p \in Procs, Written(p) PROVE Types'
  BY <1>9 DEF Written, shared, Running
<1>10. ASSUME NEW p \in Procs, Unlink(p) PROVE Types'
  <2>1. PICK f \in todo[p] : dirs' = [dirs EXCEPT ![at[p]].files = @ \ {f}]
                              /\ todo' = [todo EXCEPT ![p] = @ \ {f}]
    BY <1>10 DEF Unlink
  <2>2. dirs[at[p]].files \ {f} \in SUBSET Files
    OBVIOUS
  <2>3. dirs' \in [Names -> Bundles]
    BY <2>1, <2>2, FilesChange
  <2> QED
    BY <1>10, <2>1, <2>3 DEF Unlink
<1>11. ASSUME NEW p \in Procs, Rmdir(p) PROVE Types'
  <2>1. dirs' \in [Names -> Bundles]
    BY <1>11 DEF Rmdir
  <2>2. pc' \in [Procs -> Running \union Over]
    BY <1>11 DEF Rmdir, Running
  <2> QED
    BY <1>11, <2>1, <2>2 DEF Rmdir
<1>12. ASSUME NEW p \in Procs, Rename(p) PROVE Types'
  <2>1. Superseded(p) \subseteq Names
    BY DEF Superseded
  <2> QED
    BY <1>12, <2>1 DEF Rename, Running
<1>13. ASSUME NEW p \in Procs, EvictSuperseded(p) PROVE Types'
  <2>1. at' \in [Procs -> Names] /\ pc' \in [Procs -> Running \union Over]
    BY <1>13 DEF EvictSuperseded, Running
  <2>2. todo' \in [Procs -> SUBSET Files] /\ victims' \in [Procs -> SUBSET Names]
    BY <1>13 DEF EvictSuperseded
  <2> QED
    BY <1>13, <2>1, <2>2 DEF EvictSuperseded, shared
<1>14. ASSUME NEW p \in Procs, Load(p) PROVE Types'
  <2>1. todo' \in [Procs -> SUBSET Files] /\ pc' \in [Procs -> Running \union Over]
    BY <1>14 DEF Load, LoadHit, LoadMade, Running, Over
  <2> QED
    BY <1>14, <2>1 DEF Load, shared
<1>15. ASSUME NEW p \in Procs, Crash(p) PROVE Types'
  BY <1>15 DEF Crash, shared, Over
<1>16. CASE Replace
  BY <1>16, BoundsAreNat DEF Replace, local, Versions
<1>17. CASE UNCHANGED vars
  BY <1>17 DEF vars, shared, local
<1> QED
  BY <1>3, <1>4, <1>5, <1>6, <1>7, <1>8, <1>9, <1>10, <1>11, <1>12, <1>13, <1>14, <1>15, <1>16, <1>17
     DEF Next, Publish

\* The steps that write to the cache.
Writes(p) == MakeFails(p) \/ CompilePackage(p) \/ BeginConvert(p) \/ WriteFile(p) \/ Publish(p)

\* What a step of p may put under a name: nothing, what was there, what p has
\* just made, or what p moved there.
LEMMA WhatAStepWrites ==
    ASSUME CacheInv, NEW p \in Procs, NEW d \in Names,
           Writes(p)
    PROVE  \/ dirs'[d].ver \in {0, dirs[d].ver}
           \/ d = Temp(p) /\ dirs'[d].ver = source
           \/ d = Staged(p) /\ dirs'[d].ver = source
           \/ d = Staged(p) /\ pc[p] = "move" /\ dirs'[d].ver = dirs[Temp(p)].ver
           \/ d = Entry(p) /\ dirs'[d].ver = dirs[Staged(p)].ver
<1> USE TypesOfParts, NamesDiffer DEF CacheInv, Put
<1> DEFINE Goal == \/ dirs'[d].ver \in {0, dirs[d].ver}
                   \/ d = Temp(p) /\ dirs'[d].ver = source
                   \/ d = Staged(p) /\ dirs'[d].ver = source
                   \/ d = Staged(p) /\ pc[p] = "move" /\ dirs'[d].ver = dirs[Temp(p)].ver
                   \/ d = Entry(p) /\ dirs'[d].ver = dirs[Staged(p)].ver
<1>0. dirs \in [Names -> Bundles] /\ Absent.ver = 0
  BY DEF Types, Absent
<1>1. CASE MakeFails(p)
  BY <1>0, <1>1 DEF MakeFails
<1>2. CASE CompilePackage(p)
  BY <1>0, <1>2 DEF CompilePackage
<1>3. CASE BeginConvert(p)
  BY <1>0, <1>3 DEF BeginConvert
<1>4. CASE WriteFile(p)
  <2>1. CASE UNCHANGED dirs
    BY <2>1
  <2>2. ASSUME NEW f \in todo[p], dirs' = [dirs EXCEPT ![Staged(p)].files = @ \union {f}]
        PROVE  Goal
    <3>1. f \in Files
      BY DEF Types
    <3>2. dirs[Staged(p)].files \union {f} \in SUBSET Files
      BY <3>1
    <3> QED
      BY <2>2, <3>2, FilesChange
  <2> QED
    BY <1>4, <2>1, <2>2 DEF WriteFile
<1>5. CASE MoveDir(p)
  BY <1>0, <1>5 DEF MoveDir
<1>6. CASE Written(p) \/ EvictSuperseded(p)
  BY <1>6 DEF Written, EvictSuperseded, shared
<1>7. CASE Unlink(p)
  <2>1. PICK f \in todo[p] : dirs' = [dirs EXCEPT ![at[p]].files = @ \ {f}]
    BY <1>7 DEF Unlink
  <2>2. at[p] \in Names
    BY DEF Types
  <2>3. dirs[at[p]].files \ {f} \in SUBSET Files
    BY <2>2
  <2> QED
    BY <2>1, <2>2, <2>3, FilesChange
<1>8. CASE Rmdir(p)
  BY <1>0, <1>8 DEF Rmdir
<1>9. CASE Rename(p)
  BY <1>0, <1>9 DEF Rename
<1> QED
  BY <1>1, <1>2, <1>3, <1>4, <1>5, <1>6, <1>7, <1>8, <1>9 DEF Writes, Publish

\* compile_cached touches no other process's temporary or staged directory.
LEMMA OthersDirsStay ==
    ASSUME CacheInv, NEW p \in Procs, NEW q \in Procs \ {p}, NEW v \in Versions,
           kind = "compile", Writes(p)
    PROVE  dirs'[TempOf(q)] = dirs[TempOf(q)] /\ dirs'[PartialOf(v, q)] = dirs[PartialOf(v, q)]
<1> DEFINE Goal == /\ dirs'[TempOf(q)] = dirs[TempOf(q)]
                   /\ dirs'[PartialOf(v, q)] = dirs[PartialOf(v, q)]
<1> USE TypesOfParts, NamesDiffer DEF CacheInv, Put
<1>0. dirs \in [Names -> Bundles] /\ key[p] \in Versions
  BY DEF Types
<1>1. /\ TempOf(q) \in Names \ ({Temp(p), Staged(p)} \union Entries)
      /\ PartialOf(v, q) \in Names \ ({Temp(p), Staged(p)} \union Entries)
  BY <1>0 DEF Entries
<1>2. Entry(p) \in Entries
  BY <1>0 DEF Entries
<1>3. CASE MakeFails(p) \/ CompilePackage(p) \/ MoveDir(p) \/ Rename(p)
  BY <1>0, <1>1, <1>2, <1>3 DEF MakeFails, CompilePackage, MoveDir, Rename
<1>4. CASE BeginConvert(p) \/ Written(p) \/ EvictSuperseded(p)
  BY <1>4 DEF BeginConvert, Written, EvictSuperseded, shared
<1>5. CASE WriteFile(p)
  <2>1. ASSUME NEW f \in todo[p], dirs' = [dirs EXCEPT ![Staged(p)].files = @ \union {f}]
        PROVE  Goal
    BY <1>0, <1>1, <2>1
  <2> QED
    BY <1>5, <2>1 DEF WriteFile
<1>6. ASSUME pc[p] \in {"clear", "evict", "heal"} PROVE at[p] \in Entries
  BY <1>2, <1>6 DEF KnowsItsDirs, Entries
<1>7. CASE Unlink(p)
  <2>1. PICK f \in todo[p] : dirs' = [dirs EXCEPT ![at[p]].files = @ \ {f}]
    BY <1>7 DEF Unlink
  <2>2. at[p] \in Entries
    BY <1>6, <1>7 DEF Unlink
  <2> QED
    BY <1>0, <1>1, <2>1, <2>2
<1>8. CASE Rmdir(p)
  BY <1>0, <1>1, <1>6, <1>8 DEF Rmdir
<1> QED
  BY <1>3, <1>4, <1>5, <1>7, <1>8 DEF Writes, Publish

\* Under a name is what was made from the state it stands for, or from a later
\* one: a bundle only ever moves under a name of the same key.
LEMMA NamesStep ==
    ASSUME CacheInv, [Next]_vars
    PROVE  NamesAreKept'
<1> USE DEF CacheInv, NamesAreKept, NoOlderThan
<1>0. ASSUME UNCHANGED <<dirs, source>> PROVE NamesAreKept'
  BY <1>0 DEF EntryOf, PartialOf
<1>1. ASSUME NEW p \in Procs, Writes(p) PROVE NamesAreKept'
  <2>1. source' = source /\ source \in Nat /\ key[p] =< source
    BY <1>1 DEF Writes, Publish, MakeFails, CompilePackage, BeginConvert, WriteFile, MoveDir,
                Written, Unlink, Rmdir, Rename, EvictSuperseded, shared, Types, Versions, KnowsItsDirs
  <2>2. key[p] \in Versions /\ key[p] \in Nat
    BY DEF Types, Versions
  <2>3. pc[p] = "move" => NoOlderThan(Temp(p), key[p])
    BY TypesOfParts DEF KnowsItsDirs
  <2>4. ASSUME NEW v \in Versions, NEW q \in Procs
        PROVE  NoOlderThan(PartialOf(v, q), v)'
    <3>1. PartialOf(v, q) # Temp(p) /\ PartialOf(v, q) # Entry(p)
      BY <2>2, TypesOfParts, NamesDiffer
    <3>2. PartialOf(v, q) = Staged(p) => v = key[p]
      BY <2>2, TypesOfParts, NamesDiffer
    <3>3. PartialOf(v, q) \in Names /\ NoOlderThan(PartialOf(v, q), v)
      BY NamesDiffer
    <3>4. PartialOf(v, q)' = PartialOf(v, q)
      BY DEF PartialOf
    <3> QED
      BY <1>1, <2>1, <2>3, <3>1, <3>2, <3>3, <3>4, WhatAStepWrites
  <2>5. ASSUME NEW v \in Versions
        PROVE  NoOlderThan(EntryOf(v), v)'
    <3>1. EntryOf(v) # Temp(p) /\ EntryOf(v) # Staged(p)
      BY <2>2, TypesOfParts, NamesDiffer
    <3>2. EntryOf(v) = Entry(p) => v = key[p]
      BY <2>2, TypesOfParts, NamesDiffer
    <3>3. EntryOf(v) \in Names /\ NoOlderThan(EntryOf(v), v) /\ NoOlderThan(Staged(p), key[p])
      BY <2>2, TypesOfParts, NamesDiffer
    <3>4. EntryOf(v)' = EntryOf(v)
      BY DEF EntryOf
    <3> QED
      BY <1>1, <2>1, <3>1, <3>2, <3>3, <3>4, WhatAStepWrites
  <2> QED
    BY <2>4, <2>5
<1>2. ASSUME NEW p \in Procs, Start(p) \/ Load(p) \/ Crash(p) PROVE NamesAreKept'
  BY <1>0, <1>2 DEF Start, Load, Crash, shared
<1>3. CASE Replace
  <2>1. dirs' = dirs /\ source' = source + 1 /\ source \in Nat
    BY <1>3 DEF Replace, Types, Versions
  <2>2. \A d \in Names : dirs[d].ver \in Nat
    BY BoundsAreNat DEF Types, Bundles
  <2>3. \A d \in Names, v \in Versions : NoOlderThan(d, v) => NoOlderThan(d, v)'
    BY <2>1, <2>2 DEF Versions
  <2> QED
    BY <2>3, NamesDiffer DEF EntryOf, PartialOf
<1>4. CASE UNCHANGED vars
  BY <1>0, <1>4 DEF vars, shared
<1> QED
  BY <1>1, <1>2, <1>3, <1>4 DEF Next, Writes

\* What a process knows of its directories stays true when another one works.
LEMMA OthersKnow ==
    ASSUME CacheInv, NEW p \in Procs, NEW q \in Procs \ {p},
           Writes(p) \/ Start(p) \/ Load(p) \/ Crash(p)
    PROVE  KnowsItsDirs(q)'
<1> USE DEF Goto
<1>0. Types /\ KnowsItsDirs(q) /\ q \in Procs /\ key[q] \in Versions
  BY DEF CacheInv, Types
<1>1. UNCHANGED <<pc[q], key[q], at[q], victims[q], kind, source>>
  <2>1. CASE Start(p) \/ Load(p) \/ Crash(p)
    BY <1>0, <2>1 DEF Types, Start, Load, LoadHit, LoadMade, Crash, List, shared
  <2>2. CASE MakeFails(p) \/ CompilePackage(p) \/ BeginConvert(p) \/ WriteFile(p)
    BY <1>0, <2>2 DEF Types, MakeFails, CompilePackage, BeginConvert, WriteFile
  <2>3. CASE MoveDir(p) \/ Written(p) \/ Unlink(p) \/ Rmdir(p)
    BY <1>0, <2>3 DEF Types, MoveDir, Written, Unlink, Rmdir, List, shared
  <2>4. CASE Rename(p) \/ EvictSuperseded(p)
    BY <1>0, <2>4 DEF Types, Rename, EvictSuperseded, List, shared
  <2> QED
    BY <2>1, <2>2, <2>3, <2>4 DEF Writes, Publish
<1>2. CASE Start(p) \/ Load(p) \/ Crash(p)
  <2>1. dirs' = dirs
    BY <1>2 DEF Start, Load, Crash, shared
  <2> QED
    BY <1>0, <1>1, <2>1 DEF KnowsItsDirs, NoOlderThan, Whole, Exists, EntryOf, PartialOf, TempOf, Entries, Versions
<1>3. CASE Writes(p)
  <2>1. /\ TempOf(q)' = TempOf(q) /\ PartialOf(key[q], q)' = PartialOf(key'[q], q)
        /\ EntryOf(key[q])' = EntryOf(key'[q]) /\ Entries' = Entries
    BY DEF TempOf, PartialOf, EntryOf, Entries, Versions
  <2>2. NoOlderThan(TempOf(q), key[q]) => NoOlderThan(TempOf(q), key[q])'
    <3>1. /\ TempOf(q) \in Names /\ TempOf(q) # Temp(p)
          /\ TempOf(q) # Staged(p) /\ TempOf(q) # Entry(p)
      BY <1>0, NamesDiffer, TypesOfParts DEF Types
    <3>2. dirs'[TempOf(q)].ver \in {0, dirs[TempOf(q)].ver}
      BY <1>3, <3>1, WhatAStepWrites
    <3> QED
      BY <1>1, <2>1, <3>2 DEF NoOlderThan
  <2>3. kind = "compile" =>
            /\ Whole(TempOf(q)) => Whole(TempOf(q))'
            /\ Whole(PartialOf(key[q], q)) => Whole(PartialOf(key[q], q))'
    BY <1>0, <1>1, <1>3, <2>1, OthersDirsStay DEF Whole, Exists
  <2> QED
    BY <1>0, <1>1, <2>1, <2>2, <2>3 DEF KnowsItsDirs
<1> QED
  BY <1>2, <1>3

\* A process's own step, from any stage, leaves it knowing its directories.
LEMMA OwnStep ==
    ASSUME CacheInv, NEW p \in Procs,
           Writes(p) \/ Start(p) \/ Load(p) \/ Crash(p)
    PROVE  KnowsItsDirs(p)'
<1> USE DEF Goto, Put, List, NoOlderThan, Whole, Exists
<1>0. Types /\ KnowsItsDirs(p) /\ key[p] \in Versions /\ source \in Nat /\ key[p] \in Nat
  BY DEF CacheInv, Types, Versions
<1>1. /\ TempOf(p)' = TempOf(p) /\ PartialOf(key[p], p)' = PartialOf(key'[p], p)
      /\ EntryOf(key[p])' = EntryOf(key'[p]) /\ Entries' = Entries
  BY DEF TempOf, PartialOf, EntryOf, Entries, Versions
<1>2. /\ Entry(p) = EntryOf(key[p]) /\ Staged(p) = PartialOf(key[p], p) /\ Temp(p) = TempOf(p)
      /\ Entry(p) # Staged(p) /\ Entry(p) # Temp(p) /\ Staged(p) # Temp(p)
      /\ {Entry(p), Staged(p), Temp(p)} \subseteq Names
  BY <1>0, TypesOfParts, NamesDiffer
<1>3. Entry(p) \in Entries
  BY <1>0, <1>2 DEF Entries
<1>4. dirs \in [Names -> Bundles] /\ Absent.ver = 0
  BY <1>0 DEF Types, Absent
<1> USE <1>0, <1>1, <1>2, <1>3, <1>4
<1>5. CASE Start(p)
  <2>1. key'[p] =< source' /\ source' = source /\ kind' = kind /\ victims' = victims
    BY <1>5, RevisionsAreVersions DEF Start, shared, Types
  <2>2. pc'[p] \in {"hit", "make"} /\ at'[p] = Entry(p)' /\ Entry(p)' = EntryOf(key'[p])
    BY <1>5 DEF Start, Entry, Types
  <2> QED
    BY <2>1, <2>2 DEF KnowsItsDirs
<1>6. CASE MakeFails(p)
  BY <1>6 DEF MakeFails, KnowsItsDirs, Types
<1>7. CASE CompilePackage(p)
  <2>1. dirs'[TempOf(p)] = [ver |-> source, files |-> Files] /\ source # 0
    BY <1>7 DEF CompilePackage, Types, Versions
  <2>2. pc'[p] \in {"move", "load"} /\ at'[p] = Temp(p)
        /\ UNCHANGED <<kind, source, key, victims>> /\ kind = "compile"
    BY <1>7 DEF CompilePackage, Types
  <2> QED
    BY <2>1, <2>2 DEF KnowsItsDirs
<1>8. CASE BeginConvert(p)
  BY <1>8 DEF BeginConvert, KnowsItsDirs, Types
<1>9. CASE WriteFile(p)
  <2>1. pc'[p] \in {"write", "failed"} /\ UNCHANGED <<kind, source, key, victims>>
        /\ kind = "convert"
    BY <1>9 DEF WriteFile, Types, KnowsItsDirs
  <2> QED
    BY <2>1 DEF KnowsItsDirs
<1>10. CASE MoveDir(p)
  <2>1. UNCHANGED <<kind, source, key, victims>>
    BY <1>10 DEF MoveDir
  <2>2. CASE pc'[p] = "clear" /\ at'[p] = Entry(p)
             /\ dirs' = [dirs EXCEPT ![Staged(p)] = dirs[Temp(p)], ![Temp(p)] = Absent]
    BY <1>10, <2>1, <2>2 DEF MoveDir, KnowsItsDirs
  <2>3. CASE pc'[p] = "load" /\ dirs' = [dirs EXCEPT ![Staged(p)] = Absent] /\ at' = at
    BY <1>10, <2>1, <2>3 DEF MoveDir, KnowsItsDirs
  <2> QED
    BY <1>10, <2>2, <2>3 DEF MoveDir, Types
<1>11. CASE Written(p)
  BY <1>11 DEF Written, shared, KnowsItsDirs, Types
<1>12. CASE Unlink(p)
  <2>1. UNCHANGED <<kind, source, pc, key, at, victims>> /\ pc[p] \in {"clear", "evict", "heal"}
    BY <1>12 DEF Unlink
  <2>2. PICK f \in todo[p] : dirs' = [dirs EXCEPT ![at[p]].files = @ \ {f}]
    BY <1>12 DEF Unlink
  <2>3. kind = "compile" => at[p] # Staged(p) /\ at[p] # Temp(p)
    BY <2>1, NamesDiffer DEF KnowsItsDirs, Entries
  <2>4. kind = "compile" => dirs'[Staged(p)] = dirs[Staged(p)] /\ dirs'[Temp(p)] = dirs[Temp(p)]
    BY <2>2, <2>3
  <2> QED
    BY <2>1, <2>4 DEF KnowsItsDirs
<1>13. CASE Rmdir(p)
  <2>1. UNCHANGED <<kind, source, key, at, victims>> /\ pc[p] \in {"clear", "evict", "heal"}
        /\ pc'[p] \in {"rename", "scan", "remake"} /\ (pc'[p] = "rename" => pc[p] = "clear")
    BY <1>13 DEF Rmdir, Types
  <2>2. kind = "compile" => at[p] # Staged(p) /\ at[p] # Temp(p)
    BY <2>1, NamesDiffer DEF KnowsItsDirs, Entries
  <2>3. kind = "compile" => dirs'[Staged(p)] = dirs[Staged(p)] /\ dirs'[Temp(p)] = dirs[Temp(p)]
    BY <1>13, <2>2 DEF Rmdir
  <2> QED
    BY <2>1, <2>3 DEF KnowsItsDirs
<1>14. CASE Rename(p)
  <2>1. UNCHANGED <<kind, source, key>> /\ pc[p] = "rename"
    BY <1>14 DEF Rename
  <2>2. kind = "compile" => Superseded(p) \subseteq Entries
    BY DEF Superseded, Names, Entries
  <2>3. CASE pc'[p] = "scan" /\ victims' = [victims EXCEPT ![p] = Superseded(p)]
    BY <2>1, <2>2, <2>3 DEF KnowsItsDirs, Types
  <2>4. CASE /\ pc'[p] = "load" /\ victims' = victims
             /\ dirs' = IF kind = "compile" THEN [dirs EXCEPT ![Staged(p)] = Absent] ELSE dirs
             /\ at'[p] = IF kind = "compile" THEN Temp(p) ELSE Staged(p)
    BY <2>1, <2>4 DEF KnowsItsDirs, Types
  <2> QED
    BY <1>14, <2>3, <2>4 DEF Rename, Types
<1>15. CASE EvictSuperseded(p)
  <2>1. UNCHANGED <<kind, source, key, dirs>>
    BY <1>15 DEF EvictSuperseded, shared
  <2>2. CASE pc'[p] = "load" /\ at'[p] = Entry(p) /\ victims' = victims
    BY <2>1, <2>2 DEF KnowsItsDirs
  <2>3. ASSUME NEW d \in victims[p], at' = [at EXCEPT ![p] = d], pc'[p] = "evict",
               victims' = [victims EXCEPT ![p] = @ \ {d}]
        PROVE  KnowsItsDirs(p)'
    BY <2>1, <2>3 DEF KnowsItsDirs, Types
  <2> QED
    BY <1>15, <2>2, <2>3 DEF EvictSuperseded, Types
<1>16. CASE Load(p)
  <2>1. UNCHANGED <<kind, source, key, dirs, at, victims>>
    BY <1>16 DEF Load, shared
  <2>2. pc[p] \in {"hit", "load"} /\ pc'[p] \in {"heal", "loaded", "failed"}
        /\ (pc'[p] = "heal" => pc[p] = "hit")
    BY <1>16 DEF Load, LoadHit, LoadMade, Types
  <2> QED
    BY <2>1, <2>2 DEF KnowsItsDirs
<1>17. CASE Crash(p)
  BY <1>17 DEF Crash, shared, KnowsItsDirs, Types
<1> QED
  BY <1>5, <1>6, <1>7, <1>8, <1>9, <1>10, <1>11, <1>12, <1>13, <1>14, <1>15, <1>16, <1>17
     DEF Writes, Publish

\* Every step of every process, and of whoever replaces the source, keeps the
\* invariant.
LEMMA CacheStep == CacheInv /\ [Next]_vars => CacheInv'
<1> SUFFICES ASSUME CacheInv, [Next]_vars PROVE CacheInv'
  OBVIOUS
<1>1. Types'
  BY TypesStep DEF CacheInv
<1>2. NamesAreKept'
  BY NamesStep
<1>3. ASSUME NEW q \in Procs PROVE KnowsItsDirs(q)'
  <2>1. ASSUME NEW p \in Procs, Writes(p) \/ Start(p) \/ Load(p) \/ Crash(p)
        PROVE  KnowsItsDirs(q)'
    BY <2>1, OwnStep, OthersKnow
  <2>2. CASE UNCHANGED <<kind, dirs, pc, key, at, victims>> /\ source' \in {source, source + 1}
    <3>1. KnowsItsDirs(q) /\ source \in Nat /\ key[q] \in Nat
      BY DEF CacheInv, Types, Versions
    <3>2. NoOlderThan(TempOf(q), key[q]) => NoOlderThan(TempOf(q), key[q])'
      <4>1. dirs[TempOf(q)].ver \in Nat
        BY NamesDiffer, BoundsAreNat DEF CacheInv, Types, Bundles
      <4> QED
        BY <2>2, <3>1, <4>1 DEF NoOlderThan, TempOf
    <3> QED
      BY <2>2, <3>1, <3>2
         DEF KnowsItsDirs, Whole, Exists, EntryOf, PartialOf, TempOf, Entries, Versions
  <2>3. CASE Replace \/ UNCHANGED vars
    BY <2>2, <2>3 DEF Replace, vars, shared, local
  <2> QED
    BY <2>1, <2>3 DEF Next, Writes
<1> QED
  BY <1>1, <1>2, <1>3 DEF CacheInv

\* Whichever of its states a checkpoint shares weights between: no process loads
\* a bundle older than the revision it looked up (revision, contents), and what
\* compile_cached renames into the cache is whole, however many processes share
\* the cache and whenever they are killed.
THEOREM CacheIsNeverStale == Spec => []NeverStale
<1>1. CacheInv => NeverStale
  <2> SUFFICES ASSUME CacheInv, NEW p \in Procs
               PROVE  /\ pc[p] = "loaded" => dirs[at[p]].ver \in {0} \union key[p]..source
                      /\ kind = "compile" /\ pc[p] \in {"clear", "rename"} => Whole(Staged(p))
    BY DEF NeverStale
  <2>0. KnowsItsDirs(p) /\ key[p] \in Versions /\ at[p] \in Names
        /\ Staged(p) = PartialOf(key[p], p)
    BY TypesOfParts DEF CacheInv, Types
  <2>1. \A d \in Names : dirs[d].ver \in Nat /\ source \in Nat /\ key[p] \in Nat
    BY BoundsAreNat DEF CacheInv, Types, Bundles, Versions
  <2>2. pc[p] = "loaded" => NoOlderThan(at[p], key[p])
    BY <2>0 DEF CacheInv, KnowsItsDirs, NamesAreKept
  <2> QED
    BY <2>0, <2>1, <2>2 DEF KnowsItsDirs, NoOlderThan
<1> QED
  BY CacheInit, CacheStep, <1>1, PTL DEF Spec

-----------------------------------------------------------------------------
(* A process that has the cache to itself. Whoever runs undisturbed is the *)
(* only one that runs, so each of its steps finds what the last one left.  *)
(* A converted entry is torn only by the eviction of a later one, and      *)
(* nobody looks for it then.                                               *)

AbsentIsEmpty == \A d \in Names : ~Exists(d) => dirs[d].files = {}

AtWork(p) == pc[p] \in Running /\ ~disturbed[p]

UndisturbedIsAlone == \A p \in Procs : AtWork(p) => Others(p) = {}

\* What a process that is alone has achieved at each stage.
HasItsWay(p) ==
    AtWork(p) =>
        /\ pc[p] = "write" => /\ Exists(PartialOf(key[p], p))
                              /\ dirs[PartialOf(key[p], p)].files \union todo[p] = Files
        /\ pc[p] \in {"clear", "rename"} => Whole(PartialOf(key[p], p))
        /\ pc[p] \in {"clear", "evict", "heal"} => dirs[at[p]].files \subseteq todo[p]
        /\ pc[p] = "rename" => dirs[EntryOf(key[p])].files = {}
        /\ pc[p] \in {"scan", "evict"} =>
               /\ Whole(EntryOf(key[p])) /\ EntryOf(key[p]) \notin victims[p]
               /\ \A v \in Versions \ {key[p]} :
                     Exists(EntryOf(v)) => EntryOf(v) \in victims[p] \/ (pc[p] = "evict" /\ at[p] = EntryOf(v))
        /\ pc[p] = "evict" => at[p] # EntryOf(key[p])
        /\ pc[p] = "load" => Whole(at[p])
        /\ pc[p] = "load" /\ at[p] = EntryOf(key[p]) =>
               \A v \in Versions \ {key[p]} : ~Exists(EntryOf(v))

LoneInv ==
    /\ CacheInv
    /\ disturbed \in [Procs -> BOOLEAN]
    /\ AbsentIsEmpty /\ UndisturbedIsAlone
    /\ \A p \in Procs : HasItsWay(p)

-----------------------------------------------------------------------------
(* What holds besides while converters take turns.                         *)

TakingTurns == "convert" \notin Concurrent

\* Nobody is disturbed; an entry is as whole as when it was published unless a
\* later one supersedes it.
EntriesStand ==
    /\ \A p \in Procs : ~disturbed[p] /\ (pc[p] \notin {"scan", "evict"} => victims[p] = {})
    /\ \A p \in Procs : key[p] =< Revision(source)
    /\ \A v \in Versions : Exists(EntryOf(v)) =>
           v =< Revision(source) /\ (Whole(EntryOf(v)) \/ v < Revision(source))

\* And what a process that runs knows of the entries.
Supersedes(p) ==
    pc[p] \in Running =>
        /\ pc[p] \notin {"move", "heal", "remake"}
        /\ \A v \in Versions : Exists(EntryOf(v)) => v =< key[p]
        /\ pc[p] \in {"make", "write", "clear", "rename"} => ~Exists(EntryOf(key[p]))
        /\ pc[p] = "clear" => todo[p] = {}
        /\ pc[p] = "hit" => Whole(EntryOf(key[p]))
        /\ \A v \in Versions : v >= key[p] =>
               EntryOf(v) \notin victims[p] /\ (pc[p] = "evict" => at[p] # EntryOf(v))

TurnsInv == kind = "convert" => EntriesStand /\ \A p \in Procs : Supersedes(p)

-----------------------------------------------------------------------------

\* Nobody works on an empty cache.
LEMMA LoneInit == Init => LoneInv /\ TurnsInv
<1> SUFFICES ASSUME Init PROVE LoneInv /\ TurnsInv
  OBVIOUS
<1>1. \A d \in Names : ~Exists(d) /\ dirs[d].files = {}
  BY DEF Init, Absent, Exists
<1>2. \A p \in Procs : pc[p] \notin Running /\ ~disturbed[p]
  BY DEF Init, Running
<1>3. \A v \in Versions : ~Exists(EntryOf(v))
  BY <1>1, NamesDiffer
<1>4. LoneInv
  BY <1>1, <1>2, CacheInit DEF Init, LoneInv, AbsentIsEmpty, UndisturbedIsAlone, HasItsWay, AtWork
<1>5. TurnsInv
  <2>1. \A p \in Procs : victims[p] = {}
    BY DEF Init
  <2>2. \A p \in Procs : key[p] =< Revision(source)
    <3>1. source = 1 /\ 1 \in Versions /\ \A p \in Procs : key[p] = 1
      BY BoundsAreNat DEF Init, Versions
    <3>2. Revision(1) \in Versions
      BY <3>1, RevisionsAreVersions
    <3> QED
      BY <3>1, <3>2 DEF Versions
  <2> QED
    BY <1>2, <1>3, <2>1, <2>2 DEF TurnsInv, EntriesStand, Supersedes
<1> QED
  BY <1>4, <1>5

\* No step leaves a file where there is no directory.
LEMMA AbsentStep ==
    ASSUME CacheInv, AbsentIsEmpty, [Next]_vars
    PROVE  AbsentIsEmpty'
<1> USE TypesOfParts DEF CacheInv, AbsentIsEmpty, Exists, Put
<1> DEFINE Goal == \A d \in Names : ~Exists(d)' => dirs'[d].files = {}
<1>0. /\ dirs \in [Names -> Bundles] /\ Absent.ver = 0 /\ Absent.files = {} /\ source # 0
  BY BoundsAreNat DEF Types, Absent, Versions
<1>1. ASSUME UNCHANGED dirs PROVE Goal
  BY <1>0, <1>1
<1>2. ASSUME NEW p \in Procs, MakeFails(p) \/ CompilePackage(p) \/ BeginConvert(p) PROVE Goal
  BY <1>0, <1>2 DEF MakeFails, CompilePackage, BeginConvert
<1>3. ASSUME NEW p \in Procs, WriteFile(p) PROVE Goal
  <2>1. ASSUME NEW f \in todo[p], dirs' = [dirs EXCEPT ![Staged(p)].files = @ \union {f}], Exists(Staged(p))
        PROVE  Goal
    <3>1. dirs[Staged(p)].files \union {f} \in SUBSET Files
      BY DEF Types
    <3> QED
      BY <1>0, <2>1, <3>1, FilesChange
  <2> QED
    BY <1>1, <1>3, <2>1 DEF WriteFile
<1>4. ASSUME NEW p \in Procs, MoveDir(p) \/ Rename(p) PROVE Goal
  BY <1>0, <1>4 DEF MoveDir, Rename
<1>5. ASSUME NEW p \in Procs, Unlink(p) PROVE Goal
  <2>1. PICK f \in todo[p] : dirs' = [dirs EXCEPT ![at[p]].files = @ \ {f}]
    BY <1>5 DEF Unlink
  <2>2. at[p] \in Names
    BY DEF Types
  <2>3. dirs[at[p]].files \ {f} \in SUBSET Files
    BY <2>2
  <2>4. dirs'[at[p]].files = dirs[at[p]].files \ {f}
    BY <1>0, <2>1, <2>2 DEF Bundles
  <2> QED
    BY <1>0, <2>1, <2>2, <2>3, <2>4, FilesChange
<1>6. ASSUME NEW p \in Procs, Rmdir(p) PROVE Goal
  BY <1>0, <1>6 DEF Rmdir
<1>7. ASSUME NEW p \in Procs, Start(p) \/ Written(p) \/ EvictSuperseded(p) \/ Load(p) \/ Crash(p)
      PROVE  Goal
  BY <1>1, <1>7 DEF Start, Written, EvictSuperseded, Load, Crash, shared
<1>8. CASE Replace \/ UNCHANGED vars
  BY <1>1, <1>8 DEF Replace, vars, shared
<1> QED
  <2>1. Goal
    BY <1>2, <1>3, <1>4, <1>5, <1>6, <1>7, <1>8 DEF Next, Publish
  <2> QED
    BY <2>1 DEF Names, EntryOf, Versions

\* Only a start puts a process to work, and every other step is of one that is.
LEMMA WhoWorks ==
    ASSUME Types, disturbed \in [Procs -> BOOLEAN], NEW p \in Procs,
           Writes(p) \/ Load(p) \/ Crash(p)
    PROVE  /\ pc[p] \in Running /\ disturbed' = disturbed
           /\ \A q \in Procs \ {p} : pc'[q] = pc[q]
<1>1. pc[p] \in Running
  BY DEF Writes, Publish, MakeFails, CompilePackage, BeginConvert, WriteFile, MoveDir, Written, Unlink,
         Rmdir, Rename, EvictSuperseded, Load, LoadHit, LoadMade, Crash, Running
<1>2. disturbed' = disturbed
  BY DEF Writes, Publish, MakeFails, CompilePackage, BeginConvert, WriteFile, MoveDir, Written, Unlink,
         Rmdir, Rename, EvictSuperseded, Load, Crash
<1>3. \A q \in Procs \ {p} : pc'[q] = pc[q]
  BY DEF Types, Goto, Writes, Publish, MakeFails, CompilePackage, BeginConvert, WriteFile, MoveDir, Written,
         Unlink, Rmdir, Rename, EvictSuperseded, Load, LoadHit, LoadMade, Crash
<1> QED
  BY <1>1, <1>2, <1>3

\* Whoever starts while others run disturbs them and is disturbed.
LEMMA AloneStep ==
    ASSUME Types, disturbed \in [Procs -> BOOLEAN], UndisturbedIsAlone, [Next]_vars
    PROVE  disturbed' \in [Procs -> BOOLEAN] /\ UndisturbedIsAlone'
<1> DEFINE Goal == disturbed' \in [Procs -> BOOLEAN] /\ UndisturbedIsAlone'
<1> USE DEF UndisturbedIsAlone, AtWork, Others
<1>1. ASSUME NEW p \in Procs, Writes(p) \/ Load(p) \/ Crash(p) PROVE Goal
  <2>1. /\ pc[p] \in Running /\ disturbed' = disturbed
        /\ \A q \in Procs \ {p} : pc'[q] = pc[q]
    BY <1>1, WhoWorks
  <2>2. Running' = Running
    BY DEF Running
  <2> QED
    BY <2>1, <2>2
<1>2. ASSUME NEW p \in Procs, Start(p) PROVE Goal
  <2>1. \A q \in Procs \ {p} : pc'[q] = pc[q]
    BY <1>2 DEF Types, Start, Goto
  <2>2. disturbed' = [q \in Procs |-> IF q = p THEN Others(p) # {} ELSE disturbed[q] \/ q \in Others(p)]
    BY <1>2 DEF Start
  <2> QED
    BY <2>1, <2>2 DEF Running
<1>3. CASE UNCHANGED <<pc, disturbed>>
  BY <1>3 DEF Running
<1> QED
  BY <1>1, <1>2, <1>3 DEF Next, Writes, Replace, local, vars

-----------------------------------------------------------------------------
(* Alone, each step finds what the last one left.                          *)

LEMMA OthersWay ==
    ASSUME LoneInv, NEW p \in Procs, NEW q \in Procs \ {p},
           Writes(p) \/ Start(p) \/ Load(p) \/ Crash(p)
    PROVE  ~AtWork(q)'
<1>0. Types /\ disturbed \in [Procs -> BOOLEAN] /\ Running' = Running
  BY DEF LoneInv, CacheInv, Running
<1>1. CASE Writes(p) \/ Load(p) \/ Crash(p)
  <2>1. pc[p] \in Running /\ disturbed' = disturbed /\ pc'[q] = pc[q]
    BY <1>0, <1>1, WhoWorks
  <2> QED
    BY <1>0, <2>1 DEF LoneInv, UndisturbedIsAlone, AtWork, Others
<1>2. CASE Start(p)
  <2>1. pc'[q] = pc[q] /\ disturbed'[q] = (disturbed[q] \/ q \in Others(p))
    BY <1>0, <1>2 DEF Types, Start, Goto
  <2> QED
    BY <1>0, <2>1 DEF AtWork, Others
<1> QED
  BY <1>1, <1>2

LEMMA OwnWay ==
    ASSUME LoneInv, NEW p \in Procs,
           Writes(p) \/ Start(p) \/ Load(p) \/ Crash(p)
    PROVE  HasItsWay(p)'
<1> SUFFICES ASSUME AtWork(p)' PROVE HasItsWay(p)'
  BY DEF HasItsWay
<1> DEFINE E == EntryOf(key[p])
           S == PartialOf(key[p], p)
<1> USE DEF Goto, Put, List, Whole, Exists
<1>0. /\ Types /\ KnowsItsDirs(p) /\ HasItsWay(p) /\ AbsentIsEmpty
      /\ key[p] \in Versions /\ dirs \in [Names -> Bundles]
  BY DEF LoneInv, CacheInv, Types
<1>1. /\ PartialOf(key[p], p)' = PartialOf(key'[p], p)
      /\ EntryOf(key[p])' = EntryOf(key'[p])
      /\ Versions' = Versions
      /\ \A v \in Versions : EntryOf(v)' = EntryOf(v)
  BY DEF PartialOf, EntryOf, Versions
<1>2. /\ Entry(p) = E /\ Staged(p) = S /\ Temp(p) = TempOf(p)
      /\ E # S /\ E # TempOf(p) /\ S # TempOf(p)
      /\ E \in Names /\ S \in Names /\ TempOf(p) \in Names
  BY <1>0, TypesOfParts, NamesDiffer
<1>3. /\ \A v \in Versions : EntryOf(v) \in Names /\ EntryOf(v) # S /\ EntryOf(v) # TempOf(p)
      /\ \A v \in Versions \ {key[p]} : EntryOf(v) # E
  BY <1>0, NamesDiffer
<1>4. Absent.ver = 0 /\ Absent.files = {} /\ source # 0
  BY <1>0, BoundsAreNat DEF Types, Absent, Versions
<1> HIDE DEF E, S
<1>5. CASE Start(p)
  <2>1. pc'[p] \in {"hit", "make"}
    BY <1>0, <1>5 DEF Start, Types
  <2> QED
    BY <2>1 DEF HasItsWay
<1>6. CASE Crash(p)
  BY <1>0, <1>6 DEF Crash, AtWork, Types, Running
<1>7. CASE MakeFails(p)
  BY <1>0, <1>7 DEF MakeFails, AtWork, Types, Running
<1>8. ASSUME Writes(p) \/ Load(p) PROVE AtWork(p) /\ key' = key
  <2>1. pc[p] \in Running /\ disturbed' = disturbed /\ Running' = Running
    BY <1>0, <1>8, WhoWorks DEF LoneInv, Running
  <2>2. key' = key
    BY <1>8 DEF Writes, Publish, MakeFails, CompilePackage, BeginConvert, WriteFile, MoveDir, Written, Unlink,
                Rmdir, Rename, EvictSuperseded, Load
  <2> QED
    BY <2>1, <2>2 DEF AtWork
<1>9. CASE CompilePackage(p)
  <2>1. at'[p] = TempOf(p) /\ dirs'[TempOf(p)] = [ver |-> source, files |-> Files]
        /\ pc'[p] \in {"move", "load"}
    BY <1>0, <1>2, <1>9 DEF CompilePackage, Types
  <2>2. at'[p] # E
    BY <1>2, <2>1
  <2> QED
    BY <1>1, <1>4, <1>8, <1>9, <2>1, <2>2 DEF HasItsWay, Writes, E
<1>10. CASE BeginConvert(p)
  <2>1. pc'[p] = "write" /\ dirs'[S] = [ver |-> source, files |-> {}] /\ todo'[p] = Files /\ key' = key
    BY <1>0, <1>2, <1>10 DEF BeginConvert, Types
  <2> QED
    BY <1>1, <1>4, <2>1 DEF HasItsWay, S
<1>11. CASE WriteFile(p)
  <2>1. pc[p] = "write" /\ key' = key /\ Exists(S) /\ dirs[S].files \union todo[p] = Files
    BY <1>0, <1>8, <1>11 DEF WriteFile, HasItsWay, Writes, S
  <2>2. PICK f \in todo[p] : /\ dirs' = [dirs EXCEPT ![S].files = @ \union {f}]
                             /\ todo' = [todo EXCEPT ![p] = @ \ {f}] /\ pc' = pc
    BY <1>2, <1>11, <2>1 DEF WriteFile
  <2>3. dirs'[S].files = dirs[S].files \union {f} /\ dirs'[S].ver = dirs[S].ver
    BY <1>0, <1>2, <2>2 DEF Bundles
  <2>4. todo'[p] = todo[p] \ {f} /\ pc'[p] = "write"
    BY <1>0, <2>1, <2>2 DEF Types
  <2> QED
    BY <1>1, <2>1, <2>2, <2>3, <2>4 DEF HasItsWay, S
<1>12. CASE MoveDir(p)
  <2>1. pc[p] = "move" /\ at[p] = TempOf(p) /\ Whole(TempOf(p)) /\ key' = key
    BY <1>0, <1>12 DEF MoveDir, KnowsItsDirs
  <2>2. CASE /\ dirs' = [dirs EXCEPT ![S] = dirs[TempOf(p)], ![TempOf(p)] = Absent]
             /\ at'[p] = E /\ todo'[p] = dirs[E].files /\ pc'[p] = "clear"
    <3>1. dirs'[S] = dirs[TempOf(p)] /\ dirs'[E] = dirs[E]
      BY <1>0, <1>2, <2>2
    <3> QED
      BY <1>1, <2>1, <2>2, <3>1 DEF HasItsWay, S
  <2>3. CASE /\ dirs' = [dirs EXCEPT ![S] = Absent] /\ at' = at /\ pc'[p] = "load"
    <3>1. dirs'[TempOf(p)] = dirs[TempOf(p)]
      BY <1>0, <1>2, <2>3
    <3>2. at'[p] # E
      BY <1>2, <2>1, <2>3
    <3> QED
      BY <1>1, <2>1, <2>3, <3>1, <3>2 DEF HasItsWay, E
  <2> QED
    BY <1>0, <1>2, <1>12, <2>2, <2>3 DEF MoveDir, Types
<1>13. CASE Written(p)
  <2>1. /\ pc[p] = "write" /\ todo[p] = {} /\ key' = key /\ dirs' = dirs
        /\ at'[p] = E /\ todo'[p] = dirs[E].files /\ pc'[p] = "clear"
    BY <1>0, <1>2, <1>13 DEF Written, shared, Types
  <2>2. Whole(S)
    BY <1>0, <1>8, <1>13, <2>1 DEF HasItsWay, Writes, Publish, S
  <2> QED
    BY <1>1, <2>1, <2>2 DEF HasItsWay, S
<1>14. CASE Load(p)
  <2>1. /\ key' = key /\ dirs' = dirs /\ at' = at
        /\ pc'[p] \in {"heal", "loaded", "failed"}
        /\ pc'[p] = "heal" => todo'[p] = dirs[at'[p]].files
    BY <1>0, <1>2, <1>14 DEF Load, LoadHit, LoadMade, shared, Types, KnowsItsDirs, E
  <2> QED
    BY <1>1, <2>1 DEF HasItsWay
<1>15. CASE Unlink(p)
  <2>1. /\ UNCHANGED <<pc, key, at, victims>> /\ pc[p] \in {"clear", "evict", "heal"}
        /\ at[p] \in Names
    BY <1>0, <1>15 DEF Unlink, Types
  <2>2. PICK f \in todo[p] : /\ dirs' = [dirs EXCEPT ![at[p]].files = @ \ {f}]
                             /\ todo' = [todo EXCEPT ![p] = @ \ {f}]
    BY <1>15 DEF Unlink
  <2>3. /\ dirs'[at[p]].files = dirs[at[p]].files \ {f} /\ dirs'[at[p]].ver = dirs[at[p]].ver
        /\ \A d \in Names \ {at[p]} : dirs'[d] = dirs[d]
        /\ todo'[p] = todo[p] \ {f}
    BY <1>0, <2>1, <2>2 DEF Types, Bundles
  <2>4. AtWork(p)
    BY <1>8, <1>15 DEF Writes, Publish
  <2>5. dirs'[at[p]].files \subseteq todo'[p]
    BY <1>0, <2>1, <2>3, <2>4 DEF HasItsWay
  <2>6. CASE pc[p] = "heal"
    BY <2>1, <2>5, <2>6 DEF HasItsWay
  <2>7. CASE pc[p] = "clear"
    <3>1. at[p] # S
      BY <1>0, <1>2, <2>7 DEF KnowsItsDirs, E
    <3>2. dirs'[S] = dirs[S]
      BY <1>2, <2>3, <3>1
    <3> QED
      BY <1>0, <1>1, <2>1, <2>4, <2>5, <2>7, <3>2 DEF HasItsWay, S
  <2>8. CASE pc[p] = "evict"
    <3>1. at[p] # E
      BY <1>0, <2>4, <2>8 DEF HasItsWay, E
    <3>2. dirs'[E] = dirs[E]
      BY <1>2, <2>3, <3>1
    <3>3. \A v \in Versions : dirs'[EntryOf(v)].ver = dirs[EntryOf(v)].ver
      BY <1>3, <2>3
    <3> QED
      BY <1>0, <1>1, <2>1, <2>4, <2>5, <2>8, <3>1, <3>2, <3>3 DEF HasItsWay, E
  <2> QED
    BY <2>1, <2>6, <2>7, <2>8
<1>16. CASE Rmdir(p)
  <2>1. /\ UNCHANGED <<key, at, todo, victims>> /\ pc[p] \in {"clear", "evict", "heal"}
        /\ todo[p] = {} /\ at[p] \in Names
        /\ pc' = [pc EXCEPT ![p] = CASE pc[p] = "clear" -> "rename"
                                     [] pc[p] = "evict" -> "scan"
                                     [] pc[p] = "heal" -> "remake"]
    BY <1>0, <1>16 DEF Rmdir, Types
  <2>2. AtWork(p)
    BY <1>8, <1>16 DEF Writes, Publish
  <2>3. dirs' = [dirs EXCEPT ![at[p]] = Absent]
    <3>1. dirs[at[p]].files = {}
      BY <1>0, <2>1, <2>2 DEF HasItsWay
    <3> QED
      BY <1>16, <3>1 DEF Rmdir
  <2>4. dirs'[at[p]] = Absent /\ \A d \in Names \ {at[p]} : dirs'[d] = dirs[d]
    BY <1>0, <2>1, <2>3
  <2>5. CASE pc[p] = "heal"
    <3>1. pc'[p] = "remake"
      BY <1>0, <2>1, <2>5 DEF Types
    <3> QED
      BY <3>1 DEF HasItsWay
  <2>6. CASE pc[p] = "clear"
    <3>1. pc'[p] = "rename" /\ at[p] = E
      BY <1>0, <2>1, <2>6 DEF Types, KnowsItsDirs, E
    <3>2. dirs'[S] = dirs[S] /\ dirs'[E].files = {}
      BY <1>2, <1>4, <2>4, <3>1
    <3> QED
      BY <1>0, <1>1, <2>1, <2>2, <2>6, <3>1, <3>2 DEF HasItsWay, S, E
  <2>7. CASE pc[p] = "evict"
    <3>1. pc'[p] = "scan" /\ at[p] # E
      BY <1>0, <2>1, <2>2, <2>7 DEF Types, HasItsWay, E
    <3>2. dirs'[E] = dirs[E]
      BY <1>2, <2>4, <3>1
    <3>3. \A v \in Versions : /\ at[p] = EntryOf(v) => ~Exists(EntryOf(v))'
                              /\ at[p] # EntryOf(v) => dirs'[EntryOf(v)] = dirs[EntryOf(v)]
      BY <1>1, <1>3, <1>4, <2>4
    <3> QED
      BY <1>0, <1>1, <2>1, <2>2, <2>7, <3>1, <3>2, <3>3 DEF HasItsWay, E
  <2> QED
    BY <2>1, <2>5, <2>6, <2>7
<1>17. CASE Rename(p)
  <2>1. AtWork(p) /\ pc[p] = "rename" /\ key' = key
    BY <1>8, <1>17 DEF Writes, Publish, Rename
  <2>2. Whole(S) /\ dirs[E].files = {}
    BY <1>0, <2>1 DEF HasItsWay, S, E
  <2>3. /\ dirs' = [dirs EXCEPT ![E] = dirs[S], ![S] = Absent]
        /\ victims'[p] = Superseded(p) /\ pc'[p] = "scan"
    BY <1>0, <1>2, <1>17, <2>2 DEF Rename, Types
  <2>4. dirs'[E] = dirs[S] /\ \A v \in Versions \ {key[p]} : dirs'[EntryOf(v)] = dirs[EntryOf(v)]
    BY <1>0, <1>2, <1>3, <2>3
  <2>5. \A v \in Versions \ {key[p]} : Exists(EntryOf(v)) => EntryOf(v) \in Superseded(p)
    <3>1. \A v \in Versions : EntryOf(v)[1] = "entry"
      BY DEF EntryOf
    <3> QED
      BY <1>2, <1>3, <3>1 DEF Superseded
  <2>6. E \notin Superseded(p)
    BY <1>2 DEF Superseded
  <2> QED
    BY <1>1, <2>1, <2>2, <2>3, <2>4, <2>5, <2>6 DEF HasItsWay, E
<1>18. CASE EvictSuperseded(p)
  <2>1. AtWork(p) /\ pc[p] = "scan" /\ key' = key /\ dirs' = dirs
    BY <1>8, <1>18 DEF Writes, Publish, EvictSuperseded, shared
  <2>2. CASE victims[p] = {}
    <3>1. at'[p] = E /\ pc'[p] = "load"
      BY <1>0, <1>2, <1>18, <2>2 DEF EvictSuperseded, Types
    <3> QED
      BY <1>0, <1>1, <2>1, <2>2, <3>1 DEF HasItsWay, E
  <2>3. ASSUME NEW d \in victims[p], at'[p] = d, todo'[p] = dirs[d].files, pc'[p] = "evict",
               victims'[p] = victims[p] \ {d}
        PROVE  HasItsWay(p)'
    BY <1>0, <1>1, <2>1, <2>3 DEF HasItsWay
  <2> QED
    BY <1>0, <1>18, <2>2, <2>3 DEF EvictSuperseded, Types
<1> QED
  BY <1>5, <1>6, <1>7, <1>9, <1>10, <1>11, <1>12, <1>13, <1>14, <1>15, <1>16, <1>17, <1>18
     DEF Writes, Publish

\* The invariant of whoever has the cache to itself.
LEMMA LoneStep == LoneInv /\ [Next]_vars => LoneInv'
<1> SUFFICES ASSUME LoneInv, [Next]_vars PROVE LoneInv'
  OBVIOUS
<1>1. CacheInv' /\ AbsentIsEmpty' /\ disturbed' \in [Procs -> BOOLEAN] /\ UndisturbedIsAlone'
  BY CacheStep, AbsentStep, AloneStep DEF LoneInv, CacheInv
<1>2. \A q \in Procs : HasItsWay(q)'
  <2>1. ASSUME NEW p \in Procs, Writes(p) \/ Start(p) \/ Load(p) \/ Crash(p), NEW q \in Procs
        PROVE  HasItsWay(q)'
    <3>1. CASE q = p
      BY <2>1, <3>1, OwnWay
    <3>2. CASE q # p
      <4>1. ~AtWork(q)'
        BY <2>1, <3>2, OthersWay
      <4> QED
        BY <4>1 DEF HasItsWay
    <3> QED
      BY <3>1, <3>2
  <2>2. CASE Replace \/ UNCHANGED vars
    <3>1. UNCHANGED <<dirs, pc, key, at, todo, victims, disturbed>>
      BY <2>2 DEF Replace, vars, shared, local
    <3> QED
      BY <3>1 DEF LoneInv, HasItsWay, AtWork, Running, Whole, Exists, EntryOf, PartialOf, Versions
  <2> QED
    BY <2>1, <2>2 DEF Next, Writes
<1> QED
  BY <1>1, <1>2 DEF LoneInv

\* When a process that had the cache to itself has made an entry, that entry is
\* the only one there, whatever crashes and cut-short evictions came before:
\* evict_superseded is reached on every path that publishes.
THEOREM OneEntryRemains == Spec => []SupersededGone
<1>1. Init => LoneInv
  BY LoneInit
<1>2. LoneInv => SupersededGone
  <2> SUFFICES ASSUME LoneInv, NEW p \in Procs, pc[p] = "load", at[p] = Entry(p), ~disturbed[p],
                      NEW v \in Versions \ {key[p]}
               PROVE  ~Exists(EntryOf(v))
    BY DEF SupersededGone
  <2> QED
    BY DEF LoneInv, HasItsWay, AtWork, Running, Entry
<1> QED
  BY <1>1, <1>2, LoneStep, PTL DEF Spec

-----------------------------------------------------------------------------
(* Turns.                                                                  *)

LEMMA StandStep ==
    ASSUME LoneInv, TurnsInv, TakingTurns, kind = "convert", [Next]_vars
    PROVE  EntriesStand'
<1> USE DEF Goto, Put, Whole, Exists
<1>0. /\ Types /\ EntriesStand /\ \A p \in Procs : Supersedes(p) /\ KnowsItsDirs(p) /\ HasItsWay(p)
      /\ dirs \in [Names -> Bundles] /\ source \in Versions /\ Versions \subseteq Nat
  BY BoundsAreNat DEF TurnsInv, LoneInv, CacheInv, Types, Versions
<1>1. /\ Versions' = Versions /\ \A v \in Versions : EntryOf(v)' = EntryOf(v) /\ EntryOf(v) \in Names
  BY NamesDiffer DEF EntryOf, Versions
<1>7. Revision(source) \in Versions /\ Revision(source) \in Nat
  BY <1>0, RevisionsAreVersions
<1>8. UNCHANGED <<kind, source>> => Revision(source)' = Revision(source)
  BY DEF Revision
<1>2. ASSUME NEW p \in Procs, Writes(p) \/ Load(p) \/ Crash(p)
      PROVE  \A q \in Procs : ~disturbed'[q] /\ (pc'[q] \notin {"scan", "evict"} => victims'[q] = {})
  <2>1. disturbed' = disturbed /\ \A q \in Procs \ {p} : pc'[q] = pc[q]
    BY <1>0, <1>2, WhoWorks DEF LoneInv
  <2>2. \A q \in Procs \ {p} : victims'[q] = victims[q]
    BY <1>0, <1>2 DEF Types, Writes, Publish, MakeFails, CompilePackage, BeginConvert, WriteFile, MoveDir,
                      Written, Unlink, Rmdir, Rename, EvictSuperseded, Load, Crash
  <2>3. pc'[p] \notin {"scan", "evict"} => victims'[p] = {}
    BY <1>0, <1>2 DEF EntriesStand, Types, Writes, Publish, MakeFails, CompilePackage, BeginConvert, WriteFile,
                      MoveDir, Written, Unlink, Rmdir, Rename, EvictSuperseded, Load, LoadHit, LoadMade, Crash
  <2> QED
    BY <1>0, <2>1, <2>2, <2>3 DEF EntriesStand
<1>3. ASSUME NEW p \in Procs, Start(p)
      PROVE  EntriesStand'
  <2>1. Others(p) = {} /\ UNCHANGED <<kind, source, dirs, victims>>
    BY <1>3 DEF Start, TakingTurns, shared
  <2>2. \A q \in Procs : ~disturbed'[q]
    BY <1>0, <1>3, <2>1 DEF Start, EntriesStand
  <2>3. \A q \in Procs \ {p} : pc'[q] = pc[q]
    BY <1>0, <1>3 DEF Types, Start
  <2>4. pc[p] \notin {"scan", "evict"}
    BY <1>3 DEF Start, Over
  <2>5. \A q \in Procs : key'[q] =< Revision(source)
    BY <1>0, <1>3, <1>7 DEF Start, Types, EntriesStand
  <2> QED
    BY <1>0, <1>1, <1>8, <2>1, <2>2, <2>3, <2>4, <2>5 DEF EntriesStand
<1>4. ASSUME NEW p \in Procs, Writes(p) \/ Load(p) \/ Crash(p), NEW v \in Versions, Exists(EntryOf(v))'
      PROVE  v =< Revision(source)' /\ (Whole(EntryOf(v))' \/ v < Revision(source)')
  <2> DEFINE E == EntryOf(key[p])
             S == PartialOf(key[p], p)
  <2>0. Revision(source)' = Revision(source) /\ key[p] \in Versions /\ key[p] =< Revision(source)
    <3>1. UNCHANGED <<kind, source>>
      BY <1>4 DEF Writes, Publish, MakeFails, CompilePackage, BeginConvert, WriteFile,
                  MoveDir, Written, Unlink, Rmdir, Rename, EvictSuperseded, Load, Crash, shared
    <3> QED
      BY <1>0, <1>8, <3>1 DEF Types, EntriesStand
  <2>1. /\ Entry(p) = E /\ Staged(p) = S /\ E \in Names /\ S \in Names
        /\ EntryOf(v) # S /\ E # S /\ (EntryOf(v) = E => v = key[p])
    <3>1. Entry(p) = E /\ Staged(p) = S
      BY <1>0, TypesOfParts
    <3> QED
      BY <2>0, <3>1, NamesDiffer
  <2>12. v \in Nat /\ key[p] \in Nat /\ Revision(source) \in Nat
    BY <1>0, <1>7, <2>0
  <2> HIDE DEF E, S
  <2>2. CASE dirs'[EntryOf(v)] = dirs[EntryOf(v)]
    BY <1>0, <1>1, <1>4, <2>0, <2>2 DEF EntriesStand
  <2>3. CASE dirs'[EntryOf(v)] = Absent
    BY <1>1, <1>4, <2>3 DEF Absent
  <2>4. CASE MakeFails(p) \/ BeginConvert(p)
    <3>1. dirs'[EntryOf(v)] = dirs[EntryOf(v)]
      BY <1>0, <1>1, <2>1, <2>4 DEF MakeFails, BeginConvert
    <3> QED
      BY <2>2, <3>1
  <2>5. CASE CompilePackage(p)
    BY <2>5 DEF CompilePackage
  <2>6. CASE MoveDir(p)
    BY <1>0, <2>6 DEF MoveDir, Supersedes, Running
  <2>7. CASE WriteFile(p)
    <3>1. dirs'[EntryOf(v)] = dirs[EntryOf(v)]
      BY <1>0, <1>1, <2>1, <2>7 DEF WriteFile
    <3> QED
      BY <2>2, <3>1
  <2>8. CASE Unlink(p)
    <3>1. PICK f \in todo[p] : dirs' = [dirs EXCEPT ![at[p]].files = @ \ {f}]
      BY <2>8 DEF Unlink
    <3>2. pc[p] = "evict"
      BY <1>0, <2>8 DEF Unlink, Supersedes, Running
    <3>3. CASE EntryOf(v) # at[p]
      BY <1>0, <1>1, <2>2, <3>1, <3>3 DEF Types
    <3>4. CASE EntryOf(v) = at[p]
      <4>1. v < key[p]
        <5>1. ~(v >= key[p])
          BY <1>0, <3>2, <3>4 DEF Supersedes, Running
        <5> QED
          BY <2>12, <5>1
      <4> QED
        BY <2>0, <2>12, <4>1
    <3> QED
      BY <3>3, <3>4
  <2>9. CASE Rmdir(p)
    <3>1. dirs'[EntryOf(v)] \in {dirs[EntryOf(v)], Absent}
      BY <1>0, <1>1, <2>9 DEF Rmdir, Types
    <3> QED
      BY <2>2, <2>3, <3>1
  <2>10. CASE Rename(p)
    <3>1. Whole(S) /\ dirs[E].files = {}
      BY <1>0, <2>10 DEF Rename, HasItsWay, AtWork, EntriesStand, Running, S, E
    <3>2. dirs' = [dirs EXCEPT ![E] = dirs[S], ![S] = Absent]
      BY <2>1, <2>10, <3>1 DEF Rename
    <3>3. CASE EntryOf(v) # E
      BY <1>0, <1>1, <2>1, <2>2, <3>2, <3>3
    <3>4. CASE EntryOf(v) = E
      <4>1. dirs'[EntryOf(v)] = dirs[S]
        BY <1>0, <2>1, <3>2, <3>4
      <4> QED
        BY <1>1, <2>0, <2>1, <3>1, <3>4, <4>1
    <3> QED
      BY <3>3, <3>4
  <2>11. CASE Written(p) \/ EvictSuperseded(p) \/ Load(p) \/ Crash(p)
    BY <2>2, <2>11 DEF Written, EvictSuperseded, Load, Crash, shared
  <2> QED
    BY <1>4, <2>4, <2>5, <2>6, <2>7, <2>8, <2>9, <2>10, <2>11 DEF Writes, Publish
<1>5. CASE Replace
  <2>1. source' = source + 1 /\ source' \in Versions /\ UNCHANGED <<kind, dirs, local, disturbed>>
    BY <1>0, <1>5, BoundsAreNat DEF Replace, Versions
  <2>2. Revision(source)' = Revision(source + 1)
    BY <2>1 DEF Revision
  <2>3. Revision(source) =< Revision(source)' /\ Revision(source)' \in Nat
    <3>1. source + 1 \in Versions /\ source =< source + 1
      BY <1>0, <2>1
    <3> QED
      BY <1>0, <2>2, <3>1, RevisionsGrow, RevisionsAreVersions
  <2>4. \A v \in Nat : v =< Revision(source) => v =< Revision(source)'
    BY <1>7, <2>3
  <2>5. \A v \in Nat : v < Revision(source) => v < Revision(source)'
    BY <1>7, <2>3
  <2>6. \A q \in Procs : key[q] \in Nat
    BY <1>0 DEF Types
  <2> QED
    BY <1>0, <1>1, <2>1, <2>4, <2>5, <2>6 DEF local, EntriesStand
<1>6. CASE UNCHANGED vars
  BY <1>0, <1>1, <1>6, <1>8 DEF vars, shared, local, EntriesStand
<1> QED
  <2>1. ASSUME NEW p \in Procs, Writes(p) \/ Load(p) \/ Crash(p) PROVE EntriesStand'
    <3>1. UNCHANGED <<kind, source, key>>
      BY <2>1 DEF Writes, Publish, MakeFails, CompilePackage, BeginConvert, WriteFile,
                  MoveDir, Written, Unlink, Rmdir, Rename, EvictSuperseded, Load, Crash, shared
    <3>2. \A q \in Procs : key'[q] =< Revision(source)'
      BY <1>0, <1>8, <3>1 DEF EntriesStand
    <3> QED
      BY <1>1, <1>2, <1>4, <2>1, <3>2 DEF EntriesStand
  <2> QED
    BY <1>3, <1>5, <1>6, <2>1 DEF Next, Writes

LEMMA TurnStep ==
    ASSUME LoneInv, TurnsInv, kind = "convert", NEW p \in Procs,
           Writes(p) \/ Start(p) \/ Load(p) \/ Crash(p)
    PROVE  Supersedes(p)'
<1> SUFFICES ASSUME pc'[p] \in Running PROVE Supersedes(p)'
  BY DEF Supersedes, Running
<1> DEFINE E == EntryOf(key[p])
           S == PartialOf(key[p], p)
<1> USE DEF Goto, Put, List, Exists
<1>0. /\ Types /\ EntriesStand /\ Supersedes(p) /\ KnowsItsDirs(p) /\ HasItsWay(p) /\ AbsentIsEmpty
      /\ dirs \in [Names -> Bundles] /\ source \in Versions /\ key[p] \in Versions /\ Versions \subseteq Nat
  BY BoundsAreNat DEF TurnsInv, LoneInv, CacheInv, Types, Versions
<1>1. /\ Versions' = Versions /\ Running' = Running
      /\ \A v \in Versions : EntryOf(v)' = EntryOf(v) /\ EntryOf(v) \in Names
      /\ EntryOf(key[p])' = EntryOf(key'[p])
  BY NamesDiffer DEF EntryOf, Versions, Running
<1>2. /\ Entry(p) = E /\ Staged(p) = S /\ E \in Names /\ S \in Names /\ E # S
      /\ \A v \in Versions : EntryOf(v) # S /\ (EntryOf(v) = E => v = key[p])
  <2>1. Entry(p) = E /\ Staged(p) = S
    BY <1>0, TypesOfParts
  <2> QED
    BY <1>0, <2>1, NamesDiffer
<1>3. Absent.ver = 0 /\ source # 0
  BY <1>0, BoundsAreNat DEF Types, Absent, Versions
<1>18. key[p] \in Nat /\ \A v \in Versions : v \in Nat
  BY <1>0
<1> HIDE DEF E, S
<1>4. CASE Start(p)
  <2> DEFINE rev == Revision(source)
  <2>0. rev \in Versions
    BY <1>0, RevisionsAreVersions
  <2>1. key'[p] = rev /\ dirs' = dirs /\ victims'[p] = {}
        /\ pc'[p] = (IF Exists(EntryOf(rev)) THEN "hit" ELSE "make")
    <3>1. victims[p] = {}
      BY <1>0, <1>4 DEF EntriesStand, Start, Over
    <3> QED
      BY <1>0, <1>4, <3>1 DEF Start, Types, Entry, EntryOf, shared
  <2>2. Exists(EntryOf(rev)) => Whole(EntryOf(rev))
    BY <1>0, <2>0 DEF EntriesStand
  <2>3. \A v \in Versions : Exists(EntryOf(v)) => v =< rev
    BY <1>0, <2>0 DEF EntriesStand
  <2> HIDE DEF rev
  <2>4. EntryOf(key[p])' = EntryOf(rev)
    BY <1>1, <2>1
  <2>5. pc'[p] = "hit" => Whole(EntryOf(key[p]))'
    BY <2>1, <2>2, <2>4 DEF Whole
  <2>6. pc'[p] = "make" => ~Exists(EntryOf(key[p]))'
    BY <2>1, <2>4
  <2>7. \A v \in Versions' : Exists(EntryOf(v))' => v =< key'[p]
    BY <1>1, <2>1, <2>3
  <2>8. pc'[p] \in {"hit", "make"}
    BY <2>1
  <2> QED
    BY <2>1, <2>5, <2>6, <2>7, <2>8 DEF Supersedes
<1>5. ASSUME Writes(p) \/ Load(p) \/ Crash(p)
      PROVE  pc[p] \in Running /\ key' = key /\ ~disturbed[p]
  <2>1. pc[p] \in Running
    BY <1>0, <1>5, WhoWorks DEF LoneInv
  <2>2. key' = key
    BY <1>5 DEF Writes, Publish, MakeFails, CompilePackage, BeginConvert, WriteFile, MoveDir, Written, Unlink,
                Rmdir, Rename, EvictSuperseded, Load, Crash
  <2> QED
    BY <1>0, <2>1, <2>2 DEF EntriesStand
<1>6. ASSUME UNCHANGED <<key, victims>>, \A v \in Versions : dirs'[EntryOf(v)] = dirs[EntryOf(v)],
             pc[p] \in {"make", "write"}, pc'[p] \in {"write", "clear"},
             pc'[p] = "clear" => todo'[p] = {}
      PROVE  Supersedes(p)'
  BY <1>0, <1>1, <1>6 DEF Supersedes, Running
<1>7. CASE Crash(p)
  BY <1>0, <1>7 DEF Crash, Types, Running
<1>8. CASE MakeFails(p)
  BY <1>0, <1>8 DEF MakeFails, Types, Running
<1>9. CASE CompilePackage(p) \/ MoveDir(p)
  BY <1>0, <1>9 DEF CompilePackage, MoveDir, Supersedes, Running
<1>10. CASE BeginConvert(p)
  <2>1. UNCHANGED <<key, victims>> /\ pc[p] = "make" /\ pc'[p] = "write"
    BY <1>0, <1>10 DEF BeginConvert, Types
  <2>2. \A v \in Versions : dirs'[EntryOf(v)] = dirs[EntryOf(v)]
    BY <1>0, <1>1, <1>2, <1>10 DEF BeginConvert
  <2> QED
    BY <1>6, <2>1, <2>2
<1>11. CASE WriteFile(p)
  <2>1. UNCHANGED <<key, victims>> /\ pc[p] = "write" /\ pc'[p] = "write"
    BY <1>0, <1>11 DEF WriteFile, Types, Running
  <2>2. \A v \in Versions : dirs'[EntryOf(v)] = dirs[EntryOf(v)]
    BY <1>0, <1>1, <1>2, <1>11 DEF WriteFile
  <2> QED
    BY <1>6, <2>1, <2>2
<1>12. CASE Written(p)
  <2>1. /\ UNCHANGED <<key, victims, dirs>> /\ pc[p] = "write" /\ pc'[p] = "clear"
        /\ todo'[p] = dirs[E].files
    BY <1>0, <1>2, <1>12 DEF Written, shared, Types
  <2>2. dirs[E].files = {}
    BY <1>0, <1>2, <2>1 DEF Supersedes, Running, AbsentIsEmpty, E
  <2> QED
    BY <1>6, <2>1, <2>2
<1>13. CASE Unlink(p)
  <2>1. /\ UNCHANGED <<pc, key, at, victims>> /\ pc[p] = "evict"
    BY <1>0, <1>13 DEF Unlink, Supersedes, Running
  <2>2. PICK f \in todo[p] : dirs' = [dirs EXCEPT ![at[p]].files = @ \ {f}]
    BY <1>13 DEF Unlink
  <2>3. \A v \in Versions : dirs'[EntryOf(v)].ver = dirs[EntryOf(v)].ver
    BY <1>0, <1>1, <2>2 DEF Types, Bundles
  <2> QED
    BY <1>0, <1>1, <2>1, <2>3 DEF Supersedes
<1>14. CASE Rmdir(p)
  <2>1. /\ UNCHANGED <<key, at, victims>>
        /\ \/ pc[p] = "clear" /\ pc'[p] = "rename"
           \/ pc[p] = "evict" /\ pc'[p] = "scan"
    BY <1>0, <1>14 DEF Rmdir, Types, Supersedes, Running
  <2>2. \A v \in Versions : dirs'[EntryOf(v)] \in {dirs[EntryOf(v)], Absent}
    BY <1>0, <1>1, <1>14 DEF Rmdir, Types
  <2>3. \A v \in Versions : ~Exists(EntryOf(v)) => ~Exists(EntryOf(v))'
    BY <1>1, <1>3, <2>2
  <2> QED
    BY <1>0, <1>1, <2>1, <2>3 DEF Supersedes, Running
<1>15. CASE Rename(p)
  <2>1. pc[p] = "rename" /\ key' = key /\ ~disturbed[p]
    BY <1>5, <1>15 DEF Writes, Publish, Rename
  <2>2. Whole(S) /\ dirs[E].files = {}
    BY <1>0, <2>1 DEF HasItsWay, AtWork, Running, S, E
  <2>3. /\ dirs' = [dirs EXCEPT ![E] = dirs[S], ![S] = Absent]
        /\ victims'[p] = Superseded(p) /\ pc'[p] = "scan"
    BY <1>0, <1>2, <1>15, <2>2 DEF Rename, Types, Whole
  <2>4. \A v \in Versions \ {key[p]} : dirs'[EntryOf(v)] = dirs[EntryOf(v)]
    BY <1>0, <1>1, <1>2, <2>3
  <2>5. \A v \in Versions : v >= key[p] => EntryOf(v) \notin Superseded(p)
    <3>1. \A v \in Versions : Exists(EntryOf(v)) => v =< key[p]
      BY <1>0, <2>1 DEF Supersedes, Running
    <3>2. \A v \in Versions : v >= key[p] /\ v =< key[p] => EntryOf(v) = E
      <4>1. \A v \in Versions : v >= key[p] /\ v =< key[p] => v = key[p]
        BY <1>18
      <4> QED
        BY <4>1 DEF E
    <3> QED
      BY <1>2, <3>1, <3>2 DEF Superseded
  <2>6. \A v \in Versions : Exists(EntryOf(v))' => v =< key[p]
    <3>1. \A v \in Versions : Exists(EntryOf(v)) => v =< key[p]
      BY <1>0, <2>1 DEF Supersedes, Running
    <3>2. key[p] =< key[p]
      BY <1>18
    <3> QED
      BY <1>1, <2>4, <3>1, <3>2
  <2> QED
    BY <1>1, <2>1, <2>3, <2>5, <2>6 DEF Supersedes
<1>16. CASE EvictSuperseded(p)
  <2>1. pc[p] = "scan" /\ UNCHANGED <<key, dirs>>
    BY <1>16 DEF EvictSuperseded, shared
  <2>2. CASE pc'[p] = "load" /\ victims' = victims
    BY <1>0, <1>1, <2>1, <2>2 DEF Supersedes, Running
  <2>3. ASSUME NEW d \in victims[p], at'[p] = d, pc'[p] = "evict", victims'[p] = victims[p] \ {d}
        PROVE  Supersedes(p)'
    BY <1>0, <1>1, <2>1, <2>3 DEF Supersedes, Running
  <2> QED
    BY <1>0, <1>16, <2>2, <2>3 DEF EvictSuperseded, Types
<1>17. CASE Load(p)
  BY <1>0, <1>17 DEF Load, LoadHit, LoadMade, Types, Running
<1> QED
  BY <1>4, <1>7, <1>8, <1>9, <1>10, <1>11, <1>12, <1>13, <1>14, <1>15, <1>16, <1>17 DEF Writes, Publish

\* The invariant of converters that take turns.
LEMMA TurnsStep ==
    ASSUME LoneInv, TurnsInv, TakingTurns, [Next]_vars
    PROVE  TurnsInv'
<1> SUFFICES ASSUME kind' = "convert" PROVE EntriesStand' /\ \A q \in Procs : Supersedes(q)'
  BY DEF TurnsInv
<1>0. kind = "convert" /\ Types /\ EntriesStand /\ \A q \in Procs : Supersedes(q)
  <2>1. kind' = kind
    BY DEF Next, Publish, Start, MakeFails, CompilePackage, BeginConvert, WriteFile, MoveDir, Written,
           Unlink, Rmdir, Rename, EvictSuperseded, Load, Crash, Replace, vars, shared
  <2> QED
    BY <2>1 DEF TurnsInv, LoneInv, CacheInv
<1>1. EntriesStand'
  BY <1>0, StandStep
<1>2. ASSUME NEW p \in Procs, Writes(p) \/ Start(p) \/ Load(p) \/ Crash(p), NEW q \in Procs
      PROVE  Supersedes(q)'
  <2>1. CASE q = p
    BY <1>0, <1>2, <2>1, TurnStep
  <2>2. CASE q # p
    <3>1. ~AtWork(q)' /\ ~disturbed'[q]
      BY <1>1, <1>2, <2>2, OthersWay DEF EntriesStand
    <3> QED
      BY <3>1 DEF AtWork, Supersedes
  <2> QED
    BY <2>1, <2>2
<1>3. CASE Replace \/ UNCHANGED vars
  <2>1. UNCHANGED <<dirs, pc, key, at, todo, victims>>
    BY <1>3 DEF Replace, vars, shared, local
  <2>2. ASSUME NEW q \in Procs PROVE Supersedes(q)'
    <3>1. Supersedes(q)
      BY <1>0
    <3> QED
      BY <2>1, <3>1 DEF Supersedes, Running, Whole, Exists, EntryOf, Versions
  <2> QED
    BY <1>1, <2>2
<1> QED
  BY <1>1, <1>2, <1>3 DEF Next, Writes

\* Whoever is alone finds what it made, and, in turns, what others made.
LEMMA NoneFails ==
    ASSUME LoneInv, TurnsInv, AloneSucceeds, [Next]_vars
    PROVE  AloneSucceeds'
<1> USE DEF Goto
<1>0. Types /\ disturbed \in [Procs -> BOOLEAN] /\ \A p \in Procs : KnowsItsDirs(p) /\ HasItsWay(p)
  BY DEF LoneInv, CacheInv
<1>1. ASSUME NEW p \in Procs, Writes(p) \/ Load(p) \/ Crash(p), NEW q \in Procs, pc'[q] = "failed"
      PROVE  disturbed'[q]
  <2>1. pc[p] \in Running /\ disturbed' = disturbed /\ \A r \in Procs \ {p} : pc'[r] = pc[r]
    BY <1>0, <1>1, WhoWorks
  <2>2. CASE q # p
    BY <1>1, <2>1, <2>2 DEF AloneSucceeds
  <2>3. CASE q = p
    <3> SUFFICES ASSUME ~disturbed[p] PROVE FALSE
      BY <2>1, <2>3
    <3>0. AtWork(p)
      BY <2>1 DEF AtWork
    <3>1. CASE WriteFile(p)
      <4>1. pc[p] = "write" /\ Staged(p) = PartialOf(key[p], p)
        BY <1>0, <3>1, TypesOfParts DEF WriteFile
      <4>2. Exists(Staged(p))
        BY <1>0, <3>0, <4>1 DEF HasItsWay
      <4> QED
        BY <1>1, <2>3, <3>1, <4>1, <4>2 DEF WriteFile
    <3>2. CASE LoadHit(p)
      <4>1. pc[p] = "hit" /\ kind = "convert" /\ ~Whole(at[p])
        BY <1>0, <1>1, <2>3, <3>2 DEF LoadHit, Types
      <4>2. at[p] = EntryOf(key[p]) /\ Supersedes(p)
        BY <1>0, <4>1 DEF KnowsItsDirs, TurnsInv
      <4> QED
        BY <2>1, <4>1, <4>2 DEF Supersedes
    <3>3. CASE LoadMade(p)
      <4>1. pc[p] = "load" /\ ~Whole(at[p])
        BY <1>0, <1>1, <2>3, <3>3 DEF LoadMade, Types
      <4> QED
        BY <1>0, <3>0, <4>1 DEF HasItsWay
    <3>4. CASE Writes(p) /\ ~WriteFile(p)
      BY <1>0, <1>1, <2>1, <2>3, <3>4
         DEF Types, Running, Writes, Publish, MakeFails, CompilePackage, BeginConvert, MoveDir, Written,
             Unlink, Rmdir, Rename, EvictSuperseded
    <3>5. CASE Crash(p)
      BY <1>0, <1>1, <2>3, <3>5 DEF Types, Crash
    <3> QED
      BY <1>1, <3>1, <3>2, <3>3, <3>4, <3>5 DEF Load
  <2> QED
    BY <2>2, <2>3
<1>2. ASSUME NEW p \in Procs, Start(p), NEW q \in Procs, pc'[q] = "failed"
      PROVE  disturbed'[q]
  <2>1. q # p
    BY <1>0, <1>2 DEF Start, Types
  <2>2. pc'[q] = pc[q] /\ disturbed'[q] = (disturbed[q] \/ q \in Others(p))
    BY <1>0, <1>2, <2>1 DEF Start, Types
  <2> QED
    BY <1>2, <2>2 DEF AloneSucceeds
<1>3. CASE UNCHANGED <<pc, disturbed>>
  BY <1>3 DEF AloneSucceeds
<1> QED
  BY <1>1, <1>2, <1>3 DEF AloneSucceeds, Next, Writes, Replace, local, vars

\* A process that has the cache to itself loads its model or is refused by the
\* converter: nothing an earlier one left there, killed or not, makes it fail.
\* Runs of compile_cached may overlap as they like, those of provision must not.
THEOREM NothingLeftBehindFails ==
    ASSUME TakingTurns
    PROVE  Spec => []AloneSucceeds
<1> DEFINE Inv == LoneInv /\ TurnsInv /\ AloneSucceeds
<1>1. Init => Inv
  BY LoneInit DEF Init, AloneSucceeds
<1>2. Inv /\ [Next]_vars => Inv'
  BY LoneStep, TurnsStep, NoneFails
<1>3. Inv => AloneSucceeds
  OBVIOUS
<1> QED
  BY <1>1, <1>2, <1>3, PTL DEF Spec

=============================================================================
