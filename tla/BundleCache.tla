----------------------------- MODULE BundleCache -----------------------------
(***************************************************************************)
(* The two caches below kohagi/coreml: the compiled form of a package      *)
(* (compile_cached of src/coreml/provision.rs) and the converted form of a *)
(* checkpoint (provision of src/coreml/autoconvert.rs). Both are           *)
(* directories shared by every kohagi of one user, and both publish the    *)
(* same way: make the bundle under a name of one's own, clear the entry,   *)
(* rename, delete what is superseded. Processes start and are killed at    *)
(* any time, and the source is replaced now and then.                      *)
(*                                                                         *)
(* remove_dir_all is what it is: a listing, one unlink after the other,    *)
(* and an rmdir that fails if something was added meanwhile. A rename of a *)
(* directory fails if the target is one that is not empty. Here a bundle's *)
(* directory and the entry it is in are one.                               *)
(***************************************************************************)
EXTENDS Naturals, FiniteSets

CONSTANTS Procs,        \* process ids: a process that starts again keeps its own
          Files,        \* what a whole bundle consists of
          MaxVersions,  \* states the source is in, one after the other
          MaxCrashes,   \* how often a process is killed in the middle
          Kinds,        \* the caches to look at: "compile", "convert"
          Concurrent,   \* those in which several processes run at a time
          WeightsSince, \* of each state of a checkpoint, the one its weights are from
          NoProc

ASSUME NoProcIsNone == NoProc \notin Procs
ASSUME BoundsAreNat == MaxVersions \in Nat \ {0} /\ MaxCrashes \in Nat
ASSUME KindsAreTheTwo == Kinds \subseteq {"compile", "convert"} /\ Concurrent \subseteq Kinds
ASSUME WeightsAreKept ==
    /\ WeightsSince \in [1..MaxVersions -> 1..MaxVersions]
    /\ \A v \in 1..MaxVersions :
          /\ WeightsSince[v] <= v
          /\ \A w \in WeightsSince[v]..v : WeightsSince[w] = WeightsSince[v]

VARIABLES kind,       \* which cache this is
          source,     \* the state the package, or the checkpoint, is in
          dirs,       \* every directory: what it was made from, and what is in it
          pc,         \* where each process is, see Running and Over
          key,        \* the revision in its entry's name
          at,         \* the directory it removes, or is to load
          todo,       \* files it has still to write, or to unlink
          victims,    \* superseded directories it has still to delete
          disturbed,  \* history: another process ran while it did
          crashes

shared == <<kind, source, dirs>>
local == <<pc, key, at, todo, victims>>
vars == <<shared, local, disturbed, crashes>>

Versions == 1..MaxVersions
EntryOf(v) == <<"entry", v, NoProc>>
Names == {EntryOf(v) : v \in Versions}
         \union {<<"partial", v, p>> : v \in Versions, p \in Procs}
         \union {<<"temp", 0, p>> : p \in Procs}

Absent == [ver |-> 0, files |-> {}]
Exists(d) == dirs[d].ver # 0
Whole(d) == Exists(d) /\ dirs[d].files = Files

\* make: compile_package, or the start of convert. write: convert's files.
\* move: move_dir. clear, evict, heal: inside remove_dir_all. scan: between
\* two victims. hit, load: the model is loaded next.
Running == {"make", "move", "write", "clear", "rename", "scan", "evict", "hit",
            "heal", "remake", "load"}
Over == {"idle", "loaded", "refused", "failed", "killed"}

Init == /\ kind \in Kinds /\ source = 1
        /\ dirs = [d \in Names |-> Absent]
        /\ pc = [p \in Procs |-> "idle"]
        /\ key = [p \in Procs |-> 1]
        /\ at = [p \in Procs |-> EntryOf(1)]
        /\ todo = [p \in Procs |-> {}]
        /\ victims = [p \in Procs |-> {}]
        /\ disturbed = [p \in Procs |-> FALSE]
        /\ crashes = 0

-----------------------------------------------------------------------------
(* Names: entry_in and entry_name, the partial- names, unique_temp_dir.    *)

\* identity and contents cover every file of a package; revision covers of a
\* checkpoint in a directory model.safetensors alone, and the commit of one
\* from the Hub, where every state has weights of its own.
Revision(v) == IF kind = "convert" THEN WeightsSince[v] ELSE v

\* Mutant: a name that does not cover the contents.
EntryForAll(p) == EntryOf(1)

Entry(p) == EntryOf(key[p])

Staged(p) == <<"partial", key[p], p>>
Temp(p) == <<"temp", 0, p>>

Goto(p, stage) == pc' = [pc EXCEPT ![p] = stage]

Put(d, contents) == dirs' = [dirs EXCEPT ![d] = contents]

\* remove_dir_all has opened d and listed it.
List(p, d) == at' = [at EXCEPT ![p] = d] /\ todo' = [todo EXCEPT ![p] = dirs[d].files]

-----------------------------------------------------------------------------
(* The start of compile_cached and of provision.                           *)

Others(p) == {q \in Procs \ {p} : pc[q] \in Running}

Start(p) ==
    /\ pc[p] \in Over
    /\ kind \in Concurrent \/ Others(p) = {}
    /\ key' = [key EXCEPT ![p] = Revision(source)]
    /\ at' = [at EXCEPT ![p] = Entry(p)']
    /\ Goto(p, IF Exists(Entry(p)') THEN "hit" ELSE "make")
    /\ disturbed' = [q \in Procs |-> IF q = p THEN Others(p) # {}
                                     ELSE disturbed[q] \/ q \in Others(p)]
    /\ UNCHANGED <<shared, todo, victims, crashes>>

\* The compiler, or the converter, refuses the source or cannot write.
MakeFails(p) ==
    /\ pc[p] \in {"make", "write", "remake"}
    /\ Goto(p, "refused")
    /\ IF kind = "convert" THEN Put(Staged(p), Absent) ELSE UNCHANGED dirs
    /\ todo' = [todo EXCEPT ![p] = {}]
    /\ UNCHANGED <<kind, source, key, at, victims, disturbed, crashes>>

\* compile_package: a whole bundle in a temporary directory of its own.
CompilePackage(p) ==
    /\ kind = "compile" /\ pc[p] \in {"make", "remake"}
    /\ Put(Temp(p), [ver |-> source, files |-> Files])
    /\ Goto(p, IF pc[p] = "make" THEN "move" ELSE "load")
    /\ at' = [at EXCEPT ![p] = Temp(p)]
    /\ UNCHANGED <<kind, source, key, todo, victims, disturbed, crashes>>

\* move_dir into the cache, by rename or by copy and delete; a copy may fail,
\* and this run uses the temporary directory.
MoveDir(p) ==
    /\ pc[p] = "move"
    /\ \/ /\ dirs' = [dirs EXCEPT ![Staged(p)] = dirs[Temp(p)], ![Temp(p)] = Absent]
          /\ List(p, Entry(p))
          /\ Goto(p, "clear")
       \/ /\ Put(Staged(p), Absent)
          /\ Goto(p, "load")
          /\ UNCHANGED <<at, todo>>
    /\ UNCHANGED <<kind, source, key, victims, disturbed, crashes>>

\* convert reads the checkpoint and makes its directory ...
BeginConvert(p) ==
    /\ kind = "convert" /\ pc[p] = "make"
    /\ Put(Staged(p), [ver |-> source, files |-> {}])
    /\ todo' = [todo EXCEPT ![p] = Files]
    /\ Goto(p, "write")
    /\ UNCHANGED <<kind, source, key, at, victims, disturbed, crashes>>

\* ... and writes file after file into it, while it is there.
WriteFile(p) ==
    /\ pc[p] = "write" /\ todo[p] # {}
    /\ IF Exists(Staged(p))
       THEN \E f \in todo[p] :
               /\ dirs' = [dirs EXCEPT ![Staged(p)].files = @ \union {f}]
               /\ todo' = [todo EXCEPT ![p] = @ \ {f}]
               /\ UNCHANGED pc
       ELSE /\ Goto(p, "failed")
            /\ todo' = [todo EXCEPT ![p] = {}]
            /\ UNCHANGED dirs
    /\ UNCHANGED <<kind, source, key, at, victims, disturbed, crashes>>

Written(p) ==
    /\ pc[p] = "write" /\ todo[p] = {}
    /\ List(p, Entry(p))
    /\ Goto(p, "clear")
    /\ UNCHANGED <<shared, key, victims, disturbed, crashes>>

-----------------------------------------------------------------------------
(* remove_dir_all, of whatever is there.                                   *)

Unlink(p) ==
    /\ pc[p] \in {"clear", "evict", "heal"} /\ todo[p] # {}
    /\ \E f \in todo[p] :
          /\ dirs' = [dirs EXCEPT ![at[p]].files = @ \ {f}]
          /\ todo' = [todo EXCEPT ![p] = @ \ {f}]
    /\ UNCHANGED <<kind, source, pc, key, at, victims, disturbed, crashes>>

Rmdir(p) ==
    /\ pc[p] \in {"clear", "evict", "heal"} /\ todo[p] = {}
    /\ IF dirs[at[p]].files = {} THEN Put(at[p], Absent) ELSE UNCHANGED dirs
    /\ Goto(p, CASE pc[p] = "clear" -> "rename"
                 [] pc[p] = "evict" -> "scan"
                 [] pc[p] = "heal" -> "remake")
    /\ UNCHANGED <<kind, source, key, at, todo, victims, disturbed, crashes>>

-----------------------------------------------------------------------------
(* Into place, and evict_superseded.                                       *)

\* Mutant: nothing is ever superseded.
NothingSuperseded(p) == {}

\* For a package, the entries that differ in the contents only; for a
\* checkpoint, whatever has the same shape in its name, staging names too.
Superseded(p) ==
    {d \in Names \ {Entry(p), Staged(p)} :
        /\ Exists(d)
        /\ d[1] = "entry" \/ (kind = "convert" /\ d[1] = "partial")}

\* Where it fails, compile_cached removes the staged copy and hands out the
\* directory it was moved from; provision hands out the staged copy.
Rename(p) ==
    /\ pc[p] = "rename"
    /\ IF Exists(Staged(p)) /\ dirs[Entry(p)].files = {}
       THEN /\ dirs' = [dirs EXCEPT ![Entry(p)] = dirs[Staged(p)], ![Staged(p)] = Absent]
            /\ victims' = [victims EXCEPT ![p] = Superseded(p)]
            /\ Goto(p, "scan")
            /\ UNCHANGED at
       ELSE /\ IF kind = "compile" THEN Put(Staged(p), Absent) ELSE UNCHANGED dirs
            /\ at' = [at EXCEPT ![p] = IF kind = "compile" THEN Temp(p) ELSE Staged(p)]
            /\ Goto(p, "load")
            /\ UNCHANGED victims
    /\ UNCHANGED <<kind, source, key, todo, disturbed, crashes>>

EvictSuperseded(p) ==
    /\ pc[p] = "scan"
    /\ IF victims[p] = {}
       THEN /\ at' = [at EXCEPT ![p] = Entry(p)]
            /\ Goto(p, "load")
            /\ UNCHANGED <<todo, victims>>
       ELSE \E d \in victims[p] :
               /\ List(p, d)
               /\ victims' = [victims EXCEPT ![p] = @ \ {d}]
               /\ Goto(p, "evict")
    /\ UNCHANGED <<shared, key, disturbed, crashes>>

-----------------------------------------------------------------------------
(* load_model. Only a bundle that is whole loads.                          *)

\* Mutant: a bundle of the cache's is taken for a good one.
LoadHitTrusting(p) ==
    /\ pc[p] = "hit"
    /\ Goto(p, IF Whole(at[p]) THEN "loaded" ELSE "failed")
    /\ UNCHANGED todo

\* A compiled bundle from the cache that does not load is deleted and made
\* again; a converted one is what there is.
LoadHit(p) ==
    /\ pc[p] = "hit"
    /\ IF ~Whole(at[p]) /\ kind = "compile"
       THEN Goto(p, "heal") /\ List(p, Entry(p))
       ELSE Goto(p, IF Whole(at[p]) THEN "loaded" ELSE "failed") /\ UNCHANGED todo

LoadMade(p) ==
    /\ pc[p] = "load"
    /\ Goto(p, IF Whole(at[p]) THEN "loaded" ELSE "failed")
    /\ UNCHANGED todo

Load(p) ==
    /\ LoadHit(p) \/ LoadMade(p)
    /\ UNCHANGED <<shared, key, at, victims, disturbed, crashes>>

-----------------------------------------------------------------------------

Crash(p) ==
    /\ pc[p] \in Running /\ crashes < MaxCrashes
    /\ crashes' = crashes + 1
    /\ Goto(p, "killed")
    /\ todo' = [todo EXCEPT ![p] = {}] /\ victims' = [victims EXCEPT ![p] = {}]
    /\ UNCHANGED <<shared, key, at, disturbed>>

\* The package is converted again, or the checkpoint updated: its weights, or
\* config.json, tokenizer.json or 1_Pooling beside them.
Replace ==
    /\ source < MaxVersions
    /\ source' = source + 1
    /\ UNCHANGED <<kind, dirs, local, disturbed, crashes>>

Publish(p) == \/ MoveDir(p) \/ Written(p) \/ Unlink(p) \/ Rmdir(p) \/ Rename(p)
              \/ EvictSuperseded(p)

Next == \/ \E p \in Procs : \/ Start(p) \/ MakeFails(p) \/ CompilePackage(p)
                            \/ BeginConvert(p) \/ WriteFile(p) \/ Publish(p)
                            \/ Load(p) \/ Crash(p)
        \/ Replace

Spec == Init /\ [][Next]_vars

-----------------------------------------------------------------------------
(* Properties.                                                             *)

\* "The cache is keyed so that a stale bundle cannot be mistaken for a fresh
\* one" (autoconvert.rs), and what that is true of: a compiled form that is loaded
\* was made from the package as it was when the process started, or later; a
\* converted one from weights no older than those at the start. The files beside
\* a local checkpoint's weights are not in the key, so of them it may be the state
\* before. And what compile_cached is about to put in place is whole, whoever
\* else works on the same package.
NeverStale ==
    \A p \in Procs :
        /\ pc[p] = "loaded" => dirs[at[p]].ver \in {0} \union key[p]..source
        /\ kind = "compile" /\ pc[p] \in {"clear", "rename"} => Whole(Staged(p))

\* "A slow start is better than a failed one" (compile_cached): a process that
\* has the cache to itself loads its model, unless the model cannot be made,
\* whatever earlier runs and their crashes have left in the cache.
AloneSucceeds == \A p \in Procs : pc[p] = "failed" => disturbed[p]

\* "Without this the cache grows by a whole model on every upstream update"
\* (evict_superseded): when a process that had the cache to itself has made an
\* entry, that entry is the only one there, also after an eviction cut short.
SupersededGone ==
    \A p \in Procs : pc[p] = "load" /\ at[p] = Entry(p) /\ ~disturbed[p] =>
        \A v \in Versions \ {key[p]} : ~Exists(EntryOf(v))

\* "A crash, or a second Kohagi converting the same model, therefore cannot
\* leave a half-written bundle looking like a cache hit" (provision).
HitIsWhole ==
    (\A p \in Procs : pc[p] \in Over) =>
        \A v \in Versions : Exists(EntryOf(v)) => Whole(EntryOf(v))

=============================================================================
