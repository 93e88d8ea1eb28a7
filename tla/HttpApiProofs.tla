----------------------------- MODULE HttpApiProofs -----------------------------
(***************************************************************************)
(* What holds for every set of published models, of flags and of requests: *)
(* a model is of one commit as far as its weights and config.json go, and  *)
(* its settings are those the flags and its files ask for; what was loaded *)
(* whole loads again; and a reply is the whole answer to its request or a  *)
(* refusal. The first two parts are about ModelSource alone: what the      *)
(* cache, the stages of a start, a fetch and the conversions keep, and     *)
(* what a promise rests on. The third is about one request.                *)
(***************************************************************************)
EXTENDS HttpApi, CollectionFacts

-----------------------------------------------------------------------------
(* The invariant of the starts.                                            *)

Repo == Source.repo
Commits(r) == DOMAIN Published[r]

\* What is on the list of files to fetch, and what a checkpoint puts there.
ToDo == Range(todo)
Plan == Range(CheckpointFiles)

\* hf_hub's cache holds files of commits that were published.
CacheIsSound ==
    /\ hub \in [Remote -> Nat] /\ \A r \in Remote : hub[r] \in Commits(r)
    /\ cache = [r \in Remote |-> cache[r]]
    /\ \A r \in Remote :
         /\ cache[r].ref = 0 \/ cache[r].ref \in Commits(r)
         /\ cache[r].snaps = [c \in Commits(r) |-> cache[r].snaps[c]]
         /\ \A c \in Commits(r) : cache[r].snaps[c] \subseteq DOMAIN Published[r][c]

\* The stage a program is at, and how many of its models are in.
StageIsSound ==
    /\ machine \in Machines
    /\ pc \in {"idle", "load", "fetch", "check", "up", "over"}
    /\ pc # "idle" => start \in machine
    /\ pc \in {"load", "fetch", "check"} => at \in DOMAIN Models(start)
    /\ pc \in {"load", "fetch"} => Len(loaded) = at - 1
    /\ pc = "check" => Len(loaded) = at
    /\ pc = "up" => Len(loaded) = Len(Models(start))
    /\ pc \in {"idle", "over"} => loaded = <<>>
    /\ loaded \in Seq(Range(loaded))
    /\ pc \in {"load", "check"} => ~lost
    /\ pc \in {"fetch", "check"} => todo \in Seq(ToDo) /\ (Repo \in Local => todo = <<>>)

\* A bundle is fetched from one listing: what it named is here or still to come,
\* and of its commit unless `lost`.
OfOneListing ==
    \E l \in Commits(Repo) :
        LET names == DOMAIN Published[Repo][l]
            wanted == {f \in names : Wanted(f, Model.coreml_prefer, names)} \union {CONFIG}
        IN /\ \A e \in ToDo : e.listed = l /\ e.required
           /\ \A f \in wanted : f \in DOMAIN got \/ \E e \in ToDo : e.file = f
           /\ lost \/ \A f \in DOMAIN got : got[f] = l

\* A checkpoint's weights come first; what it has of the others is here or still
\* to come, unless `lost`.
WeightsFirst ==
    \/ todo = CheckpointFiles /\ got = <<>> /\ ~lost
    \/ /\ WEIGHTS \in DOMAIN got
       /\ \A e \in ToDo : e \in Plan /\ e.file # WEIGHTS
       /\ \A e \in Plan : \/ e \in ToDo
                          \/ e.file \in DOMAIN got
                          \/ ~e.required /\ (lost \/ e.file \notin DOMAIN Published[Repo][got[WEIGHTS]])

FetchIsSound ==
    pc = "fetch" =>
        /\ RefusedEarly(Model) = 0
        /\ IF Repo \in Local
           THEN ~lost /\ got = [f \in DOMAIN Published[Repo][1] |-> 1]
           ELSE /\ \A f \in DOMAIN got : got[f] \in Commits(Repo) /\ f \in cache[Repo].snaps[got[f]]
                /\ IF Source.kind = "bundle" THEN OfOneListing ELSE WeightsFirst

\* Files as they are in a commit: the configuration, and if they are clean the rest.
AreOf(files, clean, said) ==
    /\ CONFIG \in DOMAIN files => CONFIG \in DOMAIN said /\ files[CONFIG] = said[CONFIG]
    /\ clean => \A f \in Metadata \ {CONFIG} :
                  /\ f \in DOMAIN files <=> f \in DOMAIN said
                  /\ f \in DOMAIN said => files[f] = said[f]

ConversionsAreSound ==
    \A k \in DOMAIN conversions :
        \E r \in DOMAIN Published : \E c \in Commits(r) :
            LET made == conversions[k]
                said == Published[r][c]
            IN /\ k[1] = r /\ k[2] = c
               /\ {WEIGHTS, CONFIG} \subseteq DOMAIN said
               /\ AreOf(made.files, made.clean, said)
               /\ made.weights = {said[WEIGHTS]}
               /\ made.buckets = k[3] /\ made.quantization = k[4]
               /\ \A n \in k[3] : n <= said[CONFIG].positions

\* The settings of a model: what the flags ask for, as far as it can.
SetAsFlagged(m, info) ==
    /\ info.dim = info.config.hidden /\ info.dim \in Nat
    /\ info.output_dim = IF m.dims = info.dim THEN None ELSE m.dims
    /\ m.dims # None => m.dims \in 1..info.dim /\ m.normalize
    /\ info.normalized = m.normalize

SettingsAreFlagged == \A i \in DOMAIN loaded : SetAsFlagged(Models(start)[i], loaded[i].info)

SourceInv == /\ CacheIsSound /\ StageIsSound /\ FetchIsSound
             /\ ConversionsAreSound /\ SettingsAreFlagged /\ LoadedAsFlagged

-----------------------------------------------------------------------------
(* Sequences whose elements have no type.                                  *)

LEMMA SeqOfItsElements ==
    ASSUME NEW S, NEW s \in Seq(S)
    PROVE  s \in Seq(Range(s))
BY DEF Range

LEMMA OneMore ==
    ASSUME NEW s, s \in Seq(Range(s)), NEW x
    PROVE  /\ Append(s, x) \in Seq(Range(Append(s, x)))
           /\ Len(Append(s, x)) = Len(s) + 1
           /\ \A i \in DOMAIN Append(s, x) :
                 IF i = Len(s) + 1 THEN Append(s, x)[i] = x ELSE i \in DOMAIN s /\ Append(s, x)[i] = s[i]
<1> DEFINE S == Range(s) \union {x}
<1>1. s \in Seq(S)
  BY DEF Range
<1> HIDE DEF S
<1>2. x \in S
  BY DEF S
<1>3. Append(s, x) \in Seq(S)
  BY <1>1, <1>2
<1>4. Append(s, x) \in Seq(Range(Append(s, x)))
  BY <1>3, SeqOfItsElements
<1> QED
  BY <1>1, <1>2, <1>4

LEMMA HeadAndTail ==
    ASSUME NEW s, s \in Seq(Range(s)), s # <<>>
    PROVE  /\ Tail(s) \in Seq(Range(Tail(s)))
           /\ Head(s) \in Range(s)
           /\ Range(Tail(s)) \subseteq Range(s)
           /\ Range(s) \subseteq Range(Tail(s)) \union {Head(s)}
<1> DEFINE S == Range(s)
<1>1. s \in Seq(S) /\ Len(s) \in Nat \ {0} /\ DOMAIN s = 1..Len(s)
  OBVIOUS
<1> HIDE DEF S
<1>2. Tail(s) \in Seq(S) /\ Len(Tail(s)) = Len(s) - 1
  BY <1>1
<1>3. \A i \in 1..Len(s) - 1 : Tail(s)[i] = s[i + 1]
  BY <1>1
<1>4. Head(s) = s[1]
  BY <1>1
<1>5. Tail(s) \in Seq(Range(Tail(s)))
  BY <1>2, SeqOfItsElements
<1>6. DOMAIN Tail(s) = 1..Len(s) - 1
  BY <1>1, <1>2
<1>7. Range(Tail(s)) \subseteq Range(s)
  BY <1>1, <1>3, <1>6 DEF Range
<1>8. ASSUME NEW i \in 1..Len(s) PROVE s[i] \in Range(Tail(s)) \union {Head(s)}
  <2>1. CASE i = 1
    BY <1>4, <2>1
  <2>2. CASE i # 1
    <3>1. i - 1 \in DOMAIN Tail(s) /\ Tail(s)[i - 1] = s[i]
      BY <1>1, <1>3, <1>6, <2>2
    <3> QED
      BY <3>1 DEF Range
  <2> QED
    BY <2>1, <2>2
<1>9. ASSUME NEW x \in Range(s) PROVE x \in Range(Tail(s)) \union {Head(s)}
  <2>1. PICK i \in 1..Len(s) : x = s[i]
    BY <1>1, Zenon DEF Range
  <2> QED
    BY <1>8, <2>1
<1>10. Head(s) \in Range(s)
  BY <1>1, <1>4 DEF Range
<1> QED
  BY <1>5, <1>7, <1>9, <1>10

\* A listing names each file of a finite set.
LEMMA ListingNamesAll ==
    ASSUME NEW s, IsFiniteSet(s)
    PROVE  Listing(s) \in Seq(s) /\ Range(Listing(s)) = s
<1> DEFINE n == Cardinality(s)
           Lists(q) == \A i, j \in DOMAIN q : i # j => q[i] # q[j]
<1>1. n \in Nat /\ IsFiniteSet(1..n) /\ Cardinality(1..n) = n
  BY FS_CardinalityType, FS_Interval
<1>2. PICK b \in Bijection(1..n, s) : TRUE
  BY FS_CountingElements, FS_CardinalityType DEF ExistsBijection
<1>3. b \in [1..n -> s] /\ Lists(b)
  <2>1. b \in [1..n -> s] /\ \A i, j \in 1..n : b[i] = b[j] => i = j
    BY Fun_BijectionProperties
  <2> QED
    BY <2>1
<1>4. Listing(s) \in [1..n -> s] /\ Lists(Listing(s))
  BY <1>3 DEF Listing
<1>5. Listing(s) \in Injection(1..n, s)
  BY <1>4, Fun_IsInj
<1>6. Listing(s) \in Surjection(1..n, s)
  BY <1>1, <1>5, FS_Injection
<1> QED
  BY <1>1, <1>4, <1>6, Fun_SurjectionProperties DEF Range

-----------------------------------------------------------------------------
(* The cache.                                                              *)

\* A model that a program is at is of a repository there is.
LEMMA SourceExists ==
    ASSUME StageIsSound, pc \in {"load", "fetch", "check"}
    PROVE  /\ Repo \in DOMAIN Published
           /\ Repo \in Local \/ Repo \in Remote
           /\ Model.max_seq_length \in Nat /\ Model.coreml_buckets \subseteq Nat
           /\ Model.dims \in Nat \union {None} /\ (Model.kind = "rerank" => Model.dims = None)
           /\ Model.kind \in {"embed", "rerank"}
BY FlagsAreSound DEF StageIsSound, Model, Source, Repo, Remote

\* `get` returns a file of a commit that was published, which is then in its
\* snapshot, and takes none out of one.
LEMMA GetIsSound ==
    ASSUME CacheIsSound, NEW r \in Remote, NEW f, NEW reachable \in BOOLEAN,
           cache' = GetInto(r, f, reachable), hub' = hub
    PROVE  /\ \/ Get(r, f, reachable) = 0
              \/ /\ Get(r, f, reachable) \in Commits(r) /\ f \in DOMAIN Published[r][Get(r, f, reachable)]
                 /\ f \in cache'[r].snaps[Get(r, f, reachable)]
           /\ CacheIsSound'
           /\ \A q \in Remote : \A d \in Commits(q) : cache[q].snaps[d] \subseteq cache'[q].snaps[d]
<1> USE DEF CacheIsSound, Commits
<1>0. 0 \notin Commits(r)
  BY PublishedIsSound DEF Remote
<1>1. CASE Cached(r, f)
  BY <1>0, <1>1 DEF Get, GetInto, Cached
<1>2. CASE ~Cached(r, f) /\ ~OnHub(r, f, reachable)
  BY <1>2 DEF Get, GetInto
<1>3. CASE ~Cached(r, f) /\ OnHub(r, f, reachable)
  <2> DEFINE new == [ref |-> hub[r], snaps |-> [cache[r].snaps EXCEPT ![hub[r]] = @ \union {f}]]
  <2>1. cache' = [cache EXCEPT ![r] = new]
    BY <1>3, Zenon DEF GetInto
  <2>2. hub[r] \in Commits(r) /\ f \in DOMAIN Published[r][hub[r]] /\ Get(r, f, reachable) = hub[r]
    BY <1>3 DEF OnHub, Get
  <2>3. new.ref = hub[r] /\ new.snaps = [c \in Commits(r) |-> new.snaps[c]]
    <3>1. new.snaps = [c \in Commits(r) |-> IF c = hub[r] THEN cache[r].snaps[c] \union {f} ELSE cache[r].snaps[c]]
      BY <2>2
    <3> QED
      BY <3>1
  <2>4. \A c \in Commits(r) : new.snaps[c] = IF c = hub[r] THEN cache[r].snaps[c] \union {f} ELSE cache[r].snaps[c]
    BY <2>2
  <2> HIDE DEF new
  <2>5. cache'[r] = new /\ \A q \in Remote : q # r => cache'[q] = cache[q]
    BY <2>1
  <2>6. cache' = [q \in Remote |-> cache'[q]]
    BY <2>1
  <2>7. f \in cache'[r].snaps[hub[r]]
    BY <2>2, <2>4, <2>5
  <2>8. ASSUME NEW q \in Remote
        PROVE  /\ cache'[q].ref = 0 \/ cache'[q].ref \in Commits(q)
               /\ cache'[q].snaps = [c \in Commits(q) |-> cache'[q].snaps[c]]
               /\ \A c \in Commits(q) : cache[q].snaps[c] \subseteq cache'[q].snaps[c]
                                        /\ cache'[q].snaps[c] \subseteq DOMAIN Published[q][c]
    <3>1. CASE q = r
      <4>1. new.ref \in Commits(r) /\ new.snaps = [c \in Commits(r) |-> new.snaps[c]]
        BY <2>2, <2>3
      <4>2. ASSUME NEW c \in Commits(r)
            PROVE  cache[r].snaps[c] \subseteq new.snaps[c] /\ new.snaps[c] \subseteq DOMAIN Published[r][c]
        <5>1. cache[r].snaps[c] \subseteq DOMAIN Published[r][c]
          OBVIOUS
        <5>2. CASE c = hub[r]
          <6>1. new.snaps[c] = cache[r].snaps[c] \union {f} /\ f \in DOMAIN Published[r][c]
            BY <2>2, <2>4, <5>2
          <6> QED
            BY <5>1, <6>1
        <5>3. CASE c # hub[r]
          BY <2>4, <5>1, <5>3
        <5> QED
          BY <5>2, <5>3
      <4> QED
        BY <2>5, <3>1, <4>1, <4>2
    <3>2. CASE q # r
      BY <2>5, <3>2
    <3> QED
      BY <3>1, <3>2
  <2> QED
    BY <2>2, <2>6, <2>7, <2>8
<1> QED
  BY <1>1, <1>2, <1>3

LEMMA CacheStep == SourceInv /\ [SourceNext]_sourceVars => CacheIsSound'
<1> SUFFICES ASSUME SourceInv, [SourceNext]_sourceVars PROVE CacheIsSound'
  OBVIOUS
<1> USE DEF SourceInv
<1>1. ASSUME NEW r \in Remote, Publish(r) PROVE CacheIsSound'
  BY <1>1, PublishedIsSound DEF Publish, CacheIsSound, Remote, Commits
<1>2. ASSUME NEW reachable \in BOOLEAN, Fetch(reachable) PROVE CacheIsSound'
  <2>1. Repo \in Remote
    BY <1>2, SourceExists DEF Fetch, StageIsSound
  <2> QED
    BY <1>2, <2>1, GetIsSound DEF Fetch, hubVars, Repo
<1>3. CASE UNCHANGED <<hub, cache>>
  BY <1>3 DEF CacheIsSound
<1> QED
  BY <1>1, <1>2, <1>3
     DEF SourceNext, Run, Begin, LoadCheckpoint, LoadCoreMl, LoadConverted, LoadBundle, Loads, Fails, Checked,
         Kill, Leave, hubVars, sourceVars

-----------------------------------------------------------------------------
(* The stages of a program.                                                *)

\* A program loads one model or two.
LEMMA ModelsAreSome ==
    ASSUME NEW s
    PROVE  Len(Models(s)) \in {1, 2} /\ DOMAIN Models(s) = 1..Len(Models(s))
<1>1. ASSUME NEW a, NEW b
      PROVE  /\ Len(<<a>>) = 1 /\ DOMAIN <<a>> = 1..1
             /\ Len(<<a, b>>) = 2 /\ DOMAIN <<a, b>> = 1..2
  OBVIOUS
<1>2. \E a, b : Models(s) = <<a>> \/ Models(s) = <<a, b>>
  BY Zenon DEF Models
<1> QED
  BY <1>1, <1>2, Zenon

LEMMA CheckpointFilesAreFive ==
    /\ CheckpointFiles \in Seq(Plan) /\ CheckpointFiles # <<>> /\ Head(CheckpointFiles) = Required(WEIGHTS)
    /\ Plan = {Required(WEIGHTS), Required(CONFIG), Required(TOKENIZER), Optional(POOLING), Optional(SENTENCE_CONFIG)}
BY DEF CheckpointFiles, Plan, Range

\* The files of a repository of bundles are those of its listing that are wanted.
LEMMA BundleFilesAreWanted ==
    ASSUME CacheIsSound, NEW r \in Remote, NEW prefer
    PROVE  LET files == BundleFiles(r, prefer)
               names == DOMAIN Published[r][hub[r]]
           IN /\ files \in Seq(Range(files))
              /\ \A e \in Range(files) : e.listed = hub[r] /\ e.required
              /\ \A f \in {g \in names : Wanted(g, prefer, names)} \union {CONFIG} :
                    \E e \in Range(files) : e.file = f
<1> DEFINE names == DOMAIN Published[r][hub[r]]
           wanted == {g \in names : Wanted(g, prefer, names)}
           listing == Append(Listing(wanted), CONFIG)
           entry(f) == [Required(f) EXCEPT !.listed = hub[r]]
           files == [i \in DOMAIN listing |-> entry(listing[i])]
<1>1. IsFiniteSet(names)
  BY PublishedIsSound DEF CacheIsSound, Commits, Remote
<1>2. IsFiniteSet(wanted)
  BY <1>1, FS_Subset
<1>3. Listing(wanted) \in Seq(wanted) /\ Range(Listing(wanted)) = wanted
  BY <1>2, ListingNamesAll
<1>4. BundleFiles(r, prefer) = files
  BY DEF BundleFiles
<1> HIDE DEF names, wanted
<1>5. /\ listing \in Seq(wanted \union {CONFIG})
      /\ DOMAIN listing = 1..Len(Listing(wanted)) + 1 /\ Len(Listing(wanted)) \in Nat
      /\ listing[Len(Listing(wanted)) + 1] = CONFIG
      /\ \A i \in 1..Len(Listing(wanted)) : listing[i] = Listing(wanted)[i]
  BY <1>3
<1>6. DOMAIN Listing(wanted) = 1..Len(Listing(wanted))
  BY <1>3
<1> DEFINE n == Len(Listing(wanted))
<1>7. ASSUME NEW f PROVE entry(f).listed = hub[r] /\ entry(f).required /\ entry(f).file = f
  BY DEF Required
<1> HIDE DEF entry, listing, n
<1>8. DOMAIN files = 1..n + 1 /\ n + 1 \in Nat /\ \A i \in 1..n + 1 : files[i] = entry(listing[i])
  BY <1>5 DEF n
<1> HIDE DEF files
<1>9. files \in Seq(Range(files))
  <2>1. files = [i \in 1..n + 1 |-> files[i]]
    BY <1>5 DEF files, n
  <2>2. \A i \in 1..n + 1 : files[i] \in Range(files)
    BY <1>8 DEF Range
  <2>3. files \in [1..n + 1 -> Range(files)]
    BY <2>1, <2>2
  <2> QED
    BY <1>8, <2>3
<1>10. ASSUME NEW e \in Range(files) PROVE e.listed = hub[r] /\ e.required
  <2>1. PICK i \in 1..n + 1 : e = files[i]
    BY <1>8 DEF Range
  <2> QED
    BY <1>7, <1>8, <2>1
<1>11. ASSUME NEW f \in wanted \union {CONFIG} PROVE \E e \in Range(files) : e.file = f
  <2>1. PICK i \in 1..n + 1 : listing[i] = f
    <3>1. CASE f = CONFIG
      BY <1>5, <3>1 DEF n
    <3>2. CASE f \in wanted
      <4>1. PICK i \in 1..n : Listing(wanted)[i] = f
        BY <1>3, <1>6, <3>2 DEF Range, n
      <4> QED
        BY <1>5, <4>1 DEF n
    <3> QED
      BY <3>1, <3>2
  <2>2. files[i] \in Range(files) /\ files[i] = entry(f)
    BY <1>8, <2>1 DEF Range
  <2> QED
    BY <1>7, <2>2
<1> QED
  BY <1>4, <1>9, <1>10, <1>11 DEF wanted, names

\* From one model to the next, or to the end.
LEMMA OneModelOn ==
    ASSUME /\ StageIsSound /\ pc # "idle" /\ at \in DOMAIN Models(start) /\ UNCHANGED <<machine, start>>
           /\ loaded' \in Seq(Range(loaded')) /\ Len(loaded') = at /\ ~lost'
           /\ IF at < Len(Models(start)) THEN at' = at + 1 /\ pc' = "load" ELSE at' = at /\ pc' = "up"
    PROVE  StageIsSound'
<1>1. DOMAIN Models(start) = 1..Len(Models(start)) /\ Len(Models(start)) \in Nat
  BY ModelsAreSome
<1>2. machine' \in Machines /\ start' \in machine' /\ Models(start') = Models(start)
  BY DEF StageIsSound
<1>3. CASE at < Len(Models(start))
  <2>1. at' \in DOMAIN Models(start) /\ Len(loaded') = at' - 1 /\ pc' = "load"
    BY <1>1, <1>3
  <2> QED
    BY <1>2, <2>1 DEF StageIsSound
<1>4. CASE ~(at < Len(Models(start)))
  <2>1. Len(loaded') = Len(Models(start)) /\ pc' = "up"
    BY <1>1, <1>4
  <2> QED
    BY <1>2, <2>1 DEF StageIsSound
<1> QED
  BY <1>3, <1>4

\* Where a program is with one model loaded.
LEMMA LoadsStage ==
    ASSUME StageIsSound, pc = "fetch", NEW info, NEW clean, NEW fresh, Loads(info, clean, fresh)
    PROVE  StageIsSound'
<1>1. /\ Len(loaded) = at - 1 /\ at \in DOMAIN Models(start)
      /\ loaded' = Append(loaded, [info |-> info, clean |-> clean])
      /\ ~lost' /\ UNCHANGED <<machine, start>>
  BY DEF Loads, StageIsSound, hubVars
<1>2. at \in Nat /\ DOMAIN Models(start) = 1..Len(Models(start)) /\ Len(Models(start)) \in Nat
  BY <1>1, ModelsAreSome
<1>3. loaded' \in Seq(Range(loaded')) /\ Len(loaded') = at
  BY <1>1, <1>2, OneMore DEF StageIsSound
<1>4. CASE fresh /\ Model.kind = "embed"
  <2>1. pc' = "check" /\ at' = at /\ todo' = IF Repo \in Local THEN <<>> ELSE CheckpointFiles
    BY <1>4 DEF Loads, Repo
  <2>2. todo' \in Seq(ToDo')
    <3>1. CASE Repo \in Local
      BY <2>1, <3>1 DEF ToDo, Range
    <3>2. CASE Repo \notin Local
      BY <2>1, <3>2, CheckpointFilesAreFive DEF ToDo, Plan
    <3> QED
      BY <3>1, <3>2
  <2>3. Repo' = Repo
    BY <1>1, <2>1 DEF Repo, Source, Model
  <2> QED
    BY <1>1, <1>3, <2>1, <2>2, <2>3 DEF StageIsSound
<1>5. CASE ~(fresh /\ Model.kind = "embed")
  <2>1. IF at < Len(Models(start)) THEN at' = at + 1 /\ pc' = "load" ELSE at' = at /\ pc' = "up"
    BY <1>5 DEF Loads
  <2> QED
    BY <1>1, <1>2, <1>3, <2>1, OneModelOn
<1> QED
  BY <1>4, <1>5

LEMMA StageStep == SourceInv /\ [SourceNext]_sourceVars => StageIsSound'
<1> SUFFICES ASSUME SourceInv, [SourceNext]_sourceVars PROVE StageIsSound'
  OBVIOUS
<1>0. StageIsSound
  BY DEF SourceInv
<1>e. <<>> \in Seq(Range(<<>>)) /\ Len(<<>>) = 0
  BY DEF Range
<1>o. ASSUME NEW code, Over(code), UNCHANGED <<machine, start>>, pc # "idle" PROVE StageIsSound'
  BY <1>0, <1>o, <1>e DEF Over, StageIsSound
<1>1. ASSUME NEW r \in Remote, Publish(r) PROVE StageIsSound'
  BY <1>0, <1>1 DEF Publish, StageIsSound, fetchVars, ToDo, Repo, Source, Model
<1>2. ASSUME NEW s \in machine, Run(s) PROVE StageIsSound'
  <2>1. loaded = <<>> /\ machine' = machine /\ start' = s /\ ~lost'
    BY <1>0, <1>2 DEF Run, StageIsSound, hubVars
  <2>2. CASE at' = 0 /\ Over(3)
    BY <1>0, <1>e, <2>1, <2>2 DEF Over, StageIsSound
  <2>3. CASE at' = 1 /\ pc' = "load" /\ UNCHANGED loaded
    BY <1>0, <1>e, <2>1, <2>3, ModelsAreSome DEF StageIsSound
  <2> QED
    BY <1>2, <2>2, <2>3 DEF Run
<1>3. ASSUME NEW reachable \in BOOLEAN, Begin(reachable) PROVE StageIsSound'
  <2>1. pc = "load" /\ UNCHANGED <<machine, start, at, lost>>
    BY <1>3 DEF Begin, hubVars
  <2>2. Repo' = Repo
    BY <2>1 DEF Repo, Source, Model
  <2>3. CASE \E code : Over(code)
    BY <1>o, <2>1, <2>3
  <2>4. CASE pc' = "fetch" /\ todo' = <<>> /\ UNCHANGED loaded
    BY <1>0, <1>e, <2>1, <2>4 DEF StageIsSound, ToDo
  <2>5. CASE pc' = "fetch" /\ Repo \notin Local /\ UNCHANGED loaded
             /\ todo' = IF Source.kind = "bundle" THEN BundleFiles(Repo, Model.coreml_prefer) ELSE CheckpointFiles
    <3>1. Repo \in Remote
      BY <1>0, <2>1, <2>5, SourceExists
    <3>2. todo' \in Seq(ToDo')
      BY <2>5, <3>1, CheckpointFilesAreFive, BundleFilesAreWanted DEF ToDo, Plan, SourceInv
    <3> QED
      BY <1>0, <2>1, <2>2, <2>5, <3>2 DEF StageIsSound
  <2> QED
    BY <1>3, <2>3, <2>4, <2>5 DEF Begin, Repo
<1>4. ASSUME NEW reachable \in BOOLEAN, Fetch(reachable) PROVE StageIsSound'
  <2>1. pc \in {"fetch", "check"} /\ todo # <<>> /\ UNCHANGED <<machine, start, at>>
    BY <1>4 DEF Fetch, hubVars
  <2>2. Repo' = Repo
    BY <2>1 DEF Repo, Source, Model
  <2>3. CASE \E code : Over(code)
    BY <1>o, <2>1, <2>3
  <2>4. CASE todo' \in {<<>>, Tail(todo)} /\ UNCHANGED <<pc, loaded>> /\ (pc = "check" => ~lost')
    <3>1. todo' \in Seq(ToDo')
      BY <1>0, <1>e, <2>1, <2>4, HeadAndTail DEF StageIsSound, ToDo
    <3>2. Repo \notin Local
      BY <1>0, <2>1 DEF StageIsSound
    <3> QED
      BY <1>0, <2>1, <2>2, <2>4, <3>1, <3>2 DEF StageIsSound
  <2>5. \/ \E code : Over(code)
        \/ todo' \in {<<>>, Tail(todo)} /\ UNCHANGED <<pc, loaded>> /\ (pc = "check" => ~lost')
    <3>1. pc = "check" => ~lost
      BY <1>0 DEF StageIsSound
    <3> QED
      BY <1>4, <3>1 DEF Fetch
  <2> QED
    BY <2>3, <2>4, <2>5
<1>5. ASSUME pc = "fetch", UNCHANGED <<machine, start>>,
             \/ \E code : Over(code)
             \/ \E info, clean, fresh : Loads(info, clean, fresh)
      PROVE  StageIsSound'
  BY <1>0, <1>o, <1>5, LoadsStage
<1>6. CASE LoadCheckpoint
  BY <1>5, <1>6 DEF LoadCheckpoint, Fails, Loads, hubVars
<1>7. CASE LoadCoreMl
  BY <1>5, <1>7 DEF LoadCoreMl, LoadBundle, Loads, hubVars
<1>8. CASE LoadConverted
  BY <1>5, <1>8 DEF LoadConverted, LoadBundle, Fails, Loads, hubVars
<1>9. CASE Checked
  <2>1. /\ pc = "check" /\ UNCHANGED <<machine, start, loaded, lost>>
        /\ IF at < Len(Models(start)) THEN at' = at + 1 /\ pc' = "load" ELSE at' = at /\ pc' = "up"
    BY <1>9 DEF Checked, hubVars
  <2>2. at \in DOMAIN Models(start) /\ ~lost /\ Len(loaded) = at /\ loaded \in Seq(Range(loaded))
    BY <1>0, <2>1 DEF StageIsSound
  <2>3. loaded' \in Seq(Range(loaded')) /\ Len(loaded') = at /\ ~lost'
    BY <2>1, <2>2
  <2> QED
    BY <1>0, <2>1, <2>2, <2>3, OneModelOn
<1>10. CASE Kill
  BY <1>o, <1>10 DEF Kill, hubVars
<1>11. CASE Leave
  BY <1>0, <1>11, <1>e DEF Leave, StageIsSound, hubVars
<1>12. CASE UNCHANGED sourceVars
  BY <1>0, <1>12 DEF sourceVars, hubVars, fetchVars, StageIsSound, ToDo, Repo, Source, Model
<1> QED
  BY <1>1, <1>2, <1>3, <1>4, <1>6, <1>7, <1>8, <1>9, <1>10, <1>11, <1>12 DEF SourceNext

-----------------------------------------------------------------------------
(* What was fetched.                                                       *)

\* A file that `get` does not return is not cached, nor to be had.
LEMMA NotToBeHad ==
    ASSUME CacheIsSound, NEW r \in Remote, NEW f, NEW reachable \in BOOLEAN, Get(r, f, reachable) = 0
    PROVE  ~reachable \/ f \notin DOMAIN Published[r][hub[r]]
<1>1. hub[r] # 0
  BY PublishedIsSound DEF CacheIsSound, Commits, Remote
<1> QED
  BY <1>1 DEF Get, OnHub, Cached

LEMMA ListedIsFetched ==
    ASSUME SourceInv, pc = "fetch", pc' = "fetch", NEW reachable \in BOOLEAN, Fetch(reachable),
           Repo \in Remote, Source.kind = "bundle"
    PROVE  OfOneListing'
<1> DEFINE e == Head(todo)
           c == Get(Repo, e.file, reachable)
           names(l) == DOMAIN Published[Repo][l]
           wanted(l) == {f \in names(l) : Wanted(f, Model.coreml_prefer, names(l))} \union {CONFIG}
<1>1. OfOneListing
  BY DEF SourceInv, FetchIsSound, Remote
<1>2. PICK l \in Commits(Repo) :
         /\ \A x \in ToDo : x.listed = l /\ x.required
         /\ \A f \in wanted(l) : f \in DOMAIN got \/ \E x \in ToDo : x.file = f
         /\ lost \/ \A f \in DOMAIN got : got[f] = l
  BY <1>1, Zenon DEF OfOneListing
<1>3. l # None
  BY PublishedIsSound, NoneIsNoValue DEF Commits, Remote
<1>4. Head(todo) \in ToDo /\ ToDo \subseteq Range(Tail(todo)) \union {Head(todo)} /\ Range(Tail(todo)) \subseteq ToDo
  BY HeadAndTail DEF SourceInv, StageIsSound, ToDo, Fetch
<1>5. e.listed = l /\ e.required
  BY <1>2, <1>4
<1>6. /\ c # 0 /\ todo' = Tail(todo) /\ got' = With(got, e.file, c)
      /\ lost \/ c # l => lost'
      /\ UNCHANGED <<start, at>>
  BY <1>3, <1>5 DEF Fetch, Over, Repo
<1>7. ToDo' = Range(Tail(todo))
  BY <1>6 DEF ToDo
<1>8. \A x \in ToDo' : x.listed = l /\ x.required
  BY <1>2, <1>4, <1>7
<1>9. \A f \in wanted(l) : f \in DOMAIN got' \/ \E x \in ToDo' : x.file = f
  <2> HIDE DEF wanted
  <2>1. DOMAIN got' = DOMAIN got \union {e.file}
    BY <1>6 DEF With
  <2> QED
    BY <1>2, <1>4, <1>7, <2>1
<1>10. lost' \/ \A f \in DOMAIN got' : got'[f] = l
  BY <1>2, <1>6 DEF With
<1>11. Repo' = Repo /\ Model' = Model
  BY <1>6 DEF Repo, Source, Model
<1> QED
  BY <1>8, <1>9, <1>10, <1>11, Zenon DEF OfOneListing

LEMMA PlannedIsFetched ==
    ASSUME SourceInv, pc = "fetch", pc' = "fetch", NEW reachable \in BOOLEAN, Fetch(reachable),
           Repo \in Remote, Source.kind # "bundle"
    PROVE  WeightsFirst'
<1> DEFINE e == Head(todo)
           c == Get(Repo, e.file, reachable)
<1>1. WeightsFirst
  BY DEF SourceInv, FetchIsSound, Remote
<1>2. Head(todo) \in ToDo /\ ToDo \subseteq Range(Tail(todo)) \union {Head(todo)} /\ Range(Tail(todo)) \subseteq ToDo
  BY HeadAndTail DEF SourceInv, StageIsSound, ToDo, Fetch
<1>3. /\ ~(c = 0 /\ e.required) /\ todo' = Tail(todo)
      /\ got' = IF c = 0 THEN got ELSE With(got, e.file, c)
      /\ lost => lost'
      /\ c = 0 /\ ~(reachable /\ hub[Repo] = got[WEIGHTS]) => lost'
      /\ UNCHANGED <<start, at>>
  BY DEF Fetch, Over, Repo
<1>4. ToDo' = Range(Tail(todo))
  BY <1>3 DEF ToDo
<1>5. Repo' = Repo
  BY <1>3 DEF Repo, Source, Model
<1>6. CASE todo = CheckpointFiles
  <2>1. e = Required(WEIGHTS) /\ e.required /\ e.file = WEIGHTS
    BY <1>6, CheckpointFilesAreFive DEF Required
  <2>2. WEIGHTS \in DOMAIN got'
    BY <1>3, <2>1 DEF With
  <2>3. \A x \in ToDo' : x \in Plan /\ x.file # WEIGHTS
    <3>1. Tail(todo) = <<Required(CONFIG), Required(TOKENIZER), Optional(POOLING), Optional(SENTENCE_CONFIG)>>
      BY <1>6 DEF CheckpointFiles
    <3>2. Range(Tail(todo)) = {Required(CONFIG), Required(TOKENIZER), Optional(POOLING), Optional(SENTENCE_CONFIG)}
      <4>1. \A x, y, z, w : Range(<<x, y, z, w>>) = {x, y, z, w}
        BY DEF Range
      <4>2. Range(<<Required(CONFIG), Required(TOKENIZER), Optional(POOLING), Optional(SENTENCE_CONFIG)>>)
              = {Required(CONFIG), Required(TOKENIZER), Optional(POOLING), Optional(SENTENCE_CONFIG)}
        BY <4>1
      <4> QED
        BY <3>1, <4>2
    <3> QED
      BY <1>4, <3>2, CheckpointFilesAreFive
         DEF Required, Optional, WEIGHTS, CONFIG, TOKENIZER, POOLING, SENTENCE_CONFIG
  <2>4. \A x \in Plan : x \in ToDo' \/ x.file \in DOMAIN got'
    BY <1>2, <1>4, <1>6, <2>1, <2>2 DEF ToDo, Plan
  <2> QED
    BY <2>2, <2>3, <2>4 DEF WeightsFirst
<1>7. CASE /\ WEIGHTS \in DOMAIN got
           /\ \A x \in ToDo : x \in Plan /\ x.file # WEIGHTS
           /\ \A x \in Plan : \/ x \in ToDo
                              \/ x.file \in DOMAIN got
                              \/ ~x.required /\ (lost \/ x.file \notin DOMAIN Published[Repo][got[WEIGHTS]])
  <2>1. /\ DOMAIN got \subseteq DOMAIN got' /\ got'[WEIGHTS] = got[WEIGHTS]
        /\ c # 0 => e.file \in DOMAIN got'
    BY <1>2, <1>3, <1>7 DEF With
  <2>2. \A x \in ToDo' : x \in Plan /\ x.file # WEIGHTS
    BY <1>2, <1>4, <1>7
  <2>3. ASSUME NEW x \in Plan
        PROVE  \/ x \in ToDo'
               \/ x.file \in DOMAIN got'
               \/ ~x.required /\ (lost' \/ x.file \notin DOMAIN Published[Repo][got'[WEIGHTS]])
    <3>1. CASE x = e
      <4>1. CASE c = 0
        <5>1. ~reachable \/ e.file \notin DOMAIN Published[Repo][hub[Repo]]
          BY <4>1, NotToBeHad DEF SourceInv
        <5> QED
          BY <1>3, <2>1, <3>1, <4>1, <5>1
      <4>2. CASE c # 0
        BY <2>1, <3>1, <4>2
      <4> QED
        BY <4>1, <4>2
    <3>2. CASE x # e
      BY <1>2, <1>3, <1>4, <1>7, <2>1, <3>2
    <3> QED
      BY <3>1, <3>2
  <2> QED
    BY <1>5, <1>7, <2>1, <2>2, <2>3 DEF WeightsFirst
<1> QED
  BY <1>1, <1>6, <1>7 DEF WeightsFirst

LEMMA FetchStep == SourceInv /\ [SourceNext]_sourceVars => FetchIsSound'
<1> SUFFICES ASSUME SourceInv, [SourceNext]_sourceVars, pc' = "fetch" PROVE FetchIsSound'
  BY DEF FetchIsSound
<1>0. FetchIsSound /\ CacheIsSound /\ StageIsSound
  BY DEF SourceInv
<1>1. CASE UNCHANGED <<cache, start, pc, at, fetchVars>>
  <2>1. Repo' = Repo /\ Source' = Source /\ Model' = Model /\ ToDo' = ToDo
    BY <1>1 DEF Repo, Source, Model, ToDo, fetchVars
  <2>2. OfOneListing' = OfOneListing /\ WeightsFirst' = WeightsFirst
    BY <1>1, <2>1 DEF OfOneListing, WeightsFirst, fetchVars
  <2> QED
    BY <1>0, <1>1, <2>1, <2>2 DEF FetchIsSound, fetchVars
<1>2. ASSUME NEW reachable \in BOOLEAN, Begin(reachable) PROVE FetchIsSound'
  <2>1. pc = "load" /\ ~lost' /\ UNCHANGED <<start, at, hub, cache>>
    BY <1>0, <1>2 DEF Begin, hubVars, StageIsSound
  <2>2. Repo' = Repo /\ Source' = Source /\ Model' = Model
    BY <2>1 DEF Repo, Source, Model
  <2>5. RefusedEarly(Model) = 0
    BY <1>2 DEF Begin, Over
  <2>3. CASE Repo \in Local
    <3>1. got' = [f \in DOMAIN Published[Repo][1] |-> 1]
      BY <1>2, <2>3 DEF Begin, Over, Repo
    <3> QED
      BY <2>1, <2>2, <2>3, <2>5, <3>1 DEF FetchIsSound
  <2>4. CASE Repo \notin Local
    <3>0. Repo \in Remote
      BY <1>0, <2>1, <2>4, SourceExists
    <3>1. /\ got' = <<>>
          /\ todo' = IF Source.kind = "bundle" THEN BundleFiles(Repo, Model.coreml_prefer) ELSE CheckpointFiles
      BY <1>2, <2>4 DEF Begin, Over, Repo
    <3>2. DOMAIN got' = {}
      BY <3>1
    <3>3. CASE Source.kind = "bundle"
      <4>1. hub[Repo] \in Commits(Repo)
        BY <1>0, <3>0 DEF CacheIsSound
      <4>2. ToDo' = Range(BundleFiles(Repo, Model.coreml_prefer))
        BY <3>1, <3>3 DEF ToDo
      <4>3. OfOneListing'
        <5> DEFINE names == DOMAIN Published[Repo][hub[Repo]]
        <5>1. /\ \A e \in ToDo' : e.listed = hub[Repo] /\ e.required
              /\ \A f \in {g \in names : Wanted(g, Model.coreml_prefer, names)} \union {CONFIG} :
                    \E e \in ToDo' : e.file = f
          BY <1>0, <3>0, <4>2, BundleFilesAreWanted, Zenon
        <5> QED
          BY <2>2, <3>2, <4>1, <5>1, Zenon DEF OfOneListing
      <4> QED
        BY <2>2, <2>4, <2>5, <3>2, <3>3, <4>3 DEF FetchIsSound
    <3>4. CASE Source.kind # "bundle"
      BY <2>1, <2>2, <2>4, <2>5, <3>1, <3>2, <3>4 DEF FetchIsSound, WeightsFirst
    <3> QED
      BY <3>3, <3>4
  <2> QED
    BY <2>3, <2>4
<1>3. ASSUME NEW reachable \in BOOLEAN, Fetch(reachable) PROVE FetchIsSound'
  <2> DEFINE c == Get(Repo, Head(todo).file, reachable)
  <2>1. /\ pc = "fetch" /\ todo # <<>> /\ UNCHANGED <<start, at, hub>>
        /\ cache' = GetInto(Repo, Head(todo).file, reachable)
        /\ got' = IF c = 0 THEN got ELSE With(got, Head(todo).file, c)
    BY <1>3 DEF Fetch, Over, Repo, hubVars
  <2>2. Repo' = Repo /\ Source' = Source /\ Model' = Model
    BY <2>1 DEF Repo, Source, Model
  <2>3. Repo \in Remote /\ Repo \notin Local
    BY <1>0, <2>1, SourceExists DEF StageIsSound
  <2>4. \A f \in DOMAIN got : got[f] \in Commits(Repo) /\ f \in cache[Repo].snaps[got[f]]
    BY <1>0, <2>1, <2>3 DEF FetchIsSound
  <2>5. ASSUME NEW f \in DOMAIN got'
        PROVE  got'[f] \in Commits(Repo) /\ f \in cache'[Repo].snaps[got'[f]]
    <3>1. \/ c = 0
          \/ c \in Commits(Repo) /\ Head(todo).file \in cache'[Repo].snaps[c]
      BY <1>0, <2>1, <2>3, GetIsSound
    <3>2. \A d \in Commits(Repo) : cache[Repo].snaps[d] \subseteq cache'[Repo].snaps[d]
      BY <1>0, <2>1, <2>3, GetIsSound
    <3>3. \/ f \in DOMAIN got /\ got'[f] = got[f]
          \/ c # 0 /\ f = Head(todo).file /\ got'[f] = c
      BY <2>1 DEF With
    <3> QED
      BY <2>4, <3>1, <3>2, <3>3
  <2>6. IF Source.kind = "bundle" THEN OfOneListing' ELSE WeightsFirst'
    BY <1>3, <2>1, <2>3, ListedIsFetched, PlannedIsFetched
  <2> QED
    BY <1>0, <2>1, <2>2, <2>3, <2>5, <2>6 DEF FetchIsSound
<1>4. CASE pc' # "fetch"
  BY <1>4
<1>5. ASSUME NEW r \in Remote, Publish(r) PROVE UNCHANGED <<cache, start, pc, at, fetchVars>>
  BY <1>5 DEF Publish
<1>6. CASE UNCHANGED sourceVars
  BY <1>1, <1>6 DEF sourceVars
<1>7. ASSUME NEW s \in machine, Run(s) PROVE FALSE
  BY <1>7 DEF Run, Over
<1>8. ASSUME LoadCheckpoint \/ LoadCoreMl \/ LoadConverted \/ Checked \/ Kill \/ Leave PROVE FALSE
  BY <1>8 DEF LoadCheckpoint, LoadCoreMl, LoadConverted, LoadBundle, Loads, Fails, Checked, Kill, Leave, Over
<1> QED
  BY <1>1, <1>2, <1>3, <1>5, <1>6, <1>7, <1>8 DEF SourceNext

-----------------------------------------------------------------------------
(* What is loaded.                                                         *)

LEMMA CommitsAreNumbers ==
    ASSUME NEW r \in DOMAIN Published
    PROVE  /\ Commits(r) \subseteq Nat \ {0} /\ 1 \in Commits(r)
           /\ \A c \in Commits(r) : CONFIG \in DOMAIN Published[r][c] =>
                Published[r][c][CONFIG].hidden \in Nat /\ Published[r][c][CONFIG].positions \in Nat
BY PublishedIsSound DEF Commits

LEMMA NamesDiffer ==
    /\ WEIGHTS \notin Metadata /\ COREML_HEAD_FILE \notin Metadata \union {WEIGHTS}
    /\ Metadata = {CONFIG, TOKENIZER, POOLING, SENTENCE_CONFIG}
    /\ CONFIG \notin {TOKENIZER, POOLING, SENTENCE_CONFIG} /\ TOKENIZER \notin {POOLING, SENTENCE_CONFIG}
    /\ POOLING # SENTENCE_CONFIG
    /\ (Metadata \union {WEIGHTS}) \intersect DOMAIN Bundles = {}
BY BundlesAreSound DEF Metadata, WEIGHTS, CONFIG, TOKENIZER, POOLING, SENTENCE_CONFIG, COREML_HEAD_FILE

\* The files of a checkpoint that was fetched: the configuration is of the same
\* commit as the weights, and the rest too when they are clean.
LEMMA CheckpointIsOfACommit ==
    ASSUME SourceInv, pc = "fetch", todo = <<>>, Source.kind # "bundle",
           {WEIGHTS, CONFIG, TOKENIZER} \subseteq DOMAIN CheckpointHere
    PROVE  /\ From(WEIGHTS) \in Commits(Repo)
           /\ {WEIGHTS, CONFIG} \subseteq DOMAIN Published[Repo][From(WEIGHTS)]
           /\ CheckpointHere[WEIGHTS] = Published[Repo][From(WEIGHTS)][WEIGHTS]
           /\ AreOf(CheckpointHere, Clean, Published[Repo][From(WEIGHTS)])
<1> DEFINE said == Published[Repo][From(WEIGHTS)]
           beside == Directory(Repo, From(WEIGHTS))
<1>0. CacheIsSound /\ StageIsSound /\ FetchIsSound
  BY DEF SourceInv
<1>1. Repo \in DOMAIN Published
  BY <1>0, SourceExists
<1>2. DOMAIN CheckpointHere = (DOMAIN got \ {CONFIG}) \union ({CONFIG} \intersect DOMAIN beside)
  BY DEF CheckpointHere, Repo
<1>3. CONFIG \in DOMAIN beside /\ CheckpointHere[CONFIG] = beside[CONFIG]
  <2>1. CONFIG \in DOMAIN beside
    BY <1>2
  <2> QED
    BY <1>2, <2>1 DEF CheckpointHere, Repo
<1>4. \A f \in DOMAIN got \ {CONFIG} : CheckpointHere[f] = Published[Repo][got[f]][f]
  BY DEF CheckpointHere, Repo
<1>5. WEIGHTS \in DOMAIN got /\ WEIGHTS # CONFIG
  BY <1>2, NamesDiffer
<1>6. CASE Repo \in Local
  <2>1. From(WEIGHTS) = 1 /\ got = [f \in DOMAIN Published[Repo][1] |-> 1]
    BY <1>0, <1>6 DEF From, Repo, FetchIsSound
  <2>2. 1 \in Commits(Repo)
    BY <1>1, CommitsAreNumbers
  <2>3. DOMAIN beside = DOMAIN said /\ \A f \in DOMAIN said : beside[f] = said[f]
    BY <1>6, <2>1 DEF Directory
  <2>4. DOMAIN got = DOMAIN said /\ \A f \in DOMAIN said : got[f] = 1
    BY <2>1
  <2>5. CONFIG \in DOMAIN said /\ CheckpointHere[CONFIG] = said[CONFIG]
    BY <1>3, <2>3
  <2>6. DOMAIN CheckpointHere = DOMAIN said
    BY <1>2, <2>3, <2>4, <2>5
  <2>7. \A f \in DOMAIN said : CheckpointHere[f] = said[f]
    BY <1>4, <2>1, <2>4, <2>5
  <2> QED
    BY <1>5, <2>1, <2>2, <2>4, <2>5, <2>6, <2>7 DEF AreOf
<1>7. CASE Repo \notin Local
  <2>1. Repo \in Remote /\ From(WEIGHTS) = got[WEIGHTS]
    BY <1>1, <1>7 DEF From, Repo, Remote
  <2>2. \A f \in DOMAIN got : got[f] \in Commits(Repo) /\ f \in cache[Repo].snaps[got[f]]
    BY <1>0, <1>7 DEF FetchIsSound
  <2>3. \A c \in Commits(Repo) : cache[Repo].snaps[c] \subseteq DOMAIN Published[Repo][c]
    BY <1>0, <2>1 DEF CacheIsSound
  <2>4. From(WEIGHTS) \in Commits(Repo) /\ WEIGHTS \in DOMAIN said
    BY <1>5, <2>1, <2>2, <2>3
  <2>5. CONFIG \in DOMAIN said /\ beside[CONFIG] = said[CONFIG]
    BY <1>3, <1>7, <2>3, <2>4 DEF Directory
  <2>6. ASSUME Clean, NEW f \in {TOKENIZER, POOLING, SENTENCE_CONFIG}
        PROVE  /\ f \in DOMAIN CheckpointHere <=> f \in DOMAIN said
               /\ f \in DOMAIN said => CheckpointHere[f] = said[f]
    <3>1. ~lost /\ \A g \in DOMAIN got : got[g] = From(WEIGHTS)
      BY <1>5, <2>1, <2>6 DEF Clean
    <3>2. f \in DOMAIN CheckpointHere <=> f \in DOMAIN got
      BY <1>2, NamesDiffer
    <3>3. CASE f \in DOMAIN got
      BY <1>4, <2>2, <2>3, <2>4, <3>1, <3>2, <3>3, NamesDiffer
    <3>4. CASE f \notin DOMAIN got
      <4>1. WeightsFirst /\ todo # CheckpointFiles
        BY <1>0, <1>7, CheckpointFilesAreFive DEF FetchIsSound
      <4>2. \A e \in Plan : e.file \in DOMAIN got \/ e.file \notin DOMAIN said
        BY <2>1, <3>1, <4>1 DEF WeightsFirst, ToDo, Range
      <4>3. \E e \in Plan : e.file = f
        BY CheckpointFilesAreFive DEF Required, Optional
      <4> QED
        BY <3>2, <3>4, <4>2, <4>3
    <3> QED
      BY <3>3, <3>4
  <2>7. AreOf(CheckpointHere, Clean, said)
    BY <1>3, <2>5, <2>6, NamesDiffer DEF AreOf
  <2> QED
    BY <1>4, <1>5, <2>1, <2>4, <2>5, <2>7
<1> QED
  BY <1>6, <1>7

\* The files of a directory of bundles are all of the commit of its configuration.
LEMMA BundleIsOfACommit ==
    ASSUME SourceInv, pc = "fetch", todo = <<>>, Source.kind = "bundle",
           CONFIG \in DOMAIN BundleHere.files
    PROVE  LET said == Published[Repo][From(CONFIG)]
           IN /\ From(CONFIG) \in Commits(Repo)
              /\ AreOf(BundleHere.files, BundleHere.clean, said)
              /\ BundleHere.weights \subseteq MadeOf(said)
              /\ BundleHere.buckets # {} => BundleHere.weights # {}
              /\ BundleHere.buckets \subseteq Nat
<1> DEFINE said == Published[Repo][From(CONFIG)]
           files == Directory(Repo, From(CONFIG))
<1>0. CacheIsSound /\ StageIsSound /\ FetchIsSound
  BY DEF SourceInv
<1>1. Repo \in DOMAIN Published
  BY <1>0, SourceExists
<1>2. /\ BundleHere.files = files /\ BundleHere.clean = Clean
      /\ BundleHere.buckets = UNION {Bundles[f].seqs : f \in BundlesIn(files)}
      /\ BundleHere.weights = {files[f] : f \in BundlesIn(files)}
  BY DEF BundleHere, Repo
<1>3. /\ From(CONFIG) \in Commits(Repo)
      /\ DOMAIN files \subseteq DOMAIN said
      /\ \A f \in DOMAIN files : files[f] = said[f]
      /\ Clean => \A f \in Metadata \ {CONFIG} : f \in DOMAIN said => f \in DOMAIN files
  <2>1. CASE Repo \in Local
    <3>1. From(CONFIG) = 1 /\ 1 \in Commits(Repo)
      BY <1>1, <2>1, CommitsAreNumbers DEF From, Repo
    <3> QED
      BY <2>1, <3>1 DEF Directory
  <2>2. CASE Repo \notin Local
    <3>1. Repo \in Remote /\ From(CONFIG) = got[CONFIG]
      BY <1>1, <2>2 DEF From, Repo, Remote
    <3>2. \A f \in DOMAIN got : got[f] \in Commits(Repo) /\ f \in cache[Repo].snaps[got[f]]
      BY <1>0, <2>2 DEF FetchIsSound
    <3>3. \A c \in Commits(Repo) : cache[Repo].snaps[c] \subseteq DOMAIN Published[Repo][c]
      BY <1>0, <3>1 DEF CacheIsSound
    <3>4. OfOneListing
      BY <1>0, <2>2 DEF FetchIsSound
    <3>5. PICK l \in Commits(Repo) :
             /\ \A f \in {g \in DOMAIN Published[Repo][l] : Wanted(g, Model.coreml_prefer, DOMAIN Published[Repo][l])}
                         \union {CONFIG} : f \in DOMAIN got
             /\ lost \/ \A f \in DOMAIN got : got[f] = l
      BY <3>4 DEF OfOneListing, ToDo, Range
    <3>6. CONFIG \in DOMAIN got
      BY <3>5
    <3>7. DOMAIN files = cache[Repo].snaps[got[CONFIG]] /\ \A f \in DOMAIN files : files[f] = said[f]
      BY <2>2, <3>1 DEF Directory
    <3>8. ASSUME Clean, NEW f \in Metadata \ {CONFIG}, f \in DOMAIN said PROVE f \in DOMAIN files
      <4>1. got[CONFIG] = l /\ \A g \in DOMAIN got : got[g] = l
        BY <3>5, <3>6, <3>8 DEF Clean
      <4>2. Wanted(f, Model.coreml_prefer, DOMAIN said)
        BY <3>8, NamesDiffer DEF Wanted
      <4>3. f \in DOMAIN got
        BY <3>1, <3>5, <3>8, <4>1, <4>2
      <4> QED
        BY <3>2, <3>7, <4>1, <4>3
    <3> QED
      BY <3>1, <3>2, <3>3, <3>6, <3>7, <3>8
  <2> QED
    BY <2>1, <2>2
<1>4. AreOf(files, Clean, said)
  BY <1>2, <1>3 DEF AreOf
<1>5. BundlesIn(files) \subseteq DOMAIN Bundles \intersect DOMAIN files
  BY DEF BundlesIn
<1>6. {files[f] : f \in BundlesIn(files)} \subseteq MadeOf(said)
  BY <1>3, <1>5 DEF MadeOf
<1>7. UNION {Bundles[f].seqs : f \in BundlesIn(files)} \subseteq Nat
  BY <1>5, BundlesAreSound
<1> HIDE DEF files, said
<1>8. BundleHere.buckets # {} => BundleHere.weights # {}
  BY <1>2
<1> QED
  BY <1>2, <1>3, <1>4, <1>6, <1>7, <1>8 DEF said

\* What a load makes of files of one commit that it does not refuse.
LEMMA InfoIsAsFlagged ==
    ASSUME SourceInv, pc = "fetch",
           NEW files, NEW clean, NEW weights, NEW buckets, NEW quantization,
           NEW c \in Commits(Repo), AreOf(files, clean, Published[Repo][c]),
           {CONFIG, TOKENIZER} \subseteq DOMAIN files, ~Refused(Model, files[CONFIG]),
           weights # {}, weights \subseteq MadeOf(Published[Repo][c]),
           Source.kind = "checkpoint" => Model.max_seq_length <= Published[Repo][c][CONFIG].positions,
           Source.kind = "bundle" => \E n \in buckets : Model.max_seq_length <= n,
           Source.kind = "convert" =>
              /\ buckets = Model.coreml_buckets /\ quantization = Model.coreml_quantize
              /\ \E n \in buckets : Model.max_seq_length <= n /\ n <= Published[Repo][c][CONFIG].positions
    PROVE  LET info == Info(Model, files, weights, buckets, quantization)
           IN AsFlagged(Model, [info |-> info, clean |-> clean]) /\ SetAsFlagged(Model, info)
<1> DEFINE info == Info(Model, files, weights, buckets, quantization)
           said == Published[Repo][c]
           model == [info |-> info, clean |-> clean]
<1>1. /\ info.config = files[CONFIG] /\ info.weights = weights /\ info.tokenizer = files[TOKENIZER]
      /\ info.pooling = ResolvePooling(Model, files) /\ info.dim = files[CONFIG].hidden
      /\ info.output_dim = IF Model.dims = files[CONFIG].hidden THEN None ELSE Model.dims
      /\ info.normalized = Model.normalize /\ info.max_seq_length = Model.max_seq_length
      /\ info.declared = IF SENTENCE_CONFIG \in DOMAIN files THEN files[SENTENCE_CONFIG] ELSE None
      /\ info.buckets = buckets /\ info.quantization = quantization
  BY DEF Info
<1>2. model.info = info /\ model.clean = clean
  OBVIOUS
<1>3. /\ Repo \in DOMAIN Published /\ Model.dims \in Nat \union {None}
      /\ Model.kind \in {"embed", "rerank"} /\ (Model.kind = "rerank" => Model.dims = None)
  BY SourceExists DEF SourceInv
<1>4. CONFIG \in DOMAIN said /\ files[CONFIG] = said[CONFIG] /\ files[CONFIG].hidden \in Nat
  BY <1>3, CommitsAreNumbers DEF AreOf
<1>5. Model.dims # None => Model.dims \in 1..files[CONFIG].hidden /\ Model.normalize
  <2>1. RefusedEarly(Model) = 0
    BY DEF SourceInv, FetchIsSound
  <2> QED
    BY <1>3, <2>1 DEF RefusedEarly, Refused
<1>6. Source = SourceOf(Model) /\ Source.repo = Repo
  BY DEF Source, Repo
<1>7. ASSUME clean
      PROVE  /\ info.tokenizer = said[TOKENIZER]
             /\ info.declared = IF SENTENCE_CONFIG \in DOMAIN said THEN said[SENTENCE_CONFIG] ELSE None
             /\ Model.kind = "embed" =>
                  info.pooling = IF Model.pooling # None THEN Model.pooling
                                 ELSE IF Declared(said) \in {"cls", "mean"} THEN Declared(said)
                                 ELSE "mean"
  <2>1. \A f \in {TOKENIZER, POOLING, SENTENCE_CONFIG} :
           (f \in DOMAIN files <=> f \in DOMAIN said) /\ (f \in DOMAIN said => files[f] = said[f])
    BY <1>7, NamesDiffer DEF AreOf
  <2>2. Model.kind = "embed" =>
           ResolvePooling(Model, files) = IF Model.pooling # None THEN Model.pooling
                                          ELSE IF Declared(said) \in {"cls", "mean"} THEN Declared(said)
                                          ELSE "mean"
    BY <2>1, NoneIsNoValue DEF ResolvePooling, Declared
  <2> QED
    BY <1>1, <2>1, <2>2
<1> HIDE DEF info, said, model
<1>8. SetAsFlagged(Model, info)
  BY <1>1, <1>4, <1>5, NoneIsNoValue DEF SetAsFlagged
<1>9. info.output_dim \in {None, Model.dims} /\ (info.output_dim # None => info.output_dim < info.dim)
  BY <1>1, <1>4, <1>5
<1>10. AsFlagged(Model, model)
  <2>1. c \in DOMAIN Published[SourceOf(Model).repo] /\ said = Published[SourceOf(Model).repo][c]
    BY <1>6 DEF Commits, said
  <2>2. info.config = said[CONFIG] /\ info.weights # {} /\ info.weights \subseteq MadeOf(said)
    BY <1>1, <1>4 DEF said
  <2>3. /\ Source.kind = "checkpoint" => Model.max_seq_length <= said[CONFIG].positions
        /\ Source.kind = "bundle" => \E n \in info.buckets : Model.max_seq_length <= n
        /\ Source.kind = "convert" =>
              /\ info.buckets = Model.coreml_buckets /\ info.quantization = Model.coreml_quantize
              /\ \E n \in info.buckets : Model.max_seq_length <= n /\ n <= said[CONFIG].positions
    BY <1>1 DEF said
  <2> QED
    BY <1>1, <1>2, <1>6, <1>7, <1>9, <2>1, <2>2, <2>3, Zenon DEF AsFlagged
<1> QED
  BY <1>8, <1>10 DEF info, model

\* One more model that is as its flags say.
LEMMA LoadsAsFlagged ==
    ASSUME SourceInv, pc = "fetch", NEW info, NEW clean, NEW fresh, Loads(info, clean, fresh),
           AsFlagged(Model, [info |-> info, clean |-> clean]), SetAsFlagged(Model, info)
    PROVE  LoadedAsFlagged' /\ SettingsAreFlagged'
<1> DEFINE model == [info |-> info, clean |-> clean]
<1>1. /\ loaded' = Append(loaded, model) /\ start' = start
      /\ Len(loaded) = at - 1 /\ at \in DOMAIN Models(start) /\ loaded \in Seq(Range(loaded))
  BY DEF Loads, SourceInv, StageIsSound
<1>2. at \in Nat
  BY <1>1, ModelsAreSome
<1>3. \A i \in DOMAIN loaded' : IF i = at THEN loaded'[i] = model ELSE i \in DOMAIN loaded /\ loaded'[i] = loaded[i]
  BY <1>1, <1>2, OneMore
<1>4. Models(start)[at] = Model /\ model.info = info
  BY DEF Model
<1> HIDE DEF model
<1>5. ASSUME NEW i \in DOMAIN loaded'
      PROVE  AsFlagged(Models(start)[i], loaded'[i]) /\ SetAsFlagged(Models(start)[i], loaded'[i].info)
  <2>1. CASE i = at
    <3>1. loaded'[i] = model
      BY <1>3, <2>1
    <3>2. AsFlagged(Model, model)
      BY DEF model
    <3> QED
      BY <1>4, <2>1, <3>1, <3>2
  <2>2. CASE i # at
    BY <1>3, <2>2 DEF SourceInv, LoadedAsFlagged, SettingsAreFlagged
  <2> QED
    BY <2>1, <2>2
<1> QED
  BY <1>1, <1>5 DEF LoadedAsFlagged, SettingsAreFlagged

\* A bundle that is not refused, from wherever it is.
LEMMA LoadBundleAsFlagged ==
    ASSUME SourceInv, pc = "fetch", NEW d, NEW made, NEW fresh, LoadBundle(d, made, fresh),
           BundleRefused(Model, d) = 0,
           NEW c \in Commits(Repo),
           AreOf(d.files, d.clean, Published[Repo][c]),
           d.weights \subseteq MadeOf(Published[Repo][c]), d.buckets # {} => d.weights # {},
           d.buckets \subseteq Nat, Source.kind # "checkpoint",
           Source.kind = "convert" =>
              /\ d.buckets = Model.coreml_buckets /\ made = Model.coreml_quantize
              /\ \A n \in d.buckets : n <= Published[Repo][c][CONFIG].positions
    PROVE  LoadedAsFlagged' /\ SettingsAreFlagged'
<1> DEFINE info == Info(Model, d.files, d.weights, d.buckets, made)
<1>1. Loads(info, d.clean, fresh)
  BY DEF LoadBundle
<1>2. /\ {CONFIG, TOKENIZER} \subseteq DOMAIN d.files /\ ~Refused(Model, d.files[CONFIG])
      /\ d.buckets # {} /\ ~\A n \in d.buckets : Model.max_seq_length > n
  BY DEF BundleRefused
<1>3. \E n \in d.buckets : Model.max_seq_length <= n
  BY <1>2, SourceExists DEF SourceInv
<1>4. AsFlagged(Model, [info |-> info, clean |-> d.clean]) /\ SetAsFlagged(Model, info)
  BY <1>2, <1>3, InfoIsAsFlagged
<1> QED
  BY <1>1, <1>4, LoadsAsFlagged

\* What a bundle in the cache of conversions has to do with a commit.
MadeOfCommit(made, said, buckets, quantize) ==
    /\ {WEIGHTS, CONFIG} \subseteq DOMAIN said
    /\ AreOf(made.files, made.clean, said)
    /\ made.weights = {said[WEIGHTS]}
    /\ made.buckets = buckets /\ made.quantization = quantize
    /\ \A n \in buckets : n <= said[CONFIG].positions

LEMMA EntryHas ==
    /\ EntryOf[1] = Repo /\ EntryOf[2] = From(WEIGHTS)
    /\ EntryOf[3] = Model.coreml_buckets /\ EntryOf[4] = Model.coreml_quantize
BY DEF EntryOf, Repo

\* A conversion is of the commit that its entry names.
LEMMA ConvertedIsOfACommit ==
    ASSUME SourceInv, pc = "fetch", todo = <<>>, Source.kind = "convert", ~ConversionRefused(CheckpointHere)
    PROVE  /\ From(WEIGHTS) \in Commits(Repo)
           /\ MadeOfCommit(Converted(CheckpointHere), Published[Repo][From(WEIGHTS)],
                           Model.coreml_buckets, Model.coreml_quantize)
<1> DEFINE files == CheckpointHere
           made == Converted(files)
           said == Published[Repo][From(WEIGHTS)]
           copied == [f \in DOMAIN files \ {WEIGHTS} |-> files[f]]
<1>1. {WEIGHTS, CONFIG, TOKENIZER} \subseteq DOMAIN files
  BY DEF ConversionRefused
<1>2. \A n \in Model.coreml_buckets : ~(n > files[CONFIG].positions)
  BY DEF ConversionRefused
<1>3. /\ From(WEIGHTS) \in Commits(Repo) /\ {WEIGHTS, CONFIG} \subseteq DOMAIN said
      /\ files[WEIGHTS] = said[WEIGHTS] /\ AreOf(files, Clean, said)
  BY <1>1, CheckpointIsOfACommit
<1>4. /\ made.files = IF files[WEIGHTS].head THEN With(copied, COREML_HEAD_FILE, files[WEIGHTS]) ELSE copied
      /\ made.clean = Clean /\ made.buckets = Model.coreml_buckets
      /\ made.weights = {files[WEIGHTS]} /\ made.quantization = Model.coreml_quantize
  BY DEF Converted
<1> HIDE DEF files, made, said
<1>5. \A f \in Metadata : (f \in DOMAIN made.files <=> f \in DOMAIN files) /\ (f \in DOMAIN files => made.files[f] = files[f])
  BY <1>4, NamesDiffer DEF With
<1>6. CONFIG \in Metadata
  BY NamesDiffer
<1>7. AreOf(made.files, made.clean, said)
  BY <1>1, <1>3, <1>4, <1>5, <1>6 DEF AreOf
<1>8. \A n \in Model.coreml_buckets : n <= said[CONFIG].positions
  <2>1. Model.coreml_buckets \subseteq Nat /\ Repo \in DOMAIN Published
    BY SourceExists DEF SourceInv
  <2>2. files[CONFIG] = said[CONFIG] /\ said[CONFIG].positions \in Nat
    BY <1>1, <1>3, <2>1, CommitsAreNumbers DEF AreOf, said
  <2> QED
    BY <1>2, <2>1, <2>2
<1> QED
  BY <1>3, <1>4, <1>7, <1>8 DEF MadeOfCommit, files, made, said

LEMMA ConversionsAreOfCommits ==
    ConversionsAreSound =
        \A k \in DOMAIN conversions :
            \E r \in DOMAIN Published : \E c \in Commits(r) :
                k[1] = r /\ k[2] = c /\ MadeOfCommit(conversions[k], Published[r][c], k[3], k[4])
BY Zenon DEF ConversionsAreSound, MadeOfCommit

LEMMA ConversionsStep == SourceInv /\ [SourceNext]_sourceVars => ConversionsAreSound'
<1> SUFFICES ASSUME SourceInv, [SourceNext]_sourceVars PROVE ConversionsAreSound'
  OBVIOUS
<1> DEFINE Sound(k, made) == \E r \in DOMAIN Published : \E c \in Commits(r) :
                                k[1] = r /\ k[2] = c /\ MadeOfCommit(made, Published[r][c], k[3], k[4])
<1>1. \A k \in DOMAIN conversions : Sound(k, conversions[k])
  BY ConversionsAreOfCommits DEF SourceInv
<1>2. CASE UNCHANGED conversions
  BY <1>2 DEF SourceInv, ConversionsAreSound
<1>3. CASE LoadConverted /\ ~UNCHANGED conversions
  <2> DEFINE entry == EntryOf
             made == Converted(CheckpointHere)
             kept == [k \in DOMAIN conversions \ Superseded(entry) |-> conversions[k]]
  <2>1. /\ pc = "fetch" /\ todo = <<>> /\ Source.kind = "convert" /\ ~ConversionRefused(CheckpointHere)
        /\ conversions' = With(kept, entry, made)
    BY <1>3 DEF LoadConverted, Fails
  <2>2. Sound(entry, made)
    <3>1. Repo \in DOMAIN Published
      BY <2>1, SourceExists DEF SourceInv
    <3> QED
      BY <2>1, <3>1, ConvertedIsOfACommit, EntryHas
  <2> HIDE DEF Sound, entry, made
  <2>3. \A k \in DOMAIN kept : k \in DOMAIN conversions /\ kept[k] = conversions[k]
    OBVIOUS
  <2> HIDE DEF kept
  <2>4. \A k \in DOMAIN conversions' : Sound(k, conversions'[k])
    BY <1>1, <2>1, <2>2, <2>3 DEF With
  <2> QED
    BY <2>4 DEF Sound, ConversionsAreSound, MadeOfCommit
<1>4. CASE LoadConverted
  BY <1>2, <1>3, <1>4
<1> QED
  BY <1>2, <1>4 DEF SourceNext, Publish, Run, Begin, Fetch, LoadCheckpoint, LoadCoreMl, Fails, Checked, Kill, Leave, sourceVars

LEMMA LoadedStep ==
    SourceInv /\ [SourceNext]_sourceVars => LoadedAsFlagged' /\ SettingsAreFlagged'
<1> SUFFICES ASSUME SourceInv, [SourceNext]_sourceVars PROVE LoadedAsFlagged' /\ SettingsAreFlagged'
  OBVIOUS
<1>1. CASE UNCHANGED <<start, loaded>>
  BY <1>1 DEF SourceInv, LoadedAsFlagged, SettingsAreFlagged
<1>2. CASE loaded' = <<>>
  BY <1>2 DEF LoadedAsFlagged, SettingsAreFlagged
<1>3. CASE LoadCheckpoint
  <2> DEFINE files == CheckpointHere
             said == Published[Repo][From(WEIGHTS)]
  <2>1. pc = "fetch" /\ todo = <<>> /\ Source.kind = "checkpoint"
    BY <1>3 DEF LoadCheckpoint
  <2>2. CASE CheckpointRefused(Model, files) # 0
    BY <1>2, <1>3, <2>2 DEF LoadCheckpoint, Fails, Over
  <2>3. CASE CheckpointRefused(Model, files) = 0
    <3>1. /\ {WEIGHTS, CONFIG, TOKENIZER} \subseteq DOMAIN files /\ ~Refused(Model, files[CONFIG])
          /\ ~(Model.max_seq_length > files[CONFIG].positions)
      BY <2>3 DEF CheckpointRefused
    <3>2. /\ From(WEIGHTS) \in Commits(Repo) /\ {WEIGHTS, CONFIG} \subseteq DOMAIN said
          /\ files[WEIGHTS] = said[WEIGHTS] /\ AreOf(files, Clean, said)
      BY <2>1, <3>1, CheckpointIsOfACommit
    <3>3. Model.max_seq_length <= said[CONFIG].positions
      <4>1. Model.max_seq_length \in Nat /\ Repo \in DOMAIN Published
        BY <2>1, SourceExists DEF SourceInv
      <4>2. files[CONFIG] = said[CONFIG] /\ said[CONFIG].positions \in Nat
        BY <3>1, <3>2, <4>1, CommitsAreNumbers DEF AreOf
      <4> QED
        BY <3>1, <4>1, <4>2
    <3>4. {files[WEIGHTS]} # {} /\ {files[WEIGHTS]} \subseteq MadeOf(said)
      BY <3>2 DEF MadeOf
    <3>5. Loads(Info(Model, files, {files[WEIGHTS]}, {}, None), Clean, FALSE)
      BY <1>3, <2>3 DEF LoadCheckpoint
    <3> HIDE DEF files, said
    <3>6. /\ AsFlagged(Model, [info |-> Info(Model, files, {files[WEIGHTS]}, {}, None), clean |-> Clean])
          /\ SetAsFlagged(Model, Info(Model, files, {files[WEIGHTS]}, {}, None))
      BY <2>1, <3>1, <3>2, <3>3, <3>4, InfoIsAsFlagged DEF said
    <3> QED
      BY <2>1, <3>5, <3>6, LoadsAsFlagged
  <2> QED
    BY <2>2, <2>3
<1>4. ASSUME NEW d, NEW made, NEW fresh, LoadBundle(d, made, fresh), BundleRefused(Model, d) # 0
      PROVE  loaded' = <<>>
  BY <1>4 DEF LoadBundle, Over
<1>5. CASE LoadCoreMl
  <2>1. pc = "fetch" /\ todo = <<>> /\ Source.kind = "bundle" /\ LoadBundle(BundleHere, None, FALSE)
    BY <1>5 DEF LoadCoreMl
  <2>2. CASE BundleRefused(Model, BundleHere) # 0
    BY <1>2, <1>4, <2>1, <2>2
  <2>3. CASE BundleRefused(Model, BundleHere) = 0
    <3>1. CONFIG \in DOMAIN BundleHere.files
      BY <2>3 DEF BundleRefused
    <3> QED
      BY <2>1, <2>3, <3>1, BundleIsOfACommit, LoadBundleAsFlagged
  <2> QED
    BY <2>2, <2>3
<1>6. CASE LoadConverted
  <2> DEFINE files == CheckpointHere
             entry == EntryOf
             made == Converted(files)
             said == Published[Repo][From(WEIGHTS)]
  <2>1. pc = "fetch" /\ todo = <<>> /\ Source.kind = "convert"
    BY <1>6 DEF LoadConverted
  <2>2. Model.coreml_buckets \subseteq Nat /\ Repo \in DOMAIN Published
    BY <2>1, SourceExists DEF SourceInv
  <2>3. ASSUME NEW d, NEW fresh, LoadBundle(d, d.quantization, fresh), From(WEIGHTS) \in Commits(Repo),
               MadeOfCommit(d, said, Model.coreml_buckets, Model.coreml_quantize)
        PROVE  LoadedAsFlagged' /\ SettingsAreFlagged'
    <3>1. CASE BundleRefused(Model, d) # 0
      BY <1>2, <1>4, <2>3, <3>1
    <3>2. CASE BundleRefused(Model, d) = 0
      <4>1. d.weights \subseteq MadeOf(said) /\ d.weights # {}
        BY <2>3 DEF MadeOfCommit, MadeOf
      <4> QED
        BY <2>1, <2>2, <2>3, <3>2, <4>1, LoadBundleAsFlagged DEF MadeOfCommit
    <3> QED
      BY <3>1, <3>2
  <2>4. CASE entry \in DOMAIN conversions
    <3>1. \E r \in DOMAIN Published : \E c \in Commits(r) :
             entry[1] = r /\ entry[2] = c /\ MadeOfCommit(conversions[entry], Published[r][c], entry[3], entry[4])
      BY <2>4, ConversionsAreOfCommits DEF SourceInv
    <3>2. /\ From(WEIGHTS) \in Commits(Repo)
          /\ MadeOfCommit(conversions[entry], said, Model.coreml_buckets, Model.coreml_quantize)
      BY <3>1, EntryHas
    <3>3. LoadBundle(conversions[entry], conversions[entry].quantization, FALSE)
      BY <1>6, <2>4 DEF LoadConverted
    <3> QED
      BY <2>3, <3>2, <3>3
  <2>5. CASE entry \notin DOMAIN conversions /\ ConversionRefused(files)
    BY <1>2, <1>6, <2>5 DEF LoadConverted, Fails, Over
  <2>6. CASE entry \notin DOMAIN conversions /\ ~ConversionRefused(files)
    <3>1. LoadBundle(made, made.quantization, TRUE)
      BY <1>6, <2>6 DEF LoadConverted
    <3> QED
      BY <2>1, <2>3, <2>6, <3>1, ConvertedIsOfACommit
  <2> QED
    BY <2>4, <2>5, <2>6
<1>7. ASSUME NEW s \in machine, Run(s) PROVE loaded' = <<>>
  BY <1>7 DEF Run, Over, SourceInv, StageIsSound
<1>8. ASSUME NEW reachable \in BOOLEAN, Begin(reachable) \/ Fetch(reachable)
      PROVE  UNCHANGED <<start, loaded>> \/ loaded' = <<>>
  BY <1>8 DEF Begin, Fetch, Over
<1> QED
  BY <1>1, <1>2, <1>3, <1>5, <1>6, <1>7, <1>8
     DEF SourceNext, Publish, Checked, Kill, Leave, Over, sourceVars

LEMMA SourceInitIsSound == SourceInit => SourceInv
<1> SUFFICES ASSUME SourceInit PROVE SourceInv
  OBVIOUS
<1> USE DEF SourceInit
<1>1. \A r \in Remote : 1 \in Commits(r)
  BY CommitsAreNumbers DEF Remote
<1>2. CacheIsSound
  <2> DEFINE empty(r) == [ref |-> 0, snaps |-> [c \in DOMAIN Published[r] |-> {}]]
  <2>1. ASSUME NEW r \in Remote
        PROVE  /\ empty(r).ref = 0 /\ empty(r).snaps = [c \in Commits(r) |-> empty(r).snaps[c]]
               /\ \A c \in Commits(r) : empty(r).snaps[c] = {}
    BY DEF Commits
  <2> HIDE DEF empty
  <2>2. cache = [r \in Remote |-> empty(r)]
    BY DEF empty
  <2> QED
    BY <1>1, <2>1, <2>2 DEF CacheIsSound
<1>3. StageIsSound
  <2>1. <<>> \in Seq(Range(<<>>))
    BY DEF Range
  <2> QED
    BY <2>1 DEF StageIsSound
<1>4. FetchIsSound
  BY DEF FetchIsSound
<1>5. ConversionsAreSound /\ SettingsAreFlagged /\ LoadedAsFlagged
  BY DEF ConversionsAreSound, SettingsAreFlagged, LoadedAsFlagged
<1> QED
  BY <1>2, <1>3, <1>4, <1>5 DEF SourceInv

LEMMA SourceStep == SourceInv /\ [SourceNext]_sourceVars => SourceInv'
BY CacheStep, StageStep, FetchStep, ConversionsStep, LoadedStep DEF SourceInv

-----------------------------------------------------------------------------
(* The starts, and the requests between them.                              *)

LEMMA SourceIsSound == Spec => []SourceInv
<1>1. Init => SourceInv
  BY SourceInitIsSound DEF Init
<1>2. SourceInv /\ [Next]_apiVars => SourceInv'
  <2> SUFFICES ASSUME SourceInv, [Next]_apiVars PROVE SourceInv'
    OBVIOUS
  <2>1. [SourceNext]_sourceVars
    BY DEF Next, Handle, apiVars
  <2> QED
    BY <2>1, SourceStep
<1> QED
  BY <1>1, <1>2, PTL DEF Spec

\* A model never runs on the weights of one commit with the configuration of
\* another, and when its files are of one commit they and the flags decide the rest.
THEOREM ModelsAreAsFlagged == Spec => []LoadedAsFlagged
BY SourceIsSound, PTL DEF SourceInv

-----------------------------------------------------------------------------
(* The invariant of promises. What is promised of a model are its files, as  *)
(* they are in one commit, and what is made of them; a start loads the same  *)
(* model when it finds all of them there.                                    *)

\* The commit a checkpoint of r is loaded from while it is promised, and its files.
KeptAt(r) == IF r \in Local THEN 1 ELSE cache[r].ref
PlanFiles == {e.file : e \in Plan}
KeptFiles(r) ==
    [f \in IF r \in Local THEN DOMAIN Published[r][1] ELSE PlanFiles \intersect DOMAIN Published[r][KeptAt(r)]
        |-> Published[r][KeptAt(r)][f]]

BundleOf(files) ==
    [files |-> files, clean |-> TRUE, buckets |-> UNION {Bundles[f].seqs : f \in BundlesIn(files)},
     weights |-> {files[f] : f \in BundlesIn(files)}]

\* What a promise rests on: its files are where they were, and make the same model.
FilesAreKept(r, whole) ==
    LET ref == cache[r].ref
        here == cache[r].snaps[ref]
    IN /\ ref # 0
       /\ {WEIGHTS, CONFIG, TOKENIZER} \subseteq here
       /\ PlanFiles \intersect DOMAIN Published[r][ref] \subseteq here
       /\ IF whole THEN PlanFiles \subseteq here ELSE hub[r] = ref

\* The bundles d give m, and it is described by info.
LoadsAs(m, d, quantization, info) ==
    BundleRefused(m, d) = 0 /\ info = Info(m, d.files, d.weights, d.buckets, quantization)

\* A promised model is not refused, and its files, or the conversion of them, make
\* what they made.
IsKept(p) ==
    LET m == p.model
        source == SourceOf(m)
        r == source.repo
        files == KeptFiles(r)
        entry == <<r, KeptAt(r), m.coreml_buckets, m.coreml_quantize>>
    IN /\ r \in DOMAIN Published /\ RefusedEarly(m) = 0
       /\ r \in Remote => source.kind # "bundle" /\ FilesAreKept(r, p.whole)
       /\ source.kind = "checkpoint" =>
            CheckpointRefused(m, files) = 0 /\ p.info = Info(m, files, {files[WEIGHTS]}, {}, None)
       /\ source.kind = "bundle" => LoadsAs(m, BundleOf(files), None, p.info)
       /\ source.kind = "convert" =>
            entry \in DOMAIN conversions /\ LoadsAs(m, conversions[entry], conversions[entry].quantization, p.info)
PromisesAreKept == \A p \in promised : IsKept(p)

\* What a load has fetched so far.
FetchKeepsPromises ==
    pc = "fetch" /\ Repo \in Remote =>
        /\ got = <<>> \/ \E f \in DOMAIN got : got[f] = cache[Repo].ref
        /\ Source.kind # "bundle" =>
             /\ DOMAIN got \subseteq PlanFiles
             /\ \A p \in promised : SourceOf(p.model).repo = Repo =>
                  /\ \A f \in DOMAIN got : got[f] = cache[Repo].ref
                  /\ \A e \in Plan : \/ e \in ToDo
                                     \/ e.file \in DOMAIN got
                                     \/ e.file \notin DOMAIN Published[Repo][cache[Repo].ref]

\* The self-check fetches a checkpoint, too.
CheckKeepsPromises == pc = "check" => ToDo \subseteq Plan

\* What was got is all that the repository has of a checkpoint, from where refs/main is.
GotAll ==
    /\ \A f \in DOMAIN got : got[f] = cache[Repo].ref
    /\ DOMAIN got = PlanFiles \intersect DOMAIN Published[Repo][cache[Repo].ref]

\* A checkpoint that was got whole is the one a promise of it names.
LEMMA GotIsKept ==
    ASSUME SourceInv, pc = "fetch", Source.kind # "bundle", Repo \in Remote => WEIGHTS \in DOMAIN got /\ GotAll
    PROVE  CheckpointHere = KeptFiles(Repo) /\ From(WEIGHTS) = KeptAt(Repo)
<1>1. CASE Repo \in Local
  <2>1. got = [f \in DOMAIN Published[Repo][1] |-> 1] /\ From(WEIGHTS) = 1 /\ KeptAt(Repo) = 1
    BY <1>1 DEF SourceInv, FetchIsSound, From, KeptAt, Repo
  <2>2. DOMAIN got = DOMAIN Published[Repo][1] /\ \A f \in DOMAIN got : got[f] = 1
    BY <2>1
  <2>3. Directory(Repo, 1) = [f \in DOMAIN Published[Repo][1] |-> Published[Repo][1][f]]
    BY <1>1 DEF Directory
  <2> DEFINE beside == Directory(Repo, 1)
             names == (DOMAIN got \ {CONFIG}) \union ({CONFIG} \intersect DOMAIN beside)
  <2>4. CheckpointHere = [f \in names |-> IF f = CONFIG THEN beside[CONFIG] ELSE Published[Repo][got[f]][f]]
    BY <2>1, Zenon DEF CheckpointHere, Repo
  <2>5. names = DOMAIN Published[Repo][1]
    BY <2>2, <2>3
  <2>6. \A f \in names : (IF f = CONFIG THEN beside[CONFIG] ELSE Published[Repo][got[f]][f]) = Published[Repo][1][f]
    BY <2>2, <2>3, <2>5
  <2>7. KeptFiles(Repo) = [f \in DOMAIN Published[Repo][1] |-> Published[Repo][1][f]]
    BY <1>1, <2>1, Zenon DEF KeptFiles
  <2> HIDE DEF beside, names
  <2> QED
    BY <2>1, <2>4, <2>5, <2>6, <2>7
<1>2. CASE Repo \in Remote
  <2> DEFINE ref == cache[Repo].ref
             said == Published[Repo][ref]
             beside == Directory(Repo, ref)
             names == (DOMAIN got \ {CONFIG}) \union ({CONFIG} \intersect DOMAIN beside)
  <2>1. GotAll /\ got[WEIGHTS] = ref /\ Repo \notin Local
    BY <1>2 DEF GotAll, Remote
  <2>2. From(WEIGHTS) = ref /\ KeptAt(Repo) = ref
    BY <2>1 DEF From, KeptAt, Repo
  <2>3. CheckpointHere = [f \in names |-> IF f = CONFIG THEN beside[CONFIG] ELSE Published[Repo][got[f]][f]]
    BY <2>2, Zenon DEF CheckpointHere, Repo
  <2>4. beside = [f \in cache[Repo].snaps[ref] |-> said[f]]
    BY <2>1 DEF Directory
  <2>5. \A f \in DOMAIN got : got[f] = ref /\ f \in cache[Repo].snaps[ref]
    BY <1>2, <2>1 DEF SourceInv, FetchIsSound, GotAll
  <2>6. ref \in Commits(Repo) /\ cache[Repo].snaps[ref] \subseteq DOMAIN said
    BY <1>2, <2>1, <2>5 DEF SourceInv, CacheIsSound, FetchIsSound
  <2>7. CONFIG \in PlanFiles
    BY CheckpointFilesAreFive DEF PlanFiles, Required
  <2>8. DOMAIN got = PlanFiles \intersect DOMAIN said
    BY <2>1 DEF GotAll
  <2>9. names = DOMAIN got
    BY <2>4, <2>5, <2>6, <2>7, <2>8
  <2>10. \A f \in names : (IF f = CONFIG THEN beside[CONFIG] ELSE Published[Repo][got[f]][f]) = said[f]
    BY <2>4, <2>5, <2>9
  <2>11. KeptFiles(Repo) = [f \in PlanFiles \intersect DOMAIN said |-> said[f]]
    BY <2>1, <2>2, Zenon DEF KeptFiles
  <2> HIDE DEF names, beside, said, ref
  <2> QED
    BY <2>2, <2>3, <2>8, <2>9, <2>10, <2>11
<1> QED
  BY <1>1, <1>2, SourceExists DEF SourceInv

\* The files of a checkpoint that are on no list any more were got, or there are none.
LEMMA WeightsAreGot ==
    ASSUME SourceInv, pc = "fetch", todo = <<>>, Source.kind # "bundle", Repo \in Remote
    PROVE  /\ WEIGHTS \in DOMAIN got /\ ToDo = {}
           /\ \A e \in Plan : \/ e.file \in DOMAIN got
                              \/ lost \/ e.file \notin DOMAIN Published[Repo][got[WEIGHTS]]
<1>1. WeightsFirst
  BY DEF SourceInv, FetchIsSound, Remote
<1>2. ToDo = {}
  BY DEF ToDo, Range
<1>3. todo # CheckpointFiles
  BY CheckpointFilesAreFive
<1> QED
  BY <1>1, <1>2, <1>3 DEF WeightsFirst

LEMMA CleanIsGot ==
    ASSUME SourceInv, FetchKeepsPromises, pc = "fetch", todo = <<>>, Source.kind # "bundle",
           Repo \in Remote, Clean
    PROVE  WEIGHTS \in DOMAIN got /\ GotAll
<1>1. WEIGHTS \in DOMAIN got /\ \A e \in Plan : e.file \in DOMAIN got \/ e.file \notin DOMAIN Published[Repo][got[WEIGHTS]]
  BY WeightsAreGot DEF Clean
<1>2. PICK f \in DOMAIN got : got[f] = cache[Repo].ref
  BY <1>1 DEF FetchKeepsPromises
<1>3. \A g \in DOMAIN got : got[g] = cache[Repo].ref
  BY <1>2 DEF Clean
<1>4. \A g \in DOMAIN got : g \in DOMAIN Published[Repo][got[g]]
  BY DEF SourceInv, FetchIsSound, CacheIsSound, Remote
<1>5. DOMAIN got \subseteq PlanFiles
  BY DEF FetchKeepsPromises
<1>6. got[WEIGHTS] = cache[Repo].ref
  BY <1>1, <1>3
<1>7. \A g \in DOMAIN got : g \in PlanFiles /\ g \in DOMAIN Published[Repo][cache[Repo].ref]
  BY <1>3, <1>4, <1>5
<1>8. \A g \in PlanFiles : g \in DOMAIN Published[Repo][cache[Repo].ref] => g \in DOMAIN got
  BY <1>1, <1>6 DEF PlanFiles
<1>9. DOMAIN got = PlanFiles \intersect DOMAIN Published[Repo][cache[Repo].ref]
  BY <1>7, <1>8
<1> QED
  BY <1>1, <1>3, <1>9 DEF GotAll

LEMMA PromisedIsGot ==
    ASSUME SourceInv, FetchKeepsPromises, pc = "fetch", todo = <<>>, Source.kind # "bundle",
           Repo \in Remote, NEW p \in promised, SourceOf(p.model).repo = Repo
    PROVE  WEIGHTS \in DOMAIN got /\ GotAll
<1>1. WEIGHTS \in DOMAIN got /\ ToDo = {}
  BY WeightsAreGot
<1>2. \A f \in DOMAIN got : got[f] = cache[Repo].ref
  BY DEF FetchKeepsPromises
<1>3. \A e \in Plan : e.file \in DOMAIN got \/ e.file \notin DOMAIN Published[Repo][cache[Repo].ref]
  BY <1>1 DEF FetchKeepsPromises
<1>4. \A g \in DOMAIN got : g \in DOMAIN Published[Repo][got[g]]
  BY DEF SourceInv, FetchIsSound, CacheIsSound, Remote
<1>5. DOMAIN got \subseteq PlanFiles
  BY DEF FetchKeepsPromises
<1>6. \A g \in DOMAIN got : g \in DOMAIN Published[Repo][cache[Repo].ref]
  BY <1>2, <1>4, Zenon
<1> QED
  BY ONLY <1>1, <1>2, <1>3, <1>5, <1>6 DEF GotAll, PlanFiles

-----------------------------------------------------------------------------
(* What a step leaves of a promise.                                        *)

\* A fetch for a checkpoint leaves what a promise rests on.
LEMMA GetKeepsFiles ==
    ASSUME SourceInv, NEW r \in Remote, NEW whole, FilesAreKept(r, whole),
           NEW q \in Remote, NEW f, q = r => f \in PlanFiles, NEW reachable \in BOOLEAN,
           cache' = GetInto(q, f, reachable), hub' = hub
    PROVE  /\ FilesAreKept(r, whole)' /\ cache'[r].ref = cache[r].ref
           /\ q = r => /\ Get(r, f, reachable) \in {0, cache[r].ref}
                       /\ Get(r, f, reachable) = 0 => f \notin DOMAIN Published[r][cache[r].ref]
<1>1. CASE q = r /\ ~Cached(r, f) /\ OnHub(r, f, reachable)
  <2>1. ~whole /\ hub[r] = cache[r].ref
    BY <1>1 DEF FilesAreKept, Cached
  <2>2. cache' = [cache EXCEPT ![r] = [ref |-> hub[r], snaps |-> [cache[r].snaps EXCEPT ![hub[r]] = @ \union {f}]]]
    BY <1>1 DEF GetInto
  <2>3. hub[r] \in Commits(r) /\ hub[r] \in DOMAIN cache[r].snaps /\ r \in DOMAIN cache
    BY DEF SourceInv, CacheIsSound
  <2>4. /\ cache'[r].ref = hub[r]
        /\ cache'[r].snaps[hub[r]] = cache[r].snaps[hub[r]] \union {f}
    BY <2>2, <2>3
  <2>5. Get(r, f, reachable) = hub[r]
    BY <1>1 DEF Get
  <2>6. hub[r] # 0
    BY <2>1 DEF FilesAreKept
  <2> QED
    BY <2>1, <2>4, <2>5, <2>6 DEF FilesAreKept
<1>2. CASE q = r /\ (Cached(r, f) \/ ~OnHub(r, f, reachable))
  <2>1. cache' = cache
    BY <1>2 DEF GetInto
  <2>2. Get(r, f, reachable) = IF Cached(r, f) THEN cache[r].ref ELSE 0
    BY <1>2 DEF Get
  <2>3. Cached(r, f) <=> f \in cache[r].snaps[cache[r].ref]
    BY DEF Cached, FilesAreKept
  <2>4. f \in DOMAIN Published[r][cache[r].ref] => f \in cache[r].snaps[cache[r].ref]
    BY <1>2 DEF FilesAreKept
  <2>5. FilesAreKept(r, whole)'
    BY <2>1 DEF FilesAreKept
  <2>6. cache[r].ref # 0
    BY DEF FilesAreKept
  <2> QED
    BY <2>1, <2>2, <2>3, <2>4, <2>5, <2>6
<1>3. CASE q # r
  <2>1. cache'[r] = cache[r]
    <3>1. cache' = cache \/ \E v : cache' = [cache EXCEPT ![q] = v]
      BY Zenon DEF GetInto
    <3>2. r \in DOMAIN cache
      BY DEF SourceInv, CacheIsSound
    <3> QED
      BY <1>3, <3>1, <3>2
  <2> QED
    BY <1>3, <2>1 DEF FilesAreKept
<1> QED
  BY <1>1, <1>2, <1>3

\* A file of a checkpoint is on its plan.
LEMMA HeadIsPlanned ==
    ASSUME SourceInv, CheckKeepsPromises, pc \in {"fetch", "check"}, todo # <<>>
    PROVE  Repo \in Remote /\ (Source.kind # "bundle" \/ pc = "check" => Head(todo) \in Plan)
<1>1. Repo \in Remote
  BY SourceExists DEF SourceInv, StageIsSound
<1>2. todo \in Seq(Range(todo))
  BY DEF SourceInv, StageIsSound, ToDo
<1>3. Head(todo) \in ToDo
  BY <1>2, HeadAndTail DEF ToDo
<1>4. CASE pc = "check"
  BY <1>1, <1>3, <1>4 DEF CheckKeepsPromises
<1>5. CASE pc = "fetch" /\ Source.kind # "bundle"
  <2>1. WeightsFirst
    BY <1>1, <1>5 DEF SourceInv, FetchIsSound, Remote
  <2>2. CASE todo = CheckpointFiles
    BY <1>1, <1>3, <2>2 DEF ToDo, Plan
  <2>3. CASE \A e \in ToDo : e \in Plan
    BY <1>1, <1>3, <2>3
  <2> QED
    BY <2>1, <2>2, <2>3 DEF WeightsFirst
<1> QED
  BY <1>1, <1>4, <1>5

LEMMA FilesStay ==
    ASSUME SourceInv, CheckKeepsPromises, [SourceNext]_sourceVars,
           NEW p \in promised, p \in promised', IsKept(p), SourceOf(p.model).repo \in Remote
    PROVE  LET r == SourceOf(p.model).repo
           IN FilesAreKept(r, p.whole)' /\ cache'[r].ref = cache[r].ref
<1>0. PICK r \in Remote : r = SourceOf(p.model).repo
  OBVIOUS
<1>1. FilesAreKept(r, p.whole)
  BY <1>0 DEF IsKept
<1> SUFFICES FilesAreKept(r, p.whole)' /\ cache'[r].ref = cache[r].ref
  BY <1>0, Zenon
<1>2. CASE cache' = cache /\ hub' = hub
  BY <1>1, <1>2 DEF FilesAreKept
<1>3. ASSUME NEW q \in Remote, Publish(q) PROVE FilesAreKept(r, p.whole)' /\ cache'[r].ref = cache[r].ref
  <2>1. cache' = cache /\ hub' = [hub EXCEPT ![q] = @ + 1] /\ promised' = {x \in promised : x.whole}
    BY <1>3 DEF Publish
  <2>2. p.whole \/ hub'[r] = hub[r]
    <3>1. CASE q = r
      BY <2>1
    <3>2. CASE q # r
      BY <1>1, <2>1, <3>2 DEF SourceInv, CacheIsSound
    <3> QED
      BY <3>1, <3>2
  <2> QED
    BY <1>1, <2>1, <2>2 DEF FilesAreKept
<1>4. ASSUME NEW reachable \in BOOLEAN, Fetch(reachable)
      PROVE  FilesAreKept(r, p.whole)' /\ cache'[r].ref = cache[r].ref
  <2>1. /\ pc \in {"fetch", "check"} /\ todo # <<>> /\ hub' = hub
        /\ cache' = GetInto(Repo, Head(todo).file, reachable)
        /\ promised' = {x \in promised : Source.kind = "bundle" => SourceOf(x.model).repo # Repo}
    BY <1>4 DEF Fetch, hubVars, Repo
  <2>2. Repo \in Remote /\ (Source.kind # "bundle" => Head(todo).file \in PlanFiles)
    BY <2>1, HeadIsPlanned DEF PlanFiles
  <2>3. Repo = r => Head(todo).file \in PlanFiles
    BY <1>0, <2>1, <2>2
  <2> QED
    BY <1>1, <2>1, <2>2, <2>3, GetKeepsFiles
<1>5. CASE UNCHANGED sourceVars
  BY <1>2, <1>5 DEF sourceVars, hubVars
<1>6. ASSUME NEW s, Run(s) PROVE cache' = cache /\ hub' = hub
  BY <1>6 DEF Run, hubVars
<1>7. ASSUME NEW reachable, Begin(reachable) PROVE cache' = cache /\ hub' = hub
  BY <1>7 DEF Begin, hubVars
<1>8. CASE LoadCheckpoint
  BY <1>2, <1>8 DEF LoadCheckpoint, Loads, Fails, hubVars
<1>9. CASE LoadCoreMl
  BY <1>2, <1>9 DEF LoadCoreMl, LoadBundle, Loads, hubVars
<1>10. CASE LoadConverted
  BY <1>2, <1>10 DEF LoadConverted, LoadBundle, Loads, Fails, hubVars
<1>11. CASE Checked
  BY <1>2, <1>11 DEF Checked, hubVars
<1>12. CASE Kill
  BY <1>2, <1>12 DEF Kill, hubVars
<1>13. CASE Leave
  BY <1>2, <1>13 DEF Leave, hubVars
<1> QED
  BY <1>2, <1>3, <1>4, <1>5, <1>6, <1>7, <1>8, <1>9, <1>10, <1>11, <1>12, <1>13, <1>0 DEF SourceNext

\* A conversion that a promise names stays: its checkpoint is at no other commit.
LEMMA ConversionStays ==
    ASSUME SourceInv, FetchKeepsPromises, [SourceNext]_sourceVars,
           NEW p \in promised, IsKept(p), SourceOf(p.model).kind = "convert"
    PROVE  LET r == SourceOf(p.model).repo
               entry == <<r, KeptAt(r), p.model.coreml_buckets, p.model.coreml_quantize>>
           IN entry \in DOMAIN conversions' /\ conversions'[entry] = conversions[entry]
<1> DEFINE r == SourceOf(p.model).repo
           entry == <<r, KeptAt(r), p.model.coreml_buckets, p.model.coreml_quantize>>
<1>1. entry \in DOMAIN conversions /\ r \in DOMAIN Published
  BY DEF IsKept
<1>2. CASE conversions' = conversions
  BY <1>1, <1>2
<1>3. CASE LoadConverted /\ conversions' # conversions
  <2> DEFINE kept == [k \in DOMAIN conversions \ Superseded(EntryOf) |-> conversions[k]]
             made == Converted(CheckpointHere)
  <2>1. /\ pc = "fetch" /\ todo = <<>> /\ Source.kind = "convert" /\ EntryOf \notin DOMAIN conversions
        /\ conversions' = With(kept, EntryOf, made)
    BY <1>3 DEF LoadConverted, Fails
  <2>2. entry # EntryOf
    BY <1>1, <2>1
  <2>3. entry \notin Superseded(EntryOf)
    <3> SUFFICES ASSUME [entry EXCEPT ![2] = EntryOf[2]] = EntryOf PROVE FALSE
      BY DEF Superseded
    <3>1. /\ EntryOf[1] = r /\ EntryOf[3] = p.model.coreml_buckets /\ EntryOf[4] = p.model.coreml_quantize
      <4> HIDE DEF r
      <4>1. PICK e, y : e = EntryOf /\ y = EntryOf[2]
        OBVIOUS
      <4>2. [<<r, KeptAt(r), p.model.coreml_buckets, p.model.coreml_quantize>> EXCEPT ![2] = y] = e
        BY <4>1, Zenon DEF entry
      <4>3. e[1] = r /\ e[3] = p.model.coreml_buckets /\ e[4] = p.model.coreml_quantize
        BY ONLY <4>2
      <4> QED
        BY <4>1, <4>3, Zenon
    <3>2. Repo = r
      BY <3>1, EntryHas
    <3>3. Repo \in Remote => WEIGHTS \in DOMAIN got /\ GotAll
      BY <2>1, <3>2, PromisedIsGot
    <3>4. From(WEIGHTS) = KeptAt(r)
      BY <2>1, <3>2, <3>3, GotIsKept
    <3>5. EntryOf = <<Repo, From(WEIGHTS), Model.coreml_buckets, Model.coreml_quantize>>
      BY DEF EntryOf, Repo
    <3>6. Model.coreml_buckets = p.model.coreml_buckets /\ Model.coreml_quantize = p.model.coreml_quantize
      BY <3>1, EntryHas, Zenon
    <3> QED
      BY <2>2, <3>2, <3>4, <3>5, <3>6, Zenon
  <2> HIDE DEF entry, made
  <2>4. entry \in DOMAIN kept /\ kept[entry] = conversions[entry]
    BY <1>1, <2>3
  <2> HIDE DEF kept
  <2> QED
    <3>1. conversions' = [x \in DOMAIN kept \union {EntryOf} |-> IF x = EntryOf THEN made ELSE kept[x]]
      BY <2>1 DEF With
    <3>2. entry \in DOMAIN kept \union {EntryOf}
      BY <2>4
    <3> QED
      BY <2>2, <2>4, <3>1, <3>2 DEF entry
<1>4. conversions' = conversions \/ LoadConverted
  <2>1. ASSUME NEW q, Publish(q) PROVE conversions' = conversions
    BY <2>1 DEF Publish
  <2>2. ASSUME NEW s, Run(s) PROVE conversions' = conversions
    BY <2>2 DEF Run
  <2>3. ASSUME NEW reachable, Begin(reachable) \/ Fetch(reachable) PROVE conversions' = conversions
    BY <2>3 DEF Begin, Fetch
  <2>4. CASE LoadCheckpoint
    BY <2>4 DEF LoadCheckpoint, Fails
  <2>5. CASE LoadCoreMl \/ Checked \/ Kill \/ Leave
    BY <2>5 DEF LoadCoreMl, Checked, Kill, Leave
  <2>6. CASE UNCHANGED sourceVars
    BY <2>6 DEF sourceVars
  <2> QED
    BY <2>1, <2>2, <2>3, <2>4, <2>5, <2>6 DEF SourceNext
<1> QED
  BY <1>2, <1>3, <1>4

LEMMA PromiseStays ==
    ASSUME SourceInv, CheckKeepsPromises, FetchKeepsPromises, [SourceNext]_sourceVars,
           NEW p \in promised, p \in promised', IsKept(p)
    PROVE  IsKept(p)'
<1> DEFINE m == p.model
           source == SourceOf(m)
           r == source.repo
           entry == <<r, KeptAt(r), m.coreml_buckets, m.coreml_quantize>>
<1>1. r \in Remote => FilesAreKept(r, p.whole)' /\ cache'[r].ref = cache[r].ref
  BY FilesStay
<1>2. r \in DOMAIN Published /\ (r \in Local \/ r \in Remote)
  BY DEF IsKept, Remote
<1>3. KeptAt(r)' = KeptAt(r)
  BY <1>1, <1>2 DEF KeptAt
<1>4. KeptFiles(r)' = KeptFiles(r)
  BY <1>3, Zenon DEF KeptFiles
<1>5. source.kind = "convert" => entry \in DOMAIN conversions' /\ conversions'[entry] = conversions[entry]
  BY ConversionStays
<1> QED
  BY <1>1, <1>2, <1>3, <1>4, <1>5 DEF IsKept

-----------------------------------------------------------------------------
(* What a load has fetched of a promise.                                   *)

\* A file that `get` downloads is of the commit refs/main is at then.
LEMMA RefIsGot ==
    ASSUME CacheIsSound, NEW r \in Remote, NEW f, NEW reachable \in BOOLEAN,
           cache' = GetInto(r, f, reachable)
    PROVE  IF Get(r, f, reachable) = 0 THEN cache' = cache
           ELSE cache'[r].ref = Get(r, f, reachable)
<1>1. CASE Cached(r, f)
  BY <1>1 DEF Get, GetInto, Cached
<1>2. CASE ~Cached(r, f) /\ ~OnHub(r, f, reachable)
  BY <1>2 DEF Get, GetInto
<1>3. CASE ~Cached(r, f) /\ OnHub(r, f, reachable)
  <2> DEFINE new == [ref |-> hub[r], snaps |-> [cache[r].snaps EXCEPT ![hub[r]] = @ \union {f}]]
  <2>1. cache' = [cache EXCEPT ![r] = new] /\ Get(r, f, reachable) = hub[r]
    BY <1>3, Zenon DEF GetInto, Get
  <2>2. new.ref = hub[r]
    OBVIOUS
  <2>3. hub[r] # 0 /\ r \in DOMAIN cache
    BY PublishedIsSound DEF CacheIsSound, Commits, Remote
  <2> HIDE DEF new
  <2> QED
    BY <2>1, <2>2, <2>3
<1> QED
  BY <1>1, <1>2, <1>3

\* The next file of a checkpoint that a promise names is of the promise's commit.
LEMMA PromisedIsFetched ==
    ASSUME SourceInv, PromisesAreKept, FetchKeepsPromises, CheckKeepsPromises,
           pc = "fetch", pc' = "fetch", NEW reachable \in BOOLEAN, Fetch(reachable),
           Repo \in Remote, Source.kind # "bundle",
           NEW p \in promised, SourceOf(p.model).repo = Repo
    PROVE  /\ \A f \in DOMAIN got' : got'[f] = cache'[Repo].ref
           /\ \A e \in Plan : \/ e \in ToDo'
                              \/ e.file \in DOMAIN got'
                              \/ e.file \notin DOMAIN Published[Repo][cache'[Repo].ref]
<1> DEFINE h == Head(todo)
           c == Get(Repo, h.file, reachable)
<1>1. /\ todo # <<>> /\ todo' = Tail(todo) /\ hub' = hub
      /\ got' = IF c = 0 THEN got ELSE With(got, h.file, c)
      /\ cache' = GetInto(Repo, h.file, reachable)
  BY DEF Fetch, Over, Repo, hubVars
<1>2. h \in Plan /\ h.file \in PlanFiles
  BY <1>1, HeadIsPlanned DEF PlanFiles
<1>3. FilesAreKept(Repo, p.whole)
  BY DEF PromisesAreKept, IsKept
<1>4. /\ cache'[Repo].ref = cache[Repo].ref
      /\ c \in {0, cache[Repo].ref}
      /\ c = 0 => h.file \notin DOMAIN Published[Repo][cache[Repo].ref]
  BY <1>1, <1>2, <1>3, GetKeepsFiles
<1>5. /\ \A f \in DOMAIN got : got[f] = cache[Repo].ref
      /\ \A e \in Plan : \/ e \in ToDo
                         \/ e.file \in DOMAIN got
                         \/ e.file \notin DOMAIN Published[Repo][cache[Repo].ref]
  BY DEF FetchKeepsPromises
<1>6. ToDo \subseteq ToDo' \union {h}
  BY <1>1, HeadAndTail DEF SourceInv, StageIsSound, ToDo
<1> HIDE DEF h, c
<1>7. CASE c = 0
  BY <1>1, <1>4, <1>5, <1>6, <1>7
<1>8. CASE c # 0
  <2>1. /\ DOMAIN got' = DOMAIN got \union {h.file}
        /\ \A f \in DOMAIN got' : got'[f] = IF f = h.file THEN c ELSE got[f]
    BY <1>1, <1>8 DEF With
  <2> QED
    BY <1>4, <1>5, <1>6, <1>8, <2>1
<1> QED
  BY <1>7, <1>8

LEMMA FetchKeepsStep ==
    ASSUME SourceInv, PromisesAreKept, FetchKeepsPromises, CheckKeepsPromises, [SourceNext]_sourceVars
    PROVE  FetchKeepsPromises'
<1>1. CASE pc' # "fetch"
  BY <1>1 DEF FetchKeepsPromises
<1>2. ASSUME pc = "fetch", UNCHANGED <<cache, start, pc, at, todo, got>>, promised' \subseteq promised
      PROVE  FetchKeepsPromises'
  <2>1. Repo' = Repo /\ Source' = Source /\ ToDo' = ToDo
    BY <1>2 DEF Repo, Source, Model, ToDo
  <2> QED
    BY <1>2, <2>1 DEF FetchKeepsPromises
<1>3. ASSUME NEW r \in Remote, Publish(r), pc = "fetch" PROVE FetchKeepsPromises'
  BY <1>2, <1>3 DEF Publish, fetchVars
<1>4. ASSUME NEW reachable \in BOOLEAN, Begin(reachable), pc' = "fetch" PROVE FetchKeepsPromises'
  <2>1. UNCHANGED <<start, at>>
    BY <1>4 DEF Begin
  <2>2. Repo' = Repo /\ Source' = Source
    BY <2>1 DEF Repo, Source, Model
  <2>3. Repo \in Remote => got' = <<>> /\ (Source.kind # "bundle" => todo' = CheckpointFiles)
    BY <1>4 DEF Begin, Over, Repo, Remote
  <2>4. Repo \in Remote /\ Source.kind # "bundle" => ToDo' = Plan
    BY <2>3 DEF ToDo, Plan
  <2>5. DOMAIN <<>> = {}
    OBVIOUS
  <2> QED
    BY <2>2, <2>3, <2>4, <2>5 DEF FetchKeepsPromises
<1>5. ASSUME NEW reachable \in BOOLEAN, Fetch(reachable), pc' = "fetch" PROVE FetchKeepsPromises'
  <2> SUFFICES ASSUME Repo' \in Remote
               PROVE  /\ got' = <<>> \/ \E f \in DOMAIN got' : got'[f] = cache'[Repo'].ref
                      /\ Source'.kind # "bundle" =>
                           /\ DOMAIN got' \subseteq PlanFiles
                           /\ \A p \in promised' : SourceOf(p.model).repo = Repo' =>
                                /\ \A f \in DOMAIN got' : got'[f] = cache'[Repo'].ref
                                /\ \A e \in Plan : \/ e \in ToDo'
                                                   \/ e.file \in DOMAIN got'
                                                   \/ e.file \notin DOMAIN Published[Repo'][cache'[Repo'].ref]
    BY DEF FetchKeepsPromises
  <2> DEFINE h == Head(todo)
             c == Get(Repo, h.file, reachable)
  <2>1. /\ pc = "fetch" /\ todo # <<>> /\ UNCHANGED <<hub, start, at>>
        /\ got' = IF c = 0 THEN got ELSE With(got, h.file, c)
        /\ cache' = GetInto(Repo, h.file, reachable)
    BY <1>5 DEF Fetch, Over, Repo, hubVars
  <2>2. Repo' = Repo /\ Source' = Source
    BY <2>1 DEF Repo, Source, Model
  <2>3. IF c = 0 THEN cache' = cache ELSE cache'[Repo].ref = c
    BY <2>1, <2>2, RefIsGot DEF SourceInv
  <2>4. got' = <<>> \/ \E f \in DOMAIN got' : got'[f] = cache'[Repo].ref
    <3> HIDE DEF c, h
    <3>1. CASE c = 0
      BY <2>1, <2>2, <2>3, <3>1 DEF FetchKeepsPromises
    <3>2. CASE c # 0
      <4>1. h.file \in DOMAIN got' /\ got'[h.file] = c
        BY <2>1, <3>2 DEF With
      <4> QED
        BY <2>3, <3>2, <4>1
    <3> QED
      BY <3>1, <3>2
  <2>5. ASSUME Source.kind # "bundle"
        PROVE  DOMAIN got' \subseteq PlanFiles /\ promised' \subseteq promised
    <3>1. h.file \in PlanFiles
      BY <2>1, <2>5, HeadIsPlanned DEF PlanFiles
    <3>2. DOMAIN got \subseteq PlanFiles
      BY <2>1, <2>2, <2>5 DEF FetchKeepsPromises
    <3>3. DOMAIN got' \subseteq DOMAIN got \union {h.file}
      BY <2>1 DEF With
    <3>4. promised' \subseteq promised
      BY <1>5 DEF Fetch
    <3> QED
      BY <3>1, <3>2, <3>3, <3>4
  <2>6. ASSUME Source.kind # "bundle", NEW p \in promised', SourceOf(p.model).repo = Repo
        PROVE  /\ \A f \in DOMAIN got' : got'[f] = cache'[Repo].ref
               /\ \A e \in Plan : \/ e \in ToDo'
                                  \/ e.file \in DOMAIN got'
                                  \/ e.file \notin DOMAIN Published[Repo][cache'[Repo].ref]
    BY <1>5, <2>1, <2>2, <2>5, <2>6, PromisedIsFetched
  <2> HIDE DEF c, h
  <2> QED
    BY <2>2, <2>4, <2>5, <2>6
<1>6. ASSUME NEW s, Run(s) PROVE pc' # "fetch"
  BY <1>6 DEF Run, Over
<1>7. CASE LoadCheckpoint
  BY <1>1, <1>7 DEF LoadCheckpoint, Loads, Fails, Over
<1>8. CASE LoadCoreMl
  BY <1>1, <1>8 DEF LoadCoreMl, LoadBundle, Loads, Over
<1>9. CASE LoadConverted
  BY <1>1, <1>9 DEF LoadConverted, LoadBundle, Loads, Fails, Over
<1>10. CASE Checked \/ Kill \/ Leave
  BY <1>1, <1>10 DEF Checked, Kill, Leave, Over
<1>11. CASE UNCHANGED sourceVars
  BY <1>1, <1>2, <1>11 DEF sourceVars, fetchVars
<1>12. ASSUME NEW r \in Remote, Publish(r) PROVE pc' = pc
  BY <1>12 DEF Publish
<1> QED
  BY <1>1, <1>3, <1>4, <1>5, <1>6, <1>7, <1>8, <1>9, <1>10, <1>11, <1>12 DEF SourceNext

LEMMA CheckKeepsStep ==
    ASSUME SourceInv, CheckKeepsPromises, [SourceNext]_sourceVars
    PROVE  CheckKeepsPromises'
<1>e. Range(<<>>) = {}
  BY DEF Range
<1>1. CASE pc' # "check"
  BY <1>1 DEF CheckKeepsPromises
<1>2. CASE pc' = pc /\ todo' = todo
  BY <1>2 DEF CheckKeepsPromises, ToDo
<1>3. CASE todo' \in {<<>>, CheckpointFiles}
  BY <1>3, <1>e DEF CheckKeepsPromises, ToDo, Plan
<1>4. ASSUME NEW reachable \in BOOLEAN, Fetch(reachable) PROVE CheckKeepsPromises'
  <2>1. CASE pc = "check" /\ todo # <<>> /\ todo' = Tail(todo)
    <3>1. Range(todo') \subseteq Range(todo)
      BY <2>1, HeadAndTail DEF SourceInv, StageIsSound, ToDo
    <3> QED
      BY <2>1, <3>1 DEF CheckKeepsPromises, ToDo
  <2> QED
    BY <1>1, <1>3, <1>4, <2>1 DEF Fetch, Over
<1>5. ASSUME NEW info, NEW clean, NEW fresh, Loads(info, clean, fresh)
      PROVE  pc' # "check" \/ todo' \in {<<>>, CheckpointFiles}
  BY <1>5 DEF Loads
<1>6. CASE LoadCheckpoint
  BY <1>1, <1>3, <1>5, <1>6 DEF LoadCheckpoint, Fails, Over
<1>7. CASE LoadCoreMl
  BY <1>1, <1>3, <1>5, <1>7 DEF LoadCoreMl, LoadBundle, Over
<1>8. CASE LoadConverted
  BY <1>1, <1>3, <1>5, <1>8 DEF LoadConverted, LoadBundle, Fails, Over
<1>9. ASSUME NEW reachable \in BOOLEAN, Begin(reachable) PROVE pc' # "check"
  BY <1>9 DEF Begin, Over
<1>10. ASSUME NEW s, Run(s) PROVE pc' # "check"
  BY <1>10 DEF Run, Over
<1>11. CASE Checked \/ Kill \/ Leave
  BY <1>1, <1>11 DEF Checked, Kill, Leave, Over
<1>12. CASE UNCHANGED sourceVars
  BY <1>2, <1>12 DEF sourceVars, fetchVars
<1>13. ASSUME NEW r \in Remote, Publish(r) PROVE pc' = pc /\ todo' = todo
  BY <1>13 DEF Publish, fetchVars
<1> QED
  BY <1>1, <1>2, <1>3, <1>4, <1>6, <1>7, <1>8, <1>9, <1>10, <1>11, <1>12, <1>13 DEF SourceNext

-----------------------------------------------------------------------------
(* A load of what was promised, and a new promise.                         *)

\* A directory's bundles are what it holds.
LEMMA DirectoryIsKept ==
    ASSUME SourceInv, pc = "fetch", Repo \in Local
    PROVE  BundleHere = BundleOf(KeptFiles(Repo)) /\ Clean /\ KeptAt(Repo) = 1
<1>1. ~lost /\ got = [f \in DOMAIN Published[Repo][1] |-> 1]
  BY DEF SourceInv, FetchIsSound
<1>2. Clean
  BY <1>1 DEF Clean
<1>3. Clean = TRUE
  BY <1>2 DEF Clean
<1>4. From(CONFIG) = 1 /\ KeptAt(Repo) = 1
  BY DEF From, KeptAt, Repo
<1>5. Directory(Repo, 1) = [f \in DOMAIN Published[Repo][1] |-> Published[Repo][1][f]]
  BY DEF Directory
<1>6. KeptFiles(Repo) = [f \in DOMAIN Published[Repo][1] |-> Published[Repo][1][f]]
  BY <1>4, Zenon DEF KeptFiles
<1>7. Directory(Source.repo, From(CONFIG)) = KeptFiles(Repo)
  BY <1>4, <1>5, <1>6, Zenon DEF Repo
<1>8. BundleHere = BundleOf(KeptFiles(Repo))
  BY <1>3, <1>7, Zenon DEF BundleHere, BundleOf
<1> QED
  BY <1>2, <1>4, <1>8

\* What the files that were fetched make, with the bundles in `made`.
Makes(made, info) ==
    /\ Source.kind = "checkpoint" =>
         /\ CheckpointRefused(Model, CheckpointHere) = 0
         /\ info = Info(Model, CheckpointHere, {CheckpointHere[WEIGHTS]}, {}, None)
    /\ Source.kind = "bundle" => LoadsAs(Model, BundleHere, None, info)
    /\ Source.kind = "convert" =>
         EntryOf \in DOMAIN made /\ LoadsAs(Model, made[EntryOf], made[EntryOf].quantization, info)

\* A promised model is what its flags make.
LEMMA PromisedLoads ==
    ASSUME SourceInv, FetchKeepsPromises, pc = "fetch", todo = <<>>,
           NEW p \in promised, IsKept(p), p.model = Model
    PROVE  Makes(conversions, p.info)
<1>1. SourceOf(p.model) = Source /\ SourceOf(p.model).repo = Repo
  BY DEF Source, Repo
<1>2. Repo \in Remote => Source.kind # "bundle"
  BY <1>1 DEF IsKept
<1>3. Repo \in Local \/ Repo \in Remote
  BY SourceExists DEF SourceInv
<1>4. Source.kind # "bundle" => CheckpointHere = KeptFiles(Repo) /\ From(WEIGHTS) = KeptAt(Repo)
  BY <1>1, GotIsKept, PromisedIsGot
<1>5. CASE Source.kind = "checkpoint"
  <2>1. CheckpointHere = KeptFiles(Repo)
    BY <1>4, <1>5
  <2>2. CheckpointRefused(Model, KeptFiles(Repo)) = 0
        /\ p.info = Info(Model, KeptFiles(Repo), {KeptFiles(Repo)[WEIGHTS]}, {}, None)
    BY <1>1, <1>5, Zenon DEF IsKept
  <2> QED
    BY <1>5, <2>1, <2>2 DEF Makes
<1>6. CASE Source.kind = "bundle"
  <2>1. BundleHere = BundleOf(KeptFiles(Repo))
    BY <1>2, <1>3, <1>6, DirectoryIsKept
  <2>2. LoadsAs(Model, BundleOf(KeptFiles(Repo)), None, p.info)
    BY <1>1, <1>6, Zenon DEF IsKept
  <2> QED
    BY <1>6, <2>1, <2>2 DEF Makes
<1>7. CASE Source.kind = "convert"
  <2> DEFINE entry == <<Repo, KeptAt(Repo), Model.coreml_buckets, Model.coreml_quantize>>
  <2>1. EntryOf = entry
    BY <1>4, <1>7 DEF EntryOf, Repo
  <2>2. entry \in DOMAIN conversions /\ LoadsAs(Model, conversions[entry], conversions[entry].quantization, p.info)
    BY <1>1, <1>7, Zenon DEF IsKept
  <2> QED
    BY <1>7, <2>1, <2>2 DEF Makes
<1>8. CASE Source.kind \notin {"checkpoint", "bundle", "convert"}
  BY <1>8 DEF Makes
<1> QED
  BY <1>5, <1>6, <1>7, <1>8

\* What a load of the files fetched does.
LEMMA LoadOutcome ==
    ASSUME LoadCheckpoint \/ LoadCoreMl \/ LoadConverted
    PROVE  /\ pc = "fetch" /\ todo = <<>> /\ UNCHANGED <<hub, cache, start>>
           /\ \/ /\ \E code : Over(code)
                 /\ UNCHANGED <<at, promised>>
                 /\ \A x : ~Makes(conversions, x)
              \/ \E info, clean, fresh :
                    /\ Loads(info, clean, fresh)
                    /\ Makes(conversions', info)
                    /\ \A x : Makes(conversions, x) => x = info
<1>1. CASE LoadCheckpoint
  <2> DEFINE info == Info(Model, CheckpointHere, {CheckpointHere[WEIGHTS]}, {}, None)
  <2>1. pc = "fetch" /\ todo = <<>> /\ Source.kind = "checkpoint" /\ cache' = cache
    BY <1>1 DEF LoadCheckpoint
  <2>2. CASE CheckpointRefused(Model, CheckpointHere) # 0
    <3>1. Fails(CheckpointRefused(Model, CheckpointHere))
      BY <1>1, <2>2 DEF LoadCheckpoint
    <3>2. \A x : ~Makes(conversions, x)
      BY <2>1, <2>2 DEF Makes
    <3> QED
      BY <2>1, <3>1, <3>2 DEF Fails, hubVars
  <2>3. CASE CheckpointRefused(Model, CheckpointHere) = 0
    <3>1. Loads(info, Clean, FALSE)
      BY <1>1, <2>3 DEF LoadCheckpoint
    <3>2. \A x, made : Makes(made, x) <=> x = info
      BY <2>1, <2>3, Zenon DEF Makes
    <3>3. UNCHANGED <<hub, start>>
      BY <3>1 DEF Loads, hubVars
    <3> QED
      BY <2>1, <3>1, <3>2, <3>3
  <2> QED
    BY <2>2, <2>3
<1>2. ASSUME NEW d, NEW quantization, NEW fresh, LoadBundle(d, quantization, fresh)
      PROVE  /\ UNCHANGED <<hub, start>>
             /\ \/ /\ \E code : Over(code)
                   /\ UNCHANGED <<at, promised>>
                   /\ \A x : ~LoadsAs(Model, d, quantization, x)
                \/ \E info, clean :
                      /\ Loads(info, clean, fresh)
                      /\ \A x : LoadsAs(Model, d, quantization, x) <=> x = info
  <2> DEFINE info == Info(Model, d.files, d.weights, d.buckets, quantization)
  <2>1. CASE BundleRefused(Model, d) # 0
    BY <1>2, <2>1 DEF LoadBundle, LoadsAs, hubVars
  <2>2. CASE BundleRefused(Model, d) = 0
    <3>1. Loads(info, d.clean, fresh)
      BY <1>2, <2>2 DEF LoadBundle
    <3>2. \A x : LoadsAs(Model, d, quantization, x) <=> x = info
      BY <2>2, Zenon DEF LoadsAs
    <3>3. UNCHANGED <<hub, start>>
      BY <3>1 DEF Loads, hubVars
    <3> QED
      BY <3>1, <3>2, <3>3
  <2> QED
    BY <2>1, <2>2
<1>3. CASE LoadCoreMl
  <2>1. /\ pc = "fetch" /\ todo = <<>> /\ Source.kind = "bundle" /\ cache' = cache
        /\ \E fresh : LoadBundle(BundleHere, None, fresh)
    BY <1>3, Zenon DEF LoadCoreMl
  <2>2. \A x : Makes(conversions, x) <=> LoadsAs(Model, BundleHere, None, x)
    BY <2>1, Zenon DEF Makes
  <2>3. \A x : Makes(conversions', x) <=> LoadsAs(Model, BundleHere, None, x)
    BY <2>1, Zenon DEF Makes
  <2> QED
    BY ONLY <1>2, <2>1, <2>2, <2>3
<1>4. CASE LoadConverted
  <2> DEFINE made == Converted(CheckpointHere)
             kept == [k \in DOMAIN conversions \ Superseded(EntryOf) |-> conversions[k]]
  <2>1. pc = "fetch" /\ todo = <<>> /\ Source.kind = "convert" /\ cache' = cache
    BY <1>4 DEF LoadConverted
  <2>2. \A x, m : Makes(m, x) <=> EntryOf \in DOMAIN m /\ LoadsAs(Model, m[EntryOf], m[EntryOf].quantization, x)
    BY <2>1, Zenon DEF Makes
  <2>3. CASE EntryOf \in DOMAIN conversions
    <3>1. /\ \E fresh : LoadBundle(conversions[EntryOf], conversions[EntryOf].quantization, fresh)
          /\ conversions' = conversions
      BY <1>4, <2>3, Zenon DEF LoadConverted
    <3>2. \A x : Makes(conversions, x) <=>
                    LoadsAs(Model, conversions[EntryOf], conversions[EntryOf].quantization, x)
      BY <2>2, <2>3
    <3>3. \A x : Makes(conversions', x) <=>
                    LoadsAs(Model, conversions[EntryOf], conversions[EntryOf].quantization, x)
      BY <3>1, <3>2
    <3> QED
      BY ONLY <1>2, <2>1, <3>1, <3>2, <3>3
  <2>4. CASE EntryOf \notin DOMAIN conversions /\ ConversionRefused(CheckpointHere)
    <3>1. Fails(1)
      BY <1>4, <2>4 DEF LoadConverted
    <3> QED
      BY <2>1, <2>2, <2>4, <3>1 DEF Fails, hubVars
  <2>5. CASE EntryOf \notin DOMAIN conversions /\ ~ConversionRefused(CheckpointHere)
    <3>1. LoadBundle(made, made.quantization, TRUE) /\ conversions' = With(kept, EntryOf, made)
      BY <1>4, <2>5, Zenon DEF LoadConverted
    <3> HIDE DEF made, kept
    <3>2. EntryOf \in DOMAIN conversions' /\ conversions'[EntryOf] = made
      BY <3>1 DEF With
    <3>3. \A x : ~Makes(conversions, x)
      BY <2>2, <2>5
    <3>4. \A x : Makes(conversions', x) <=> LoadsAs(Model, made, made.quantization, x)
      BY <2>2, <3>2
    <3> QED
      BY <1>2, <2>1, <3>1, <3>3, <3>4
  <2> QED
    BY <2>3, <2>4, <2>5
<1> QED
  BY <1>1, <1>3, <1>4

\* A promise that a load makes is of the model it loaded, and of the files it has.
LEMMA NewPromise ==
    ASSUME StageIsSound, pc = "fetch", NEW info, NEW clean, NEW fresh, Loads(info, clean, fresh),
           NEW p \in promised', p \notin promised
    PROVE  /\ p.model = Model /\ p.info = info /\ Clean
           /\ Repo \in Remote => /\ Source.kind # "bundle"
                                 /\ p.whole => PlanFiles \subseteq DOMAIN got
                                 /\ p.whole \/ hub[Repo] = got[WEIGHTS]
<1> DEFINE whole == Source.repo \in Local
                    \/ {CheckpointFiles[i].file : i \in DOMAIN CheckpointFiles} \subseteq DOMAIN got
           lasts == Source.repo \in Local \/ (Source.kind # "bundle" /\ (whole \/ hub[Source.repo] = got[WEIGHTS]))
<1>1. promised' \in {promised} \union
          (IF clean /\ Clean /\ lasts THEN {{[model |-> Model, info |-> info, whole |-> whole]}} ELSE {})
  BY Zenon DEF Loads
<1>2. {CheckpointFiles[i].file : i \in DOMAIN CheckpointFiles} = PlanFiles
  BY DEF PlanFiles, Plan, Range
<1>3. whole <=> (Repo \in Local \/ PlanFiles \subseteq DOMAIN got)
  BY <1>2 DEF Repo
<1>4. lasts => Repo \in Local \/ (Source.kind # "bundle" /\ (whole \/ hub[Repo] = got[WEIGHTS]))
  BY DEF Repo
<1> HIDE DEF whole, lasts
<1>5. Clean /\ lasts /\ p = [model |-> Model, info |-> info, whole |-> whole]
  BY <1>1
<1>6. p.model = Model /\ p.info = info /\ p.whole = whole
  BY <1>5
<1>7. Repo \in Remote => Repo \notin Local
  BY DEF Remote
<1> QED
  BY <1>3, <1>4, <1>5, <1>6, <1>7

\* The files a clean load has are kept as long as its promise is.
LEMMA GotAreKept ==
    ASSUME SourceInv, FetchKeepsPromises, pc = "fetch", todo = <<>>, Source.kind # "bundle",
           Repo \in Remote, Clean, NEW whole,
           whole => PlanFiles \subseteq DOMAIN got, whole \/ hub[Repo] = got[WEIGHTS]
    PROVE  FilesAreKept(Repo, whole)
<1> DEFINE ref == cache[Repo].ref
           here == cache[Repo].snaps[ref]
<1>1. WEIGHTS \in DOMAIN got /\ GotAll
  BY CleanIsGot
<1>2. \A f \in DOMAIN got : got[f] \in Commits(Repo) /\ f \in cache[Repo].snaps[got[f]]
  BY DEF SourceInv, FetchIsSound, Remote
<1>3. got[WEIGHTS] = ref /\ \A f \in DOMAIN got : f \in here
  BY <1>1, <1>2 DEF GotAll
<1>4. ref # 0
  <2>1. ref \in Commits(Repo)
    BY <1>1, <1>2, <1>3
  <2> QED
    BY <2>1, PublishedIsSound DEF Commits, Remote
<1>5. {WEIGHTS, CONFIG, TOKENIZER} \subseteq DOMAIN got
  <2>1. WeightsFirst
    BY DEF SourceInv, FetchIsSound, Remote
  <2>2. ToDo = {}
    BY WeightsAreGot
  <2>3. todo # CheckpointFiles
    BY CheckpointFilesAreFive
  <2>4. \A e \in Plan : e.file \in DOMAIN got \/ ~e.required
    BY <2>1, <2>2, <2>3 DEF WeightsFirst
  <2>5. /\ Required(WEIGHTS) \in Plan /\ Required(CONFIG) \in Plan /\ Required(TOKENIZER) \in Plan
    BY CheckpointFilesAreFive
  <2>6. \A f : Required(f).file = f /\ Required(f).required
    BY DEF Required
  <2> QED
    BY <2>4, <2>5, <2>6
<1>6. PlanFiles \intersect DOMAIN Published[Repo][ref] \subseteq here
  BY <1>1, <1>3 DEF GotAll
<1> HIDE DEF ref, here
<1>7. {WEIGHTS, CONFIG, TOKENIZER} \subseteq here
  BY <1>3, <1>5
<1>8. IF whole THEN PlanFiles \subseteq here ELSE hub[Repo] = ref
  BY <1>3
<1> QED
  BY <1>4, <1>6, <1>7, <1>8 DEF FilesAreKept, ref, here

LEMMA NewPromiseIsKept ==
    ASSUME SourceInv, FetchKeepsPromises, pc = "fetch", todo = <<>>, UNCHANGED <<hub, cache>>,
           NEW info, NEW clean, NEW fresh, Loads(info, clean, fresh), Makes(conversions', info),
           NEW p \in promised', p \notin promised
    PROVE  IsKept(p)'
<1>1. /\ p.model = Model /\ p.info = info /\ Clean
      /\ Repo \in Remote => /\ Source.kind # "bundle"
                            /\ p.whole => PlanFiles \subseteq DOMAIN got
                            /\ p.whole \/ hub[Repo] = got[WEIGHTS]
  BY NewPromise DEF SourceInv
<1>2. SourceOf(p.model) = Source /\ SourceOf(p.model).repo = Repo
  BY <1>1 DEF Source, Repo
<1> PICK m, source, r, whole : m = Model /\ source = Source /\ r = Repo /\ whole = p.whole
  OBVIOUS
<1>4. KeptAt(r)' = KeptAt(r)
  BY DEF KeptAt
<1>5. KeptFiles(r)' = KeptFiles(r)
  BY <1>4, Zenon DEF KeptFiles
<1>6. /\ r \in DOMAIN Published /\ RefusedEarly(m) = 0 /\ (r \in Local \/ r \in Remote)
  BY SourceExists DEF SourceInv, FetchIsSound
<1>7. r \in Remote => source.kind # "bundle" /\ FilesAreKept(r, whole)
  BY <1>1, GotAreKept
<1>8. FilesAreKept(r, whole)' <=> FilesAreKept(r, whole)
  BY DEF FilesAreKept
<1>9. source.kind # "bundle" => CheckpointHere = KeptFiles(r) /\ From(WEIGHTS) = KeptAt(r)
  BY <1>1, GotIsKept, CleanIsGot
<1>10. source.kind = "checkpoint" =>
         /\ CheckpointRefused(m, KeptFiles(r)) = 0
         /\ p.info = Info(m, KeptFiles(r), {KeptFiles(r)[WEIGHTS]}, {}, None)
  <2> SUFFICES ASSUME source.kind = "checkpoint"
               PROVE  /\ CheckpointRefused(m, KeptFiles(r)) = 0
                      /\ p.info = Info(m, KeptFiles(r), {KeptFiles(r)[WEIGHTS]}, {}, None)
    OBVIOUS
  <2>1. CheckpointHere = KeptFiles(r)
    BY <1>9
  <2>2. CheckpointRefused(m, CheckpointHere) = 0 /\ p.info = Info(m, CheckpointHere, {CheckpointHere[WEIGHTS]}, {}, None)
    BY <1>1 DEF Makes
  <2> QED
    BY <2>1, <2>2, Zenon
<1>11. source.kind = "bundle" => LoadsAs(m, BundleOf(KeptFiles(r)), None, p.info)
  <2> SUFFICES ASSUME source.kind = "bundle" PROVE LoadsAs(m, BundleOf(KeptFiles(r)), None, p.info)
    OBVIOUS
  <2>1. BundleHere = BundleOf(KeptFiles(r))
    BY <1>6, <1>7, DirectoryIsKept
  <2>2. LoadsAs(m, BundleHere, None, p.info)
    BY <1>1 DEF Makes
  <2> QED
    BY <2>1, <2>2, Zenon
<1>12. source.kind = "convert" =>
         LET entry == <<r, KeptAt(r), m.coreml_buckets, m.coreml_quantize>>
         IN entry \in DOMAIN conversions' /\ LoadsAs(m, conversions'[entry], conversions'[entry].quantization, p.info)
  <2> SUFFICES ASSUME source.kind = "convert"
               PROVE  LET entry == <<r, KeptAt(r), m.coreml_buckets, m.coreml_quantize>>
                      IN /\ entry \in DOMAIN conversions'
                         /\ LoadsAs(m, conversions'[entry], conversions'[entry].quantization, p.info)
    OBVIOUS
  <2>1. EntryOf = <<r, KeptAt(r), m.coreml_buckets, m.coreml_quantize>>
    BY <1>9 DEF EntryOf, Repo
  <2>2. EntryOf \in DOMAIN conversions' /\ LoadsAs(m, conversions'[EntryOf], conversions'[EntryOf].quantization, p.info)
    BY <1>1 DEF Makes
  <2> QED
    BY <2>1, <2>2, Zenon
<1>13. SourceOf(p.model) = source /\ source.repo = r /\ p.model = m
  BY <1>1, <1>2
<1> QED
  BY <1>4, <1>5, <1>6, <1>7, <1>8, <1>10, <1>11, <1>12, <1>13 DEF IsKept

LEMMA PromisesStep ==
    ASSUME SourceInv, PromisesAreKept, FetchKeepsPromises, CheckKeepsPromises, [SourceNext]_sourceVars
    PROVE  PromisesAreKept'
<1> SUFFICES ASSUME NEW p \in promised' PROVE IsKept(p)'
  BY DEF PromisesAreKept
<1>1. CASE p \in promised
  BY <1>1, PromiseStays DEF PromisesAreKept
<1>2. CASE p \notin promised
  <2>1. CASE LoadCheckpoint \/ LoadCoreMl \/ LoadConverted
    BY <1>2, <2>1, LoadOutcome, NewPromiseIsKept
  <2>2. ASSUME NEW r, Publish(r) PROVE promised' \subseteq promised
    BY <2>2 DEF Publish
  <2>3. ASSUME NEW reachable, Fetch(reachable) PROVE promised' \subseteq promised
    BY <2>3 DEF Fetch
  <2>4. ASSUME NEW reachable, Begin(reachable) PROVE promised' = promised
    BY <2>4 DEF Begin
  <2>5. ASSUME NEW s, Run(s) PROVE promised' = promised
    BY <2>5 DEF Run
  <2>6. CASE Checked \/ Kill \/ Leave
    BY <1>2, <2>6 DEF Checked, Kill, Leave
  <2>7. CASE UNCHANGED sourceVars
    BY <1>2, <2>7 DEF sourceVars
  <2> QED
    BY <1>2, <2>1, <2>2, <2>3, <2>4, <2>5, <2>6, <2>7 DEF SourceNext
<1> QED
  BY <1>1, <1>2

-----------------------------------------------------------------------------
(* The same flags load the same model again.                               *)

\* What is promised of a start while it loads is not refused.
LEMMA NotRefused ==
    ASSUME SourceInv, PromisesAreKept, FetchKeepsPromises, CheckKeepsPromises,
           NEW p \in promised, p.model = Model,
           \/ \E reachable \in BOOLEAN : Begin(reachable) \/ Fetch(reachable)
           \/ LoadCheckpoint \/ LoadCoreMl \/ LoadConverted
    PROVE  pc' # "over"
<1>1. IsKept(p) /\ SourceOf(p.model) = Source /\ SourceOf(p.model).repo = Repo
  BY DEF PromisesAreKept, Source, Repo
<1>2. RefusedEarly(Model) = 0 /\ (Repo \in Remote => Source.kind # "bundle" /\ FilesAreKept(Repo, p.whole))
  BY <1>1 DEF IsKept
<1>3. ASSUME NEW reachable \in BOOLEAN, Begin(reachable) PROVE pc' # "over"
  <2>1. Repo \in Local \/ ~ListsFirst
    BY <1>2, <1>3, SourceExists DEF Begin, ListsFirst, SourceInv
  <2> QED
    BY <1>2, <1>3, <2>1 DEF Begin, Repo
<1>4. ASSUME NEW reachable \in BOOLEAN, Fetch(reachable) PROVE pc' # "over"
  <2> DEFINE h == Head(todo)
             c == Get(Repo, h.file, reachable)
  <2>1. /\ pc \in {"fetch", "check"} /\ todo # <<>> /\ hub' = hub
        /\ cache' = GetInto(Repo, h.file, reachable)
        /\ pc' # "over" \/ (c = 0 /\ h.required)
    BY <1>4 DEF Fetch, Repo, hubVars
  <2>2. Repo \in Remote /\ h \in Plan /\ h.file \in PlanFiles
    BY <1>2, <2>1, HeadIsPlanned DEF PlanFiles
  <2>3. FilesAreKept(Repo, p.whole)
    BY <1>2, <2>2
  <2>4. c = 0 => h.file \notin DOMAIN Published[Repo][cache[Repo].ref]
    BY <2>1, <2>2, <2>3, GetKeepsFiles
  <2>5. {WEIGHTS, CONFIG, TOKENIZER} \subseteq DOMAIN Published[Repo][cache[Repo].ref]
    BY <2>2, <2>3 DEF FilesAreKept, SourceInv, CacheIsSound
  <2>6. h.required => h.file \in {WEIGHTS, CONFIG, TOKENIZER}
    BY <2>2, CheckpointFilesAreFive DEF Required, Optional
  <2> QED
    BY <2>1, <2>4, <2>5, <2>6
<1>5. CASE LoadCheckpoint \/ LoadCoreMl \/ LoadConverted
  <2>1. pc = "fetch" /\ todo = <<>>
    BY <1>5, LoadOutcome
  <2>2. Makes(conversions, p.info)
    BY <1>1, <2>1, PromisedLoads
  <2>3. \E info, clean, fresh : Loads(info, clean, fresh)
    BY <1>5, <2>2, LoadOutcome
  <2> QED
    BY <2>3 DEF Loads
<1> QED
  BY <1>3, <1>4, <1>5

\* One more model that is as it was, if it was promised.
LEMMA LoadsAsPromised ==
    ASSUME SourceInv, PromisesAreKept, FetchKeepsPromises, RepeatableOffline,
           pc = "fetch", todo = <<>>, start' = start,
           NEW info, NEW clean, NEW fresh, Loads(info, clean, fresh),
           \A x : Makes(conversions, x) => x = info,
           NEW p \in promised', NEW i \in DOMAIN loaded', Models(start')[i] = p.model
    PROVE  loaded'[i].info = p.info
<1> DEFINE model == [info |-> info, clean |-> clean]
<1>1. /\ loaded' = Append(loaded, model)
      /\ Len(loaded) = at - 1 /\ at \in DOMAIN Models(start) /\ loaded \in Seq(Range(loaded))
      /\ machine \in Machines /\ start \in machine
  BY DEF Loads, SourceInv, StageIsSound
<1>2. at \in Nat /\ DOMAIN Models(start) = 1..Len(Models(start)) /\ Len(Models(start)) \in Nat
  BY <1>1, ModelsAreSome
<1>3. IF i = at THEN loaded'[i] = model ELSE i \in DOMAIN loaded /\ loaded'[i] = loaded[i]
  BY <1>1, <1>2, OneMore
<1>4. model.info = info /\ Models(start)[at] = Model
  BY DEF Model
<1> HIDE DEF model
<1>5. CASE p \in promised /\ i = at
  <2>1. p.model = Model /\ IsKept(p)
    BY <1>4, <1>5 DEF PromisesAreKept
  <2>2. p.info = info
    BY <1>5, <2>1, PromisedLoads
  <2> QED
    BY <1>3, <1>4, <1>5, <2>2
<1>6. CASE p \in promised /\ i # at
  BY <1>3, <1>6 DEF RepeatableOffline
<1>7. CASE p \notin promised
  <2>1. p.model = Model /\ p.info = info
    BY <1>7, NewPromise DEF SourceInv
  <2>2. i = at
    <3> SUFFICES ASSUME i # at PROVE FALSE
      OBVIOUS
    <3>1. i \in 1..Len(loaded)
      BY <1>1, <1>3
    <3>2. i \in DOMAIN Models(start) \ {at}
      BY <1>1, <1>2, <3>1
    <3>3. Models(start)[i].kind # Models(start)[at].kind
      BY <1>1, <3>2, FlagsAreSound
    <3> QED
      BY <1>4, <2>1, <3>3
  <2> QED
    BY <1>3, <1>4, <2>1, <2>2
<1> QED
  BY <1>5, <1>6, <1>7

LEMMA RepeatStep ==
    ASSUME SourceInv, PromisesAreKept, FetchKeepsPromises, CheckKeepsPromises, RepeatableOffline,
           [SourceNext]_sourceVars
    PROVE  RepeatableOffline'
<1> SUFFICES ASSUME NEW p \in promised'
             PROVE  /\ pc' = "over" /\ exit' \in {1, 3} /\ at' # 0 => Model' # p.model
                    /\ \A i \in DOMAIN loaded' : Models(start')[i] = p.model => loaded'[i].info = p.info
  BY DEF RepeatableOffline
<1>e. \A i \in DOMAIN <<>> : FALSE
  OBVIOUS
<1>1. CASE LoadCheckpoint \/ LoadCoreMl \/ LoadConverted
  <2>1. pc = "fetch" /\ todo = <<>> /\ start' = start
    BY <1>1, LoadOutcome
  <2>2. CASE \E info, clean, fresh : Loads(info, clean, fresh) /\ \A x : Makes(conversions, x) => x = info
    <3>1. pc' # "over"
      BY <2>2 DEF Loads
    <3> QED
      BY <2>1, <2>2, <3>1, LoadsAsPromised
  <2>3. CASE (\E code : Over(code)) /\ UNCHANGED <<at, promised>>
    <3>1. loaded' = <<>> /\ pc' = "over" /\ Model' = Model
      BY <2>1, <2>3 DEF Over, Model
    <3>2. Model # p.model
      BY <1>1, <2>3, <3>1, NotRefused
    <3> QED
      BY <1>e, <3>1, <3>2
  <2> QED
    BY <1>1, <2>2, <2>3, LoadOutcome
<1>2. ASSUME NEW reachable \in BOOLEAN, Begin(reachable) \/ Fetch(reachable)
      PROVE  /\ pc' = "over" /\ exit' \in {1, 3} /\ at' # 0 => Model' # p.model
             /\ \A i \in DOMAIN loaded' : Models(start')[i] = p.model => loaded'[i].info = p.info
  <2>1. UNCHANGED <<start, at>> /\ p \in promised
    BY <1>2 DEF Begin, Fetch
  <2>2. Model' = Model
    BY <2>1 DEF Model
  <2>3. pc' = "over" => Model # p.model
    BY <1>2, <2>1, NotRefused
  <2>4. loaded' = loaded \/ loaded' = <<>>
    BY <1>2 DEF Begin, Fetch, Over
  <2> QED
    BY <1>e, <2>1, <2>2, <2>3, <2>4 DEF RepeatableOffline
<1>3. ASSUME NEW r, Publish(r)
      PROVE  pc' # "over" /\ UNCHANGED <<start, loaded>> /\ p \in promised
  BY <1>3 DEF Publish
<1>4. ASSUME NEW s, Run(s) PROVE (pc' # "over" \/ at' = 0) /\ loaded' = <<>>
  BY <1>4 DEF Run, Over, SourceInv, StageIsSound
<1>5. CASE Checked
  BY <1>5 DEF Checked, RepeatableOffline
<1>6. CASE Kill
  BY <1>e, <1>6 DEF Kill, Over
<1>7. CASE Leave
  BY <1>e, <1>7 DEF Leave
<1>8. CASE UNCHANGED sourceVars
  BY <1>8 DEF sourceVars, hubVars, RepeatableOffline, Model
<1> QED
  BY <1>e, <1>1, <1>2, <1>3, <1>4, <1>5, <1>6, <1>7, <1>8 DEF SourceNext, RepeatableOffline

\* The invariant of promises.
RepeatInv == PromisesAreKept /\ FetchKeepsPromises /\ CheckKeepsPromises /\ RepeatableOffline

\* Once a model was loaded whole, its flags load it again with the same settings:
\* with the Hub out of reach, after newer commits, other starts and kills.
THEOREM WholeModelsLoadAgain == Spec => []RepeatableOffline
<1>1. Init => RepeatInv
  BY DEF Init, SourceInit, RepeatInv, PromisesAreKept, FetchKeepsPromises, CheckKeepsPromises, RepeatableOffline
<1>2. SourceInv /\ RepeatInv /\ [Next]_apiVars => RepeatInv'
  <2> SUFFICES ASSUME SourceInv, RepeatInv, [Next]_apiVars PROVE RepeatInv'
    OBVIOUS
  <2>1. [SourceNext]_sourceVars
    BY DEF Next, Handle, apiVars
  <2> QED
    BY <2>1, PromisesStep, FetchKeepsStep, CheckKeepsStep, RepeatStep DEF RepeatInv
<1> QED
  BY <1>1, <1>2, SourceIsSound, PTL DEF Spec, RepeatInv

-----------------------------------------------------------------------------
(* Embeddings.                                                             *)

LEMMA EmbeddingsRoute ==
    ASSUME NEW req, NEW outcome, NEW infos, req.path = "/v1/embeddings", req.method = "POST"
    PROVE  Route(req, outcome, infos) =
              IF ReadBody(req) # None THEN ReadBody(req) ELSE Embeddings(req.body, outcome, infos[1])
BY Zenon DEF Route, Gets

LEMMA RerankRoute ==
    ASSUME NEW req, NEW outcome, NEW infos, req.path = "/v1/rerank", req.method = "POST"
    PROVE  Route(req, outcome, infos) =
              IF Len(infos) = 1 THEN Problem(404, None)
              ELSE IF ReadBody(req) # None THEN ReadBody(req) ELSE Rerank(req.body, outcome, infos[2])
BY Zenon DEF Route, Gets

\* What each kind of reply says.
LEMMA Statuses ==
    /\ \A body : Ok(body).status = 200 /\ Ok(body).body = body
    /\ \A status, header : Problem(status, header).status = status
    /\ \A param : Invalid(param).status = 400
    /\ \A outcome : WorkerProblem(outcome).status \in {500, 503}
BY DEF Ok, Problem, Invalid, WorkerProblem

\* The whole of a body is read, or the request is refused.
LEMMA ReadBodyIsWhole ==
    ASSUME start.max_body_bytes \in Nat, NEW req \in Requests
    PROVE  /\ ReadBody(req) = None <=> /\ req.sent <= start.max_body_bytes
                                       /\ req.declared # None => req.declared = req.sent
           /\ ReadBody(req) # None => ReadBody(req).status \in {400, 413}
<1> DEFINE max == start.max_body_bytes
<1>1. req.sent \in Nat /\ req.declared \in Nat \union {None} /\ (req.declared # None => req.sent <= req.declared)
  BY RequestsAreSound
<1>2. Problem(413, None) # None /\ Invalid(None) # None
  BY NoneIsNoProblem
<1>3. Problem(413, None).status = 413 /\ Invalid(None).status = 400
  BY Statuses
<1>4. ReadBody(req) = IF req.declared # None /\ req.declared > max THEN Problem(413, None)
                      ELSE IF req.sent > max THEN Problem(413, None)
                      ELSE IF req.declared # None /\ req.sent < req.declared THEN Invalid(None)
                      ELSE None
  BY DEF ReadBody
<1>5. ReadBody(req) = None <=> /\ ~(req.declared # None /\ req.declared > max)
                               /\ ~(req.sent > max) /\ ~(req.declared # None /\ req.sent < req.declared)
  BY <1>2, <1>4, Zenon
<1>6. ReadBody(req) # None => ReadBody(req) \in {Problem(413, None), Invalid(None)}
  BY <1>4
<1>7. ReadBody(req) = None <=> req.sent <= max /\ (req.declared # None => req.declared = req.sent)
  <2>1. CASE req.declared = None
    BY <1>1, <1>5, <2>1
  <2>2. CASE req.declared # None
    BY <1>1, <1>5, <2>2
  <2> QED
    BY <2>1, <2>2
<1> QED
  BY <1>3, <1>6, <1>7

\* The server that is up, and the settings of its embedder.
LEMMA ServerIsUp ==
    ASSUME SourceInv, NEW req, NEW outcome, Handle(req, outcome)
    PROVE  /\ start.max_inputs \in Nat /\ start.max_body_bytes \in Nat
           /\ Len(loaded) \in {1, 2} /\ DOMAIN loaded = 1..Len(loaded)
           /\ SetAsFlagged(start.model, loaded[1].info)
           /\ start' = start /\ loaded' = loaded
           /\ request' = [req |-> req, outcome |-> outcome]
           /\ reply' = Route(req, outcome, [i \in DOMAIN loaded |-> loaded[i].info])
<1>1. /\ pc = "up" /\ start.program = "kohagi-serve" /\ start' = start /\ loaded' = loaded
      /\ request' = [req |-> req, outcome |-> outcome]
      /\ reply' = Route(req, outcome, [i \in DOMAIN loaded |-> loaded[i].info])
  BY DEF Handle, sourceVars
<1>2. machine \in Machines /\ start \in machine /\ Len(loaded) = Len(Models(start)) /\ loaded \in Seq(Range(loaded))
  BY <1>1 DEF SourceInv, StageIsSound
<1>3. Len(loaded) \in {1, 2} /\ DOMAIN loaded = 1..Len(loaded)
  <2>1. DOMAIN loaded = 1..Len(loaded)
    BY <1>2
  <2>2. Len(Models(start)) \in {1, 2}
    BY ModelsAreSome
  <2> QED
    BY <1>2, <2>1, <2>2
<1>4. Models(start)[1] = start.model
  <2>1. \A a, b : <<a>>[1] = a /\ <<a, b>>[1] = a
    OBVIOUS
  <2>2. \E b : Models(start) = <<start.model>> \/ Models(start) = <<start.model, b>>
    BY <1>1, Zenon DEF Models
  <2> QED
    BY <2>1, <2>2
<1>5. SetAsFlagged(start.model, loaded[1].info)
  <2>1. 1 \in DOMAIN loaded
    BY <1>3
  <2> QED
    BY <1>4, <2>1 DEF SourceInv, SettingsAreFlagged
<1> QED
  BY <1>1, <1>2, <1>3, <1>5, LimitsAreSound

\* The texts are of the request, or it is refused.
LEMMA TextsAreTaken ==
    ASSUME start.max_inputs \in Nat, NEW req \in Requests, req.body.is = "embeddings"
    PROVE  LET input == req.body.input
               texts == Items(input)
           IN /\ DOMAIN texts = 1..Len(texts)
              /\ TextsOk(input, start.max_inputs) <=>
                    /\ input.is \in {"string", "array"} /\ texts # <<>> /\ Len(texts) <= start.max_inputs
                    /\ \A i \in DOMAIN texts : texts[i].is = "string" /\ texts[i].text # <<>>
<1> DEFINE input == req.body.input
           texts == Items(input)
<1>1. \E S : texts \in Seq(S)
  <2>1. CASE input.is = "string"
    <3>1. texts = <<input>>
      BY <2>1 DEF Items
    <3>2. texts \in Seq({input})
      BY <3>1
    <3> QED
      BY <3>2
  <2>2. CASE input.is # "string"
    <3>1. texts = req.body.input.items
      BY <2>2 DEF Items
    <3> QED
      BY <3>1, RequestsAreSound
  <2> QED
    BY <2>1, <2>2
<1> HIDE DEF texts
<1>2. DOMAIN texts = 1..Len(texts) /\ Len(texts) \in Nat /\ (texts # <<>> <=> Len(texts) # 0)
  BY <1>1
<1>3. Len(texts) \in 1..start.max_inputs <=> texts # <<>> /\ Len(texts) <= start.max_inputs
  BY <1>2
<1> QED
  BY <1>2, <1>3, Zenon DEF TextsOk, texts

Vector(info, text, width, unit) ==
    [of |-> text, weights |-> info.weights, tokenizer |-> info.tokenizer,
     pooling |-> info.pooling, width |-> width, unit |-> unit]

LEMMA VectorsAreCut ==
    ASSUME NEW info, NEW text, NEW w, NEW u, NEW n
    PROVE  /\ TruncateRenormalize(Vector(info, text, w, u), n) = Vector(info, text, n, n)
           /\ L2Normalize(Vector(info, text, w, u)) = Vector(info, text, w, w)
<1>1. \A k, x : L2Normalize(Vector(info, text, k, x)) = Vector(info, text, k, k)
  BY DEF L2Normalize, Vector
<1>2. [Vector(info, text, w, u) EXCEPT !.width = n] = Vector(info, text, n, u)
  BY DEF Vector
<1> QED
  BY <1>1, <1>2 DEF TruncateRenormalize

\* The vector of a text with the flags of the run.
LEMMA RowIsOfTheRun ==
    ASSUME SetAsFlagged(start.model, loaded[1].info), NEW text
    PROVE  /\ ReportedDim(loaded[1].info) = RunDim /\ RunDim \in Nat
           /\ EmbedRow(loaded[1].info, text) = RunVector(text, RunDim)
<1> DEFINE m == start.model
           info == loaded[1].info
<1>1. /\ info.dim = info.config.hidden /\ info.dim \in Nat
      /\ info.output_dim = IF m.dims = info.dim THEN None ELSE m.dims
      /\ m.dims # None => m.dims \in 1..info.dim /\ m.normalize
      /\ info.normalized = m.normalize
  BY DEF SetAsFlagged
<1>2. ReportedDim(info) = RunDim /\ RunDim \in Nat
  BY <1>1, NoneIsNoValue DEF ReportedDim, RunDim
<1>3. EmbedRow(info, text) =
         IF info.output_dim # None THEN TruncateRenormalize(Vector(info, text, info.dim, 0), info.output_dim)
         ELSE IF info.normalized THEN L2Normalize(Vector(info, text, info.dim, 0))
         ELSE Vector(info, text, info.dim, 0)
  BY Zenon DEF EmbedRow, Vector
<1>4. RunVector(text, RunDim) = IF m.normalize THEN Vector(info, text, RunDim, RunDim)
                                ELSE Vector(info, text, RunDim, 0)
  BY DEF RunVector, Vector
<1> HIDE DEF m, info
<1>5. CASE info.output_dim # None
  <2>1. m.dims # None /\ info.output_dim = m.dims /\ m.normalize
    BY <1>1, <1>5
  <2>2. info.output_dim = RunDim
    BY <1>2, <1>5 DEF ReportedDim
  <2> QED
    BY <1>2, <1>3, <1>4, <1>5, <2>1, <2>2, VectorsAreCut DEF info
<1>6. CASE info.output_dim = None
  <2>1. RunDim = info.dim
    BY <1>2, <1>6 DEF ReportedDim
  <2> QED
    BY <1>1, <1>2, <1>3, <1>4, <1>6, <2>1, VectorsAreCut DEF info
<1> QED
  BY <1>2, <1>5, <1>6 DEF info

\* The vector of a text, as long as the request asks for.
LEMMA RowIsAsAsked ==
    ASSUME SetAsFlagged(start.model, loaded[1].info), NEW text,
           NEW body, body.dimensions \in Nat \union {None},
           body.dimensions # None => body.dimensions \in 1..RunDim /\ start.model.normalize
    PROVE  LET info == loaded[1].info
               dims == IF body.dimensions = None THEN None ELSE Truncation(body.dimensions, ReportedDim(info))
           IN (IF dims # None THEN TruncateRenormalize(EmbedRow(info, text), dims) ELSE EmbedRow(info, text))
                = RunVector(text, DimOf(body))
<1> DEFINE info == loaded[1].info
           dims == IF body.dimensions = None THEN None ELSE Truncation(body.dimensions, ReportedDim(info))
<1>1. ReportedDim(info) = RunDim /\ RunDim \in Nat /\ EmbedRow(info, text) = RunVector(text, RunDim)
  BY RowIsOfTheRun
<1> HIDE DEF info
<1>2. CASE body.dimensions = None
  BY <1>1, <1>2 DEF DimOf, info
<1>3. CASE body.dimensions # None /\ body.dimensions < RunDim
  <2>1. dims = body.dimensions /\ DimOf(body) = body.dimensions
    BY <1>1, <1>3 DEF Truncation, DimOf
  <2>2. \A n : start.model.normalize => RunVector(text, n) = Vector(info, text, n, n)
    BY DEF RunVector, Vector, info
  <2>3. start.model.normalize
    BY <1>3
  <2> HIDE DEF dims
  <2> QED
    BY <1>1, <1>3, <2>1, <2>2, <2>3, VectorsAreCut DEF info, dims
<1>4. CASE body.dimensions # None /\ ~(body.dimensions < RunDim)
  <2>1. dims = None /\ DimOf(body) = RunDim
    BY <1>1, <1>4 DEF Truncation, DimOf
  <2> QED
    BY <1>1, <2>1 DEF info
<1> QED
  BY <1>2, <1>3, <1>4

\* What a request for embeddings is refused for.
LEMMA RefusedForCause ==
    ASSUME SetAsFlagged(start.model, loaded[1].info), NEW body
    PROVE  EmbeddingsRefusal(body, loaded[1].info) = None <=>
              /\ TextsOk(body.input, start.max_inputs)
              /\ body.encoding_format \in {None, "float", "base64"}
              /\ body.dimensions # None => DimOf(body) \in 1..RunDim /\ start.model.normalize
<1>1. ReportedDim(loaded[1].info) = RunDim /\ loaded[1].info.normalized = start.model.normalize
  BY RowIsOfTheRun DEF SetAsFlagged
<1>2. "input" # None /\ "encoding_format" # None /\ "dimensions" # None
  BY NoneIsNoProblem
<1> QED
  BY <1>1, <1>2 DEF EmbeddingsRefusal, DimOf

\* Every request for embeddings is answered whole, or refused.
LEMMA EmbeddingsAreAsAsked ==
    ASSUME SourceInv, NEW req \in Requests, NEW outcome, Handle(req, outcome)
    PROVE  RepliesAreAsAsked'
<1> DEFINE body == req.body
           info == loaded[1].info
           infos == [i \in DOMAIN loaded |-> loaded[i].info]
           texts == TextsOf(body)
           right(r) == /\ DOMAIN r.body.data = DOMAIN texts
                       /\ \A i \in DOMAIN r.body.data :
                            /\ r.body.data[i].index = i - 1
                            /\ r.body.data[i].embedding = RunVector(start.prefix \o texts[i].text, DimOf(body))
<1>1. /\ start.max_inputs \in Nat /\ start.max_body_bytes \in Nat
      /\ SetAsFlagged(start.model, info) /\ 1 \in DOMAIN loaded
      /\ start' = start /\ loaded' = loaded
      /\ request' = [req |-> req, outcome |-> outcome]
      /\ reply' = Route(req, outcome, infos)
  <2>1. Len(loaded) \in {1, 2} /\ DOMAIN loaded = 1..Len(loaded)
    BY ServerIsUp
  <2>2. 1 \in DOMAIN loaded
    BY <2>1
  <2> QED
    BY <2>2, ServerIsUp
<1>2. SUFFICES ASSUME req.path = "/v1/embeddings", req.method = "POST"
               PROVE  /\ reply'.status = 200 <=> (Taken(req) /\ outcome = "answer")
                      /\ reply'.status = 200 => right(reply')
  <2> DEFINE result == reply'
  <2>1. start' = start /\ loaded' = loaded /\ request'.req = req /\ request'.outcome = outcome
    BY <1>1
  <2> HIDE DEF result
  <2>2. RunDim' = RunDim
    BY <2>1 DEF RunDim
  <2>3. \A b : DimOf(b)' = DimOf(b)
    BY <2>2 DEF DimOf
  <2>4. Taken(request.req)' <=> Taken(req)
    BY <2>1, <2>2, <2>3, Zenon DEF Taken, Whole
  <2>5. \A text, n : RunVector(text, n)' = RunVector(text, n)
    BY <2>1, Zenon DEF RunVector
  <2> QED
    BY <1>2, <2>1, <2>3, <2>4, <2>5 DEF RepliesAreAsAsked, Asked
<1>3. infos[1] = info
  BY <1>1
<1>4. reply' = IF ReadBody(req) # None THEN ReadBody(req) ELSE Embeddings(body, outcome, info)
  BY <1>1, <1>2, <1>3, EmbeddingsRoute
<1> HIDE DEF info, infos, body
<1>5. CASE ReadBody(req) # None
  BY <1>1, <1>4, <1>5, ReadBodyIsWhole DEF Taken, Whole
<1>6. CASE ReadBody(req) = None
  <2>1. Whole(req) /\ reply' = Embeddings(body, outcome, info)
    BY <1>1, <1>4, <1>6, ReadBodyIsWhole DEF Whole
  <2>2. CASE body.is # "embeddings"
    BY <2>1, <2>2, Statuses DEF Embeddings, Taken, body
  <2>3. CASE body.is = "embeddings"
    <3>1. EmbeddingsRefusal(body, info) = None <=> Taken(req)
      <4>1. TextsOk(body.input, start.max_inputs) <=>
               /\ body.input.is \in {"string", "array"}
               /\ texts # <<>> /\ Len(texts) <= start.max_inputs
               /\ \A i \in DOMAIN texts : texts[i].is = "string" /\ texts[i].text # <<>>
        BY <1>1, <2>3, TextsAreTaken, Zenon DEF body, TextsOf, Items
      <4>2. EmbeddingsRefusal(body, info) = None <=>
              /\ TextsOk(body.input, start.max_inputs)
              /\ body.encoding_format \in {None, "float", "base64"}
              /\ body.dimensions # None => DimOf(body) \in 1..RunDim /\ start.model.normalize
        BY <1>1, RefusedForCause DEF info
      <4> QED
        BY <2>1, <2>3, <4>1, <4>2 DEF Taken, body
    <3>2. CASE ~Taken(req)
      BY <2>1, <2>3, <3>1, <3>2, Statuses DEF Embeddings
    <3>3. CASE Taken(req) /\ outcome # "answer"
      BY <2>1, <2>3, <3>1, <3>3, Statuses DEF Embeddings
    <3>4. CASE Taken(req) /\ outcome = "answer"
      <4> DEFINE prefixed == Prefixed(body.input)
                 dims == IF body.dimensions = None THEN None ELSE Truncation(body.dimensions, ReportedDim(info))
                 row(text) == IF dims # None THEN TruncateRenormalize(EmbedRow(info, text), dims)
                              ELSE EmbedRow(info, text)
      <4>1. reply' = EmbeddingsReply(body, info, prefixed, dims)
        BY <2>1, <2>3, <3>1, <3>4 DEF Embeddings
      <4>2. DOMAIN prefixed = DOMAIN texts
            /\ \A i \in DOMAIN texts : prefixed[i] = start.prefix \o texts[i].text
        BY DEF Prefixed, Items, TextsOf
      <4>3. body.dimensions \in Nat \union {None}
            /\ (body.dimensions # None => body.dimensions \in 1..RunDim /\ start.model.normalize)
        BY <2>3, <3>4, RequestsAreSound DEF Taken, body, DimOf
      <4>4. ASSUME NEW text PROVE row(text) = RunVector(text, DimOf(body))
        BY <1>1, <4>3, RowIsAsAsked DEF info
      <4>5. reply' = Ok([model |-> info.label,
                         data |-> [i \in DOMAIN prefixed |->
                             [index |-> i - 1,
                              encoding |-> IF body.encoding_format = "base64" THEN "base64" ELSE "float",
                              embedding |-> row(prefixed[i])]],
                         usage |-> Usage(info, prefixed)])
        BY <4>1, Zenon DEF EmbeddingsReply
      <4> HIDE DEF prefixed, dims, texts, row
      <4>6. /\ reply'.status = 200 /\ DOMAIN reply'.body.data = DOMAIN prefixed
            /\ \A i \in DOMAIN prefixed :
                 reply'.body.data[i].index = i - 1 /\ reply'.body.data[i].embedding = row(prefixed[i])
        BY <4>5 DEF Ok
      <4> QED
        <5>1. ASSUME NEW i \in DOMAIN reply'.body.data
              PROVE  reply'.body.data[i].embedding = RunVector(start.prefix \o texts[i].text, DimOf(body))
          <6>1. i \in DOMAIN prefixed /\ prefixed[i] = start.prefix \o texts[i].text
            <7>1. i \in DOMAIN prefixed
              BY <4>6
            <7>2. i \in DOMAIN texts
              BY <4>2, <7>1
            <7> QED
              BY <4>2, <7>1, <7>2
          <6>2. row(prefixed[i]) = RunVector(prefixed[i], DimOf(body))
            BY <4>4
          <6> QED
            BY <4>6, <6>1, <6>2
        <5>2. right(reply')
          BY <4>2, <4>6, <5>1
        <5> QED
          BY <3>4, <4>6, <5>2
    <3> QED
      BY <3>2, <3>3, <3>4
  <2> QED
    BY <2>2, <2>3
<1> QED
  BY <1>5, <1>6

-----------------------------------------------------------------------------
(* Ranking.                                                                *)

LEMMA LenIs ==
    ASSUME NEW n \in Nat, NEW f, f = [k \in 1..n |-> f[k]]
    PROVE  Len(f) = n /\ DOMAIN f = 1..n
<1>1. f \in [1..n -> Range(f)]
  <2>1. DOMAIN f = 1..n
    OBVIOUS
  <2>2. \A k \in 1..n : f[k] \in Range(f)
    BY <2>1 DEF Range
  <2> QED
    BY <2>2
<1> QED
  BY <1>1

\* The documents by score are each of them once.
LEMMA RankedIsAnOrder ==
    ASSUME NEW n \in Nat, NEW scores \in [1..n -> Int]
    PROVE  /\ Ranked(scores) \in [1..n -> 1..n]
           /\ \A p, q \in 1..n : p < q => Ahead(scores, Ranked(scores)[p], Ranked(scores)[q])
           /\ EachOnce(Ranked(scores), n)
<1> DEFINE R == {x \in (1..n) \X (1..n) : Ahead(scores, x[1], x[2])}
           follows(f) == \A p, q \in 1..n : p < q => Ahead(scores, f[p], f[q])
<1>1. \A i, j \in 1..n : <<i, j>> \in R <=> Ahead(scores, i, j)
  OBVIOUS
<1> HIDE DEF R
<1>2. StrictOrder(n, R)
  <2>1. \A i \in 1..n : scores[i] \in Int
    OBVIOUS
  <2> QED
    BY <1>1, <2>1 DEF StrictOrder, Ahead
<1>3. \A f \in [1..n -> 1..n] : Follows(f, n, R) <=> follows(f)
  BY <1>1 DEF Follows
<1>4. \E f \in [1..n -> 1..n] : follows(f)
  BY <1>2, <1>3, SortExists
<1>5. Ranked(scores) = CHOOSE f \in [1..n -> 1..n] : follows(f)
  BY DEF Ranked
<1>6. Ranked(scores) \in [1..n -> 1..n] /\ follows(Ranked(scores))
  BY <1>4, <1>5
<1>7. EachOnce(Ranked(scores), n)
  BY <1>2, <1>3, <1>6, SortIsPermutation
<1> QED
  BY <1>6, <1>7

\* The first of them are the best.
LEMMA BestAreRanked ==
    ASSUME NEW n \in Nat, NEW scores \in [1..n -> Int], NEW top_n \in Nat \union {None}
    PROVE  LET m == IF top_n = None \/ top_n > n THEN n ELSE top_n
               best == Best(scores, top_n)
           IN /\ m \in 0..n /\ best \in [1..m -> 1..n] /\ Len(best) = m
              /\ \A p \in 1..m : best[p] = Ranked(scores)[p]
<1> DEFINE m == IF top_n = None \/ top_n > n THEN n ELSE top_n
<1>1. Ranked(scores) \in [1..n -> 1..n] /\ Ranked(scores) \in Seq(1..n) /\ Len(Ranked(scores)) = n
  BY RankedIsAnOrder
<1>2. m \in 0..n
  BY NoneIsNoValue
<1>3. CASE top_n # None /\ top_n < n
  <2>1. Best(scores, top_n) = SubSeq(Ranked(scores), 1, top_n) /\ m = top_n
    BY <1>1, <1>3 DEF Best, Cut
  <2>2. PICK c \in Nat : c = top_n /\ c < n
    BY <1>3
  <2>3. PICK ranked \in Seq(1..n) : ranked = Ranked(scores) /\ Len(ranked) = n
    BY <1>1
  <2>4. \A p \in 1..n : ranked[p] \in 1..n
    BY <2>3
  <2>5. DOMAIN SubSeq(ranked, 1, c) = 1..c /\ Len(SubSeq(ranked, 1, c)) = c
    BY <2>2, <2>3
  <2>6. \A p \in 1..c : SubSeq(ranked, 1, c)[p] = ranked[p]
    BY <2>2, <2>3
  <2>7. SubSeq(ranked, 1, c) \in [1..c -> 1..n]
    <3> DEFINE cut == SubSeq(ranked, 1, c)
    <3>1. cut \in Seq(1..n)
      BY <2>2, <2>3, <2>4
    <3>2. Len(cut) = c
      BY <2>5
    <3> HIDE DEF cut
    <3>3. cut \in [1..c -> 1..n]
      BY <3>1, <3>2
    <3> QED
      BY <3>3 DEF cut
  <2> QED
    BY <1>2, <2>1, <2>2, <2>3, <2>5, <2>6, <2>7
<1>4. CASE ~(top_n # None /\ top_n < n)
  <2>1. Best(scores, top_n) = Ranked(scores) /\ m = n
    BY <1>1, <1>4 DEF Best, Cut
  <2> QED
    BY <1>1, <1>2, <2>1
<1> QED
  BY <1>3, <1>4

\* The documents a request may be ranked for.
LEMMA DocumentsAreTaken ==
    ASSUME start.max_inputs \in Nat, NEW req \in Requests, req.body.is = "rerank",
           RerankRefusal(req.body) = None
    PROVE  LET body == req.body
               docs == DocsOf(body)
               n == Len(body.documents.items)
           IN /\ n \in Nat /\ DOMAIN docs = 1..n /\ Len(docs) = n
              /\ Scores(body.query.text, docs) \in [1..n -> Int]
              /\ body.top_n \in Nat \union {None}
              /\ body.top_n # 0
<1> DEFINE body == req.body
           items == body.documents.items
           docs == DocsOf(body)
           n == Len(items)
<1>1. items \in Seq({items[d] : d \in DOMAIN items}) /\ body.top_n \in Nat \union {None}
  BY RequestsAreSound
<1>2. n \in Nat /\ DOMAIN items = 1..n
  BY <1>1
<1>3. DocumentsOk(body.documents, start.max_inputs) /\ body.top_n # 0
  BY NoneIsNoProblem DEF RerankRefusal
<1>4. DOMAIN docs = 1..n /\ \A d \in 1..n : docs[d] = items[d].text
  BY <1>2, Zenon DEF DocsOf
<1>5. docs = [k \in 1..n |-> docs[k]]
  BY <1>2, <1>4, Zenon DEF DocsOf
<1>6. \A d \in 1..n : Score(body.query.text, docs[d]) \in Int
  <2> SUFFICES ASSUME NEW d \in 1..n PROVE Score(body.query.text, docs[d]) \in Int
    OBVIOUS
  <2>1. items[d].text \notin {None, <<>>}
    BY <1>2, <1>3 DEF DocumentsOk
  <2>2. Score(body.query.text, items[d].text) \in Int
    BY <1>2, <2>1, RequestsAreSound
  <2> QED
    BY <1>4, <2>2, Zenon
<1>7. Len(docs) = n
  <2> HIDE DEF n, docs
  <2> QED
    BY <1>2, <1>5, LenIs
<1>8. Scores(body.query.text, docs) = [i \in 1..n |-> Score(body.query.text, docs[i])]
  BY <1>4, Zenon DEF Scores
<1>9. Scores(body.query.text, docs) \in [1..n -> Int]
  <2> HIDE DEF docs, n
  <2> QED
    BY <1>6, <1>8
<1> QED
  BY <1>1, <1>2, <1>3, <1>4, <1>7, <1>9

ResultsAre(results, best, scores, c) ==
    \A k \in 1..c : /\ best[k] = Ranked(scores)[k]
                    /\ results[k].index = best[k] - 1
                    /\ results[k].relevance_score = scores[best[k]]

\* The results of the first of the documents by score are in order, and of the best.
LEMMA BestAreInOrder ==
    ASSUME NEW n \in Nat, NEW c \in 0..n, NEW scores \in [1..n -> Int], NEW best \in [1..c -> 1..n],
           NEW results, ResultsAre(results, best, scores, c)
    PROVE  LET kept == {results[k].index + 1 : k \in 1..c} IN
           /\ \A k \in 1..c : results[k].index + 1 = best[k]
           /\ kept \subseteq 1..n /\ Cardinality(kept) = c
           /\ \A k \in 1..c : \A e \in (1..n) \ kept :
                scores[e] < scores[best[k]] \/ (scores[e] = scores[best[k]] /\ e > best[k])
           /\ \A j, k \in 1..c : j < k =>
                \/ results[j].relevance_score > results[k].relevance_score
                \/ results[j].relevance_score = results[k].relevance_score /\ results[j].index < results[k].index
<1> DEFINE ranked == Ranked(scores)
           kept == {results[k].index + 1 : k \in 1..c}
<1>1. /\ ranked \in [1..n -> 1..n]
      /\ \A p, q \in 1..n : p < q => \/ scores[ranked[p]] > scores[ranked[q]]
                                     \/ scores[ranked[p]] = scores[ranked[q]] /\ ranked[p] < ranked[q]
      /\ EachOnce(ranked, n)
  BY RankedIsAnOrder DEF Ahead
<1> HIDE DEF ranked
<1>2. \A k \in 1..c : k \in 1..n /\ best[k] \in 1..n /\ best[k] = ranked[k]
  BY DEF ranked, ResultsAre
<1>3. \A k \in 1..c : results[k].index + 1 = best[k]
  <2> SUFFICES ASSUME NEW k \in 1..c PROVE results[k].index + 1 = best[k]
    OBVIOUS
  <2>1. PICK d \in Nat : d = best[k]
    BY <1>2
  <2>2. results[k].index = d - 1
    BY <2>1, Zenon DEF ResultsAre
  <2> QED
    BY <2>1, <2>2
<1>4. (\A k \in 1..c : best[k] \in kept) /\ (\A d \in kept : \E k \in 1..c : d = best[k])
  BY <1>3, Zenon
<1> HIDE DEF kept
<1>5. \A p, q \in 1..c : best[p] = best[q] => p = q
  <2>1. \A p, q \in 1..n : ranked[p] = ranked[q] => p = q
    BY <1>1, Zenon DEF EachOnce
  <2> QED
    BY <1>2, <2>1, Zenon
<1>6. kept \subseteq 1..n
  BY <1>2, <1>4
<1>7. Cardinality(kept) = c
  <2> DEFINE f == [k \in 1..c |-> best[k]]
  <2>1. f \in [1..c -> kept] /\ \A k \in 1..c : f[k] = best[k]
    BY <1>4, Zenon
  <2> HIDE DEF f
  <2>2. \A p, q \in 1..c : f[p] = f[q] => p = q
    BY <1>5, <2>1, Zenon
  <2>3. \A d \in kept : \E k \in 1..c : f[k] = d
    BY <1>4, <2>1
  <2>4. f \in Bijection(1..c, kept)
    BY <2>1, <2>2, <2>3, Fun_IsBij
  <2>5. ExistsBijection(1..c, kept) /\ c \in Nat
    BY <2>4 DEF ExistsBijection
  <2> QED
    BY <2>5, FS_CountingElements
<1>8. ASSUME NEW k \in 1..c, NEW e \in (1..n) \ kept
       PROVE  scores[e] < scores[best[k]] \/ (scores[e] = scores[best[k]] /\ e > best[k])
  <2>1. PICK q \in 1..n : ranked[q] = e
    BY <1>1, Zenon DEF EachOnce
  <2>2. ~(q <= c)
    <3> SUFFICES ASSUME q <= c PROVE FALSE
      OBVIOUS
    <3>1. q \in 1..c
      OBVIOUS
    <3> QED
      BY <1>2, <1>4, <2>1, <3>1, Zenon
  <2>3. k < q
    BY <2>2
  <2>4. \/ scores[ranked[k]] > scores[ranked[q]]
        \/ scores[ranked[k]] = scores[ranked[q]] /\ ranked[k] < ranked[q]
    BY <1>1, <1>2, <2>3
  <2>5. PICK x \in Int, y \in Int, i \in Int : x = scores[best[k]] /\ y = scores[e] /\ i = best[k]
    <3>1. best[k] \in 1..n
      BY <1>2
    <3>2. scores[best[k]] \in Int /\ scores[e] \in Int /\ best[k] \in Int
      BY <3>1
    <3> QED
      BY <3>2
  <2>6. x > y \/ (x = y /\ i < e)
    BY <1>2, <2>1, <2>4, <2>5, Zenon
  <2>7. y < x \/ (y = x /\ e > i)
    BY <2>6
  <2> QED
    BY <2>5, <2>7, Zenon
<1>9. ASSUME NEW j \in 1..c, NEW k \in 1..c, j < k
       PROVE  \/ results[j].relevance_score > results[k].relevance_score
              \/ results[j].relevance_score = results[k].relevance_score /\ results[j].index < results[k].index
  <2>1. \/ scores[best[j]] > scores[best[k]]
        \/ scores[best[j]] = scores[best[k]] /\ best[j] < best[k]
    <3>1. \/ scores[ranked[j]] > scores[ranked[k]]
          \/ scores[ranked[j]] = scores[ranked[k]] /\ ranked[j] < ranked[k]
      BY <1>1, <1>2, <1>9, Zenon
    <3>2. ranked[j] = best[j] /\ ranked[k] = best[k]
      BY <1>2, Zenon
    <3> QED
      BY <3>1, <3>2, Zenon
  <2>2. PICK x \in Nat, y \in Nat : x = best[j] /\ y = best[k]
    BY <1>2
  <2>3. results[j].index = x - 1 /\ results[k].index = y - 1
    BY <2>2, Zenon DEF ResultsAre
  <2>4. x < y => results[j].index < results[k].index
    BY <2>3
  <2>5. results[j].relevance_score = scores[best[j]] /\ results[k].relevance_score = scores[best[k]]
    BY Zenon DEF ResultsAre
  <2> QED
    BY <2>1, <2>2, <2>4, <2>5, Zenon
<1> QED
  BY <1>3, <1>6, <1>7, <1>8, <1>9 DEF kept

\* What a request that is answered gets, of its documents.
LEMMA RerankIsRanked ==
    ASSUME NEW body, NEW n \in Nat,
           DOMAIN DocsOf(body) = 1..n, Len(DocsOf(body)) = n,
           Scores(body.query.text, DocsOf(body)) \in [1..n -> Int],
           body.top_n \in Nat \union {None}
    PROVE  LET docs == DocsOf(body)
               scores == Scores(body.query.text, docs)
           IN AreRanked([k \in DOMAIN Best(scores, body.top_n) |->
                LET d == Best(scores, body.top_n)[k]
                IN [index |-> d - 1, relevance_score |-> scores[d],
                    document |-> IF body.return_documents THEN docs[d] ELSE None]], body)
<1> DEFINE docs == DocsOf(body)
           scores == Scores(body.query.text, docs)
           score == [d \in DOMAIN docs |-> Score(body.query.text, docs[d])]
           m == IF body.top_n = None \/ body.top_n > Len(docs) THEN Len(docs) ELSE body.top_n
           best == Best(scores, body.top_n)
           document(d) == IF body.return_documents THEN docs[d] ELSE None
           results == [k \in DOMAIN best |->
                LET d == best[k]
                IN [index |-> d - 1, relevance_score |-> scores[d], document |-> document(d)]]
           kept == {results[k].index + 1 : k \in DOMAIN results}
<1>0. SUFFICES AreRanked(results, body)
  BY Zenon
<1>1. AreRanked(results, body) <=>
        /\ Len(results) = m
        /\ kept \subseteq DOMAIN docs /\ Cardinality(kept) = Len(results)
        /\ \A k \in DOMAIN results :
             LET d == results[k].index + 1 IN
             /\ results[k].relevance_score = score[d]
             /\ results[k].document = document(d)
             /\ \A e \in DOMAIN docs \ kept : score[e] < score[d] \/ (score[e] = score[d] /\ e > d)
        /\ \A j, k \in DOMAIN results : j < k =>
             \/ results[j].relevance_score > results[k].relevance_score
             \/ results[j].relevance_score = results[k].relevance_score /\ results[j].index < results[k].index
  BY Zenon DEF AreRanked
<1>2. score = scores
  BY Zenon DEF Scores
<1>3. /\ m \in 0..n /\ best \in [1..m -> 1..n] 
      /\ \A p \in 1..m : best[p] = Ranked(scores)[p]
  <2>1. Len(docs) = n /\ scores \in [1..n -> Int] /\ body.top_n \in Nat \union {None}
    OBVIOUS
  <2>2. m = IF body.top_n = None \/ body.top_n > n THEN n ELSE body.top_n
    BY <2>1, Zenon
  <2> HIDE DEF docs, scores, m
  <2> QED
    BY <2>1, <2>2, BestAreRanked
<1>4. DOMAIN best = 1..m
  <2> HIDE DEF m, best
  <2> QED
    BY <1>3
<1>5. results = [k \in 1..m |-> [index |-> best[k] - 1, relevance_score |-> scores[best[k]],
                                 document |-> document(best[k])]]
  <2>1. results = [k \in DOMAIN best |-> [index |-> best[k] - 1, relevance_score |-> scores[best[k]],
                                          document |-> document(best[k])]]
    BY Zenon
  <2> HIDE DEF m, best, results
  <2> QED
    BY <1>4, <2>1, Zenon
<1> HIDE DEF m, results
<1>6. DOMAIN results = 1..m /\ Len(results) = m
  <2>1. DOMAIN results = 1..m /\ results = [k \in 1..m |-> results[k]]
    BY <1>5, Zenon
  <2> QED
    BY <1>3, <2>1, LenIs
<1>7. \A k \in 1..m : /\ results[k].index = best[k] - 1
                      /\ results[k].relevance_score = scores[best[k]]
                      /\ results[k].document = document(best[k])
  <2> SUFFICES ASSUME NEW k \in 1..m
               PROVE  /\ results[k].index = best[k] - 1
                      /\ results[k].relevance_score = scores[best[k]]
                      /\ results[k].document = document(best[k])
    OBVIOUS
  <2>1. results[k] = [index |-> best[k] - 1, relevance_score |-> scores[best[k]],
                      document |-> document(best[k])]
    BY <1>5, Zenon
  <2>2. PICK x, y, z : x = best[k] - 1 /\ y = scores[best[k]] /\ z = document(best[k])
    OBVIOUS
  <2>3. results[k] = [index |-> x, relevance_score |-> y, document |-> z]
    BY <2>1, <2>2, Zenon
  <2>4. results[k].index = x /\ results[k].relevance_score = y /\ results[k].document = z
    BY ONLY <2>3
  <2> QED
    BY <2>2, <2>4, Zenon
<1>8. kept = {results[k].index + 1 : k \in 1..m}
  BY <1>6, Zenon
<1> HIDE DEF docs, scores, score, best, kept, document
<1>9. /\ \A k \in 1..m : results[k].index + 1 = best[k]
      /\ kept \subseteq 1..n /\ Cardinality(kept) = m
      /\ \A k \in 1..m : \A e \in (1..n) \ kept :
           scores[e] < scores[best[k]] \/ (scores[e] = scores[best[k]] /\ e > best[k])
      /\ \A j, k \in 1..m : j < k =>
           \/ results[j].relevance_score > results[k].relevance_score
           \/ results[j].relevance_score = results[k].relevance_score /\ results[j].index < results[k].index
  <2>1. scores \in [1..n -> Int]
    BY DEF scores, docs
  <2>2. ResultsAre(results, best, scores, m)
    BY <1>3, <1>7, Zenon DEF ResultsAre
  <2>3. m \in 0..n /\ best \in [1..m -> 1..n]
    BY <1>3
  <2>4. n \in Nat
    OBVIOUS
  <2> QED
    <3>1. LET named == {results[k].index + 1 : k \in 1..m} IN
          /\ \A k \in 1..m : results[k].index + 1 = best[k]
          /\ named \subseteq 1..n /\ Cardinality(named) = m
          /\ \A k \in 1..m : \A e \in (1..n) \ named :
               scores[e] < scores[best[k]] \/ (scores[e] = scores[best[k]] /\ e > best[k])
          /\ \A j, k \in 1..m : j < k =>
               \/ results[j].relevance_score > results[k].relevance_score
               \/ results[j].relevance_score = results[k].relevance_score /\ results[j].index < results[k].index
      BY ONLY <2>1, <2>2, <2>3, <2>4, BestAreInOrder, Zenon
    <3> QED
      BY ONLY <1>8, <3>1, Zenon
<1>10. ASSUME NEW k \in DOMAIN results
       PROVE  LET d == results[k].index + 1 IN
              /\ results[k].relevance_score = score[d]
              /\ results[k].document = document(d)
              /\ \A e \in (1..n) \ kept : score[e] < score[d] \/ (score[e] = score[d] /\ e > d)
  <2>1. k \in 1..m
    BY <1>6
  <2>2. results[k].index + 1 = best[k]
    BY <1>9, <2>1
  <2>3. results[k].relevance_score = score[best[k]] /\ results[k].document = document(best[k])
    BY <1>2, <1>7, <2>1, Zenon
  <2>4. \A e \in (1..n) \ kept : score[e] < score[best[k]] \/ (score[e] = score[best[k]] /\ e > best[k])
    BY <1>2, <1>9, <2>1, Zenon
  <2> QED
    BY <2>2, <2>3, <2>4, Zenon
<1>11. DOMAIN docs = 1..n
  BY DEF docs
<1>12. Len(results) = m /\ kept \subseteq DOMAIN docs /\ Cardinality(kept) = Len(results)
  BY <1>6, <1>9, <1>11
<1>13. \A j, k \in DOMAIN results : j < k =>
         \/ results[j].relevance_score > results[k].relevance_score
         \/ results[j].relevance_score = results[k].relevance_score /\ results[j].index < results[k].index
  <2> SUFFICES ASSUME NEW j \in DOMAIN results, NEW k \in DOMAIN results, j < k
               PROVE  \/ results[j].relevance_score > results[k].relevance_score
                      \/ results[j].relevance_score = results[k].relevance_score
                         /\ results[j].index < results[k].index
    OBVIOUS
  <2>1. j \in 1..m /\ k \in 1..m
    BY <1>6
  <2> QED
    BY <1>9, <2>1, Zenon
<1>14. \A k \in DOMAIN results :
         LET d == results[k].index + 1 IN
         /\ results[k].relevance_score = score[d]
         /\ results[k].document = document(d)
         /\ \A e \in DOMAIN docs \ kept : score[e] < score[d] \/ (score[e] = score[d] /\ e > d)
  BY <1>10, <1>11, Zenon
<1> QED
  BY <1>1, <1>12, <1>13, <1>14, Zenon

LEMMA RerankIsAsAsked ==
    ASSUME SourceInv, NEW req \in Requests, NEW outcome, Handle(req, outcome)
    PROVE  RankedAsAsked'
<1> DEFINE body == req.body
           infos == [i \in DOMAIN loaded |-> loaded[i].info]
<1>1. /\ start.max_inputs \in Nat
      /\ Len(loaded) \in {1, 2} /\ DOMAIN loaded = 1..Len(loaded)
      /\ start' = start /\ loaded' = loaded
      /\ request' = [req |-> req, outcome |-> outcome]
      /\ reply' = Route(req, outcome, infos)
  BY ServerIsUp
<1>2. start.max_body_bytes \in Nat
  BY ServerIsUp
<1> DEFINE ranked(r) == /\ Len(loaded) = 2 /\ r.body.model = loaded[2].info.label
                        /\ AreRanked(r.body.results, body)
                        /\ r.body.usage = Usage(loaded[2].info, Pairs(body.query.text, DocsOf(body)))
<1>3. SUFFICES ASSUME req.path = "/v1/rerank", req.method = "POST", reply'.status = 200
               PROVE  ranked(reply')
  <2>1. request'.req = req
    BY <1>1
  <2> QED
    BY <1>1, <2>1 DEF RankedAsAsked, Asked
<1>4. Len(infos) = Len(loaded) /\ (Len(loaded) = 2 => infos[2] = loaded[2].info)
  <2>1. PICK n \in {1, 2} : n = Len(loaded) /\ DOMAIN loaded = 1..n
    BY <1>1
  <2>2. infos = [i \in 1..n |-> infos[i]] /\ \A i \in 1..n : infos[i] = loaded[i].info
    BY <2>1
  <2>3. Len(infos) = n
    BY <2>1, <2>2, LenIs
  <2> QED
    BY <2>1, <2>2, <2>3
<1> DEFINE info == infos[2]
<1>5. reply' = IF Len(infos) = 1 THEN Problem(404, None)
               ELSE IF ReadBody(req) # None THEN ReadBody(req) ELSE Rerank(body, outcome, info)
  <2>1. Route(req, outcome, infos) =
          IF Len(infos) = 1 THEN Problem(404, None)
          ELSE IF ReadBody(req) # None THEN ReadBody(req) ELSE Rerank(body, outcome, info)
    BY <1>3, RerankRoute
  <2> HIDE DEF body, info, infos
  <2> QED
    BY <1>1, <2>1, Zenon
<1> HIDE DEF info
<1>6. Len(infos) = 2 /\ ReadBody(req) = None /\ reply' = Rerank(body, outcome, info)
  BY <1>1, <1>2, <1>3, <1>4, <1>5, Statuses, ReadBodyIsWhole
<1>7. body.is = "rerank" /\ RerankRefusal(body) = None /\ outcome = "answer"
  <2>1. Invalid(None).status # 200 /\ Invalid(RerankRefusal(body)).status # 200 /\ WorkerProblem(outcome).status # 200
    BY Statuses
  <2> QED
    BY <1>3, <1>6, <2>1, Zenon DEF Rerank
<1> DEFINE docs == DocsOf(body)
           scores == Scores(body.query.text, docs)
           results == [k \in DOMAIN Best(scores, body.top_n) |->
                LET d == Best(scores, body.top_n)[k]
                IN [index |-> d - 1, relevance_score |-> scores[d],
                    document |-> IF body.return_documents THEN docs[d] ELSE None]]
<1>8. reply' = Ok([model |-> info.label, results |-> results,
                   usage |-> Usage(info, Pairs(body.query.text, docs))])
  BY <1>6, <1>7, Zenon DEF Rerank, RerankReply
<1>9. AreRanked(results, body)
  <2>1. LET n == Len(body.documents.items)
        IN /\ n \in Nat /\ DOMAIN docs = 1..n /\ Len(docs) = n
           /\ scores \in [1..n -> Int]
           /\ body.top_n \in Nat \union {None}
    BY <1>1, <1>7, DocumentsAreTaken
  <2> QED
    BY <2>1, RerankIsRanked, Zenon
<1> HIDE DEF results, docs
<1>10. /\ reply'.body.model = info.label /\ reply'.body.results = results
       /\ reply'.body.usage = Usage(info, Pairs(body.query.text, docs))
  BY <1>8 DEF Ok
<1>11. Len(loaded) = 2 /\ info = loaded[2].info
  BY <1>4, <1>6 DEF info
<1> QED
  BY <1>9, <1>10, <1>11, Zenon DEF docs

-----------------------------------------------------------------------------
(* What every reply is.                                                    *)

Answered == RepliesAreAsAsked /\ RankedAsAsked

LEMMA RepliesAnswer == Spec => []Answered
<1>1. Init => Answered
  BY DEF Init, Answered, RepliesAreAsAsked, RankedAsAsked, Asked
<1>2. SourceInv /\ Answered /\ [Next]_apiVars => Answered'
  <2> SUFFICES ASSUME SourceInv, Answered, [Next]_apiVars PROVE Answered'
    OBVIOUS
  <2>1. CASE UNCHANGED apiVars
    <3>1. request' = request /\ reply' = reply /\ start' = start /\ loaded' = loaded
      BY <2>1 DEF apiVars, sourceVars
    <3>2. RepliesAreAsAsked' <=> RepliesAreAsAsked
      BY ONLY <3>1 DEF RepliesAreAsAsked, Asked, Taken, Whole, RunDim, DimOf, RunVector
    <3>3. RankedAsAsked' <=> RankedAsAsked
      BY ONLY <3>1 DEF RankedAsAsked, Asked
    <3> QED
      BY <3>2, <3>3 DEF Answered
  <2>2. CASE request' = None
    BY <2>2 DEF Answered, RepliesAreAsAsked, RankedAsAsked, Asked
  <2>3. ASSUME NEW req \in Requests, NEW outcome, Handle(req, outcome) PROVE Answered'
    BY <2>3, EmbeddingsAreAsAsked, RerankIsAsAsked DEF Answered
  <2> QED
    BY <2>1, <2>2, <2>3 DEF Next
<1> QED
  BY <1>1, <1>2, SourceIsSound, PTL DEF Spec

\* /v1/embeddings answers a request whole or not at all, with the vectors `kohagi`
\* gives for the same flags, whichever commits the models were loaded from.
THEOREM EmbeddingsAnswerWhatIsAsked == Spec => []RepliesAreAsAsked
BY RepliesAnswer, PTL DEF Answered

\* /v1/rerank returns the best documents, each with the score of its own pair,
\* in order, and counts the tokens of every pair.
THEOREM RankingAnswersWhatIsAsked == Spec => []RankedAsAsked
BY RepliesAnswer, PTL DEF Answered
================================================================================
