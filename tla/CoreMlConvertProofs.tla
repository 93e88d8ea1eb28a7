-------------------------- MODULE CoreMlConvertProofs --------------------------
(***************************************************************************)
(* For any checkpoints, any ways of asking and any bundles from elsewhere, *)
(* over any number of conversions, ended, refused or interrupted: which    *)
(* bundle of a directory is loaded for a length, what it was made of, what *)
(* a text is given through it, and that it is a program Core ML takes.     *)
(* What one emitted graph computes, taken alone, is a hypothesis here:     *)
(* GraphsComputeTheModel and RequestsAreSound, where they are needed.      *)
(*                                                                         *)
(* That a conversion serves what it emitted is seen only when a directory  *)
(* is loaded. The invariant follows the conversion up to there: what it    *)
(* has read is one checkpoint, what it has written is in the directory,    *)
(* file after file, and a loaded directory has not changed since.          *)
(***************************************************************************)
EXTENDS CoreMlConvert, CollectionFacts

-----------------------------------------------------------------------------
(* Names, and what is listed under them.                                   *)

\* Only a compiled form has the extension of one.
Formed(n) == \/ n.compiled = TRUE /\ n.ext = "mlmodelc"
             \/ n.compiled = FALSE /\ n.ext = "mlpackage"

WellNamed(bundles) == \A n \in DOMAIN bundles : Formed(n)

BundlesAreNamed == WellNamed(dir.bundles)

\* The names of one length, form and place.
Listed(bundles, seq, ext, compiled) ==
    {n \in DOMAIN bundles : n.ext = ext /\ n.compiled = compiled /\ \E k \in DOMAIN n.lengths : n.lengths[k] = seq}

\* What names are made of (bundle_name, compile_beside).
LEMMA NamesAreWell ==
    ASSUME NEW lengths
    PROVE  /\ BundleName(lengths).compiled = FALSE /\ BundleName(lengths).ext = "mlpackage"
           /\ BundleName(lengths).lengths = lengths
           /\ CompiledName(BundleName(lengths)).compiled = TRUE
           /\ CompiledName(BundleName(lengths)).ext = "mlmodelc"
           /\ CompiledName(BundleName(lengths)).lengths = lengths
  BY DEF BundleName, CompiledName

\* Writing a bundle replaces the one of its name and leaves the others.
LEMMA PutIsPut ==
    ASSUME NEW bundles, NEW name, NEW bundle
    PROVE  /\ DOMAIN Put(bundles, name, bundle) = DOMAIN bundles \union {name}
           /\ Put(bundles, name, bundle)[name] = bundle
           /\ \A n \in DOMAIN bundles \ {name} : Put(bundles, name, bundle)[n] = bundles[n]
  BY DEF Put

\* Something is held of whatever is listed, and it is all of one kind.
LEMMA HeldIsOfAKind ==
    ASSUME NEW listed
    PROVE  /\ Held(listed) \subseteq listed
           /\ listed # {} => Held(listed) # {}
           /\ \A n, m \in Held(listed) : HasFunction(n) <=> HasFunction(m)
           /\ \A n \in Held(listed), m \in listed : HasFunction(n) => HasFunction(m)
  BY DEF Held, HasFunction

\* What is scanned for a length and a form is what is held of one place.
LEMMA ScannedIsHeld ==
    ASSUME NEW bundles, NEW seq, NEW ext
    PROVE  /\ \E compiled \in BOOLEAN : Scanned(bundles, seq, ext) = Held(Listed(bundles, seq, ext, compiled))
           /\ \A compiled \in BOOLEAN :
                 Listed(bundles, seq, ext, compiled) # {} => Scanned(bundles, seq, ext) # {}
<1> DEFINE of(compiled) == {n \in DOMAIN bundles : n.ext = ext /\ n.compiled = compiled
                                                   /\ seq \in {n.lengths[k] : k \in DOMAIN n.lengths}}
<1>1. \A compiled \in BOOLEAN : of(compiled) = Listed(bundles, seq, ext, compiled)
  BY DEF Listed
<1>2. Scanned(bundles, seq, ext) =
         IF Held(of(FALSE)) = {} THEN Held(of(TRUE))
         ELSE IF \E n \in Held(of(FALSE)) : ~HasFunction(n) \/ (\A m \in of(TRUE) : HasFunction(m)) THEN Held(of(FALSE))
         ELSE Held(of(TRUE))
  BY DEF Scanned
<1>3. \/ Scanned(bundles, seq, ext) = Held(of(FALSE))
      \/ Scanned(bundles, seq, ext) = Held(of(TRUE))
  BY <1>2
<1>4. of(FALSE) # {} \/ of(TRUE) # {} => Scanned(bundles, seq, ext) # {}
  <2>1. \A compiled \in BOOLEAN : of(compiled) # {} <=> Held(of(compiled)) # {}
    BY HeldIsOfAKind
  <2>2. of(FALSE) # {} => Held(of(FALSE)) # {}
    BY <2>1
  <2>3. of(TRUE) # {} => Held(of(TRUE)) # {}
    BY <2>1
  <2>4. CASE Held(of(FALSE)) = {}
    BY <2>2, <2>3, <2>4, <1>2
  <2>5. CASE Held(of(FALSE)) # {} /\ (\A m \in of(TRUE) : HasFunction(m))
    BY <2>5, <1>2
  <2>6. CASE \E m \in of(TRUE) : ~HasFunction(m)
    BY <2>3, <2>6, <1>2
  <2> QED
    BY <2>4, <2>5, <2>6
<1> QED
  BY <1>1, <1>3, <1>4

\* What a length resolves to is held of one form and place; and it resolves to
\* something, if any bundle of some form has it.
LEMMA ResolutionsAreHeld ==
    ASSUME NEW bundles, NEW seq
    PROVE  /\ \E ext \in {"mlmodelc", "mlpackage"}, compiled \in BOOLEAN :
                 Resolutions(bundles, seq) = Held(Listed(bundles, seq, ext, compiled))
           /\ \A ext \in {"mlmodelc", "mlpackage"}, compiled \in BOOLEAN :
                 Listed(bundles, seq, ext, compiled) # {} => Resolutions(bundles, seq) # {}
<1>1. \A ext \in {"mlmodelc", "mlpackage"} :
         /\ \E compiled \in BOOLEAN : Scanned(bundles, seq, ext) = Held(Listed(bundles, seq, ext, compiled))
         /\ \A compiled \in BOOLEAN :
               Listed(bundles, seq, ext, compiled) # {} => Scanned(bundles, seq, ext) # {}
  BY ScannedIsHeld
<1>2. \E ext \in {"mlmodelc", "mlpackage"} : Resolutions(bundles, seq) = Scanned(bundles, seq, ext)
  BY DEF Resolutions
<1>3. (\E ext \in {"mlmodelc", "mlpackage"} : Scanned(bundles, seq, ext) # {}) => Resolutions(bundles, seq) # {}
  BY DEF Resolutions
<1> QED
  BY <1>1, <1>2, <1>3

\* All that a length may resolve to has that length and is of one form and kind,
\* and never of several lengths while there is one of its own.
LEMMA ResolutionsAreAlike ==
    ASSUME NEW bundles, NEW seq, WellNamed(bundles)
    PROVE  /\ \A n \in Resolutions(bundles, seq) : n \in DOMAIN bundles /\ \E k \in DOMAIN n.lengths : n.lengths[k] = seq
           /\ \A n, m \in Resolutions(bundles, seq) :
                 n.ext = m.ext /\ n.compiled = m.compiled /\ (HasFunction(n) <=> HasFunction(m))
           /\ \A n \in Resolutions(bundles, seq), m \in DOMAIN bundles :
                 (n.compiled = m.compiled /\ HasFunction(n) /\ \E k \in DOMAIN m.lengths : m.lengths[k] = seq) => HasFunction(m)
           /\ \A n \in DOMAIN bundles :
                 (\E k \in DOMAIN n.lengths : n.lengths[k] = seq) => Resolutions(bundles, seq) # {}
<1>1. PICK ext \in {"mlmodelc", "mlpackage"}, compiled \in BOOLEAN :
         Resolutions(bundles, seq) = Held(Listed(bundles, seq, ext, compiled))
  BY ResolutionsAreHeld
<1> DEFINE listed == Listed(bundles, seq, ext, compiled)
<1>2. /\ Resolutions(bundles, seq) \subseteq listed
      /\ \A n, m \in Resolutions(bundles, seq) : HasFunction(n) <=> HasFunction(m)
      /\ \A n \in Resolutions(bundles, seq), m \in listed : HasFunction(n) => HasFunction(m)
  BY <1>1, HeldIsOfAKind
<1>3. \A n \in listed : n \in DOMAIN bundles /\ n.ext = ext /\ n.compiled = compiled
                        /\ \E k \in DOMAIN n.lengths : n.lengths[k] = seq
  BY DEF Listed
<1>4. ASSUME NEW n \in Resolutions(bundles, seq), NEW m \in DOMAIN bundles,
             n.compiled = m.compiled, HasFunction(n), \E k \in DOMAIN m.lengths : m.lengths[k] = seq
      PROVE  HasFunction(m)
  <2>1. n \in DOMAIN bundles /\ n.ext = ext /\ n.compiled = compiled
    BY <1>2, <1>3
  <2>2. m.ext = ext
    BY <2>1, <1>4 DEF WellNamed, Formed
  <2>3. m \in listed
    BY <2>1, <2>2, <1>4 DEF Listed
  <2> QED
    BY <2>3, <1>2, <1>4
<1>5. ASSUME NEW n \in DOMAIN bundles, \E k \in DOMAIN n.lengths : n.lengths[k] = seq
      PROVE  Resolutions(bundles, seq) # {}
  <2>1. n.ext \in {"mlmodelc", "mlpackage"} /\ n.compiled \in BOOLEAN
    BY DEF WellNamed, Formed
  <2>2. n \in Listed(bundles, seq, n.ext, n.compiled)
    BY <1>5 DEF Listed
  <2> QED
    BY <2>1, <2>2, ResolutionsAreHeld
<1> QED
  BY <1>2, <1>3, <1>4, <1>5

-----------------------------------------------------------------------------
(* Which bundle is loaded.                                                 *)

\* Every bundle that is written has a name of its form.
LEMMA PutKeepsNames ==
    ASSUME NEW bundles, WellNamed(bundles), NEW name, Formed(name), NEW bundle
    PROVE  WellNamed(Put(bundles, name, bundle))
<1>1. DOMAIN Put(bundles, name, bundle) = DOMAIN bundles \union {name}
  BY PutIsPut
<1>2. \A n \in DOMAIN bundles \union {name} : Formed(n)
  BY DEF WellNamed
<1> QED
  BY <1>1, <1>2 DEF WellNamed

\* No step leaves a bundle under another kind of name.
LEMMA BundlesStayNamed == BundlesAreNamed /\ [Next]_vars => BundlesAreNamed'
<1> SUFFICES ASSUME BundlesAreNamed, [Next]_vars PROVE BundlesAreNamed'
  OBVIOUS
<1>1. \A lengths : Formed(BundleName(lengths)) /\ Formed(CompiledName(BundleName(lengths)))
  BY NamesAreWell DEF Formed
<1>2. CASE dir'.bundles = dir.bundles
  BY <1>2 DEF BundlesAreNamed
<1>3. CASE WritePackage
  <2>1. dir'.bundles \in {dir.bundles, Put(dir.bundles, BundleName(Lengths), Bundle)}
    BY <1>3 DEF WritePackage, PutPackage
  <2>2. WellNamed(Put(dir.bundles, BundleName(Lengths), Bundle))
    BY <1>1, PutKeepsNames DEF BundlesAreNamed
  <2> QED
    BY <2>1, <2>2 DEF BundlesAreNamed
<1>4. CASE Compile
  <2> DEFINE name == CompiledName(BundleName(Lengths))
  <2>1. dir'.bundles \in {dir.bundles, Put(dir.bundles, name, dir.bundles[BundleName(Lengths)])}
    BY <1>4 DEF Compile
  <2>2. WellNamed(Put(dir.bundles, name, dir.bundles[BundleName(Lengths)]))
    BY <1>1, PutKeepsNames DEF BundlesAreNamed
  <2> QED
    BY <2>1, <2>2 DEF BundlesAreNamed
<1>5. CASE WriteHead
  BY <1>2, <1>5 DEF WriteHead
<1>6. CASE CopyMetadata
  BY <1>2, <1>6 DEF CopyMetadata
<1>7. ASSUME NEW o \in Orders, Begin(o) PROVE BundlesAreNamed'
  BY <1>2, <1>7 DEF Begin
<1>8. CASE Hash \/ Open \/ Interrupt \/ Load
  BY <1>2, <1>8 DEF Hash, Open, Interrupt, Load
<1>9. ASSUME NEW id \in Ids, Swap(id) PROVE BundlesAreNamed'
  BY <1>2, <1>9 DEF Swap
<1>10. ASSUME NEW text, NEW padding, Run(text, padding) PROVE BundlesAreNamed'
  BY <1>2, <1>10 DEF Run
<1>11. CASE UNCHANGED vars
  BY <1>2, <1>11 DEF vars
<1> QED
  BY <1>3, <1>4, <1>5, <1>6, <1>7, <1>8, <1>9, <1>10, <1>11 DEF Next

\* Nor does what is there at first have one.
LEMMA BundlesBeginNamed == Init => BundlesAreNamed
<1> SUFFICES ASSUME Init PROVE BundlesAreNamed
  OBVIOUS
<1>1. PICK left \in SUBSET Foreign : DOMAIN dir.bundles = {SeqName(f.seq) : f \in left}
  BY DEF Init
<1> QED
  BY <1>1 DEF SeqName, BundlesAreNamed, WellNamed, Formed

\* For every length that some bundle has, in whatever order the directory is
\* listed and whatever is in it: some bundle is loaded, of one form, and never a
\* multi-function one where there is one of its own (collect_buckets).
THEOREM EveryLengthResolves == Spec => []ResolvesTheSameWay
<1>1. BundlesAreNamed => ResolvesTheSameWay
  <2> SUFFICES ASSUME BundlesAreNamed, NEW seq \in SeqsIn(dir.bundles)
               PROVE  /\ Resolutions(dir.bundles, seq) # {}
                      /\ \A n, m \in Resolutions(dir.bundles, seq) :
                            n.ext = m.ext /\ n.compiled = m.compiled /\ (HasFunction(n) <=> HasFunction(m))
    BY DEF ResolvesTheSameWay
  <2>1. \E n \in DOMAIN dir.bundles : \E k \in DOMAIN n.lengths : n.lengths[k] = seq
    BY DEF SeqsIn
  <2> QED
    BY <2>1, ResolutionsAreAlike DEF BundlesAreNamed
<1> QED
  BY <1>1, BundlesBeginNamed, BundlesStayNamed, PTL DEF Spec

-----------------------------------------------------------------------------
(* What was asked for is what is served.                                   *)

\* Nobody replaces the checkpoint while a conversion reads it: it is opened by
\* its path once to be hashed and once to be read.
ReplacedBetweenOnly == Swaps \subseteq {"idle"}

\* What a conversion has read so far is at the path, and is accepted.
ReadsOneCheckpoint ==
    /\ source \in Ids /\ order \in Orders
    /\ pc # "idle" => Accepted(source, Lengths)
    /\ pc \in {"open", "write", "head", "copy", "compile"} => sha = source
    /\ pc \in {"write", "head", "copy", "compile"} => opened = source /\ Emittable(source)

\* What the directory has of b: the package, the head, the metadata and, if one
\* was asked for, the compiled form.
HasPackage(b) ==
    /\ b.provenance.source_sha256 = b.emission.id
    /\ BundleName(b.emission.lengths) \in DOMAIN dir.bundles
    /\ dir.bundles[BundleName(b.emission.lengths)] = b
HasHead(b) == Sources[b.emission.id].head = "whole" => dir.head = b.emission.id
HasMetadata(b) ==
    /\ dir.config = b.emission.id
    /\ Sources[b.emission.id].pooling => dir.pooling = b.emission.id
HasCompiled(b) ==
    LET name == CompiledName(BundleName(b.emission.lengths))
    IN name \in DOMAIN dir.bundles /\ dir.bundles[name] = b

\* An interrupted conversion has part of this, and one that has ended all of it.
WritesInOrder ==
    /\ DOMAIN dir = {"bundles", "config", "pooling", "head"}
    /\ pc \in {"head", "copy", "compile"} => HasPackage(Bundle)
    /\ pc \in {"copy", "compile"} => HasHead(Bundle)
    /\ pc = "compile" => HasMetadata(Bundle)
    /\ pc # "idle" => last = None
    /\ last # None => /\ HasPackage(last) /\ HasHead(last) /\ HasMetadata(last)
                      /\ order.compiled => HasCompiled(last)

\* What is loaded of these bundles, if Core ML refuses some compiled ones.
WhenRefused(loaded, bundles, refused) ==
    LET kept == [n \in DOMAIN bundles \ refused |-> bundles[n]]
    IN \A seq \in DOMAIN loaded : \E n \in Resolutions(kept, seq) : loaded[seq] = bundles[n]

IsLoadedOf(loaded, bundles) ==
    /\ DOMAIN loaded = SeqsIn(bundles)
    /\ \E refused \in SUBSET {n \in DOMAIN bundles : n.compiled} : WhenRefused(loaded, bundles, refused)

\* A loaded directory is as it was when it was loaded.
LoadedIsThere == DOMAIN buckets # {} => pc = "idle" /\ IsLoadedOf(buckets, dir.bundles)

ConvertInv == BundlesAreNamed /\ ReadsOneCheckpoint /\ WritesInOrder /\ LoadedIsThere

\* Before the first conversion nothing has been read, written or loaded.
LEMMA ConversionsBeginInOrder == Init => ConvertInv
<1> SUFFICES ASSUME Init PROVE ConvertInv
  OBVIOUS
<1>1. DOMAIN dir = {"bundles", "config", "pooling", "head"}
  BY DEF Init
<1>2. DOMAIN buckets = {}
  BY DEF Init
<1>3. ReadsOneCheckpoint
  BY DEF Init, ReadsOneCheckpoint
<1>4. WritesInOrder
  BY <1>1 DEF Init, WritesInOrder
<1> QED
  BY <1>2, <1>3, <1>4, BundlesBeginNamed DEF ConvertInv, LoadedIsThere

\* Nothing is loaded while a conversion runs, and a conversion changes nothing
\* that is loaded.
LEMMA LoadedStaysThere ==
    ConvertInv /\ [Next]_vars => LoadedIsThere'
<1> SUFFICES ASSUME ConvertInv, [Next]_vars PROVE LoadedIsThere'
  OBVIOUS
<1>1. CASE pc' = pc /\ dir' = dir /\ buckets' = buckets
  BY <1>1 DEF ConvertInv, LoadedIsThere
<1>2. ASSUME pc # "idle", buckets' = buckets PROVE LoadedIsThere'
  BY <1>2 DEF ConvertInv, LoadedIsThere
<1>3. ASSUME NEW o \in Orders, Begin(o) PROVE LoadedIsThere'
  <2>1. DOMAIN buckets' = {}
    BY <1>3 DEF Begin
  <2> QED
    BY <2>1 DEF LoadedIsThere
<1>4. CASE Hash \/ Open \/ WritePackage \/ WriteHead \/ CopyMetadata \/ Compile \/ Interrupt
  BY <1>2, <1>4 DEF Hash, Open, WritePackage, WriteHead, CopyMetadata, Compile, Interrupt
<1>5. ASSUME NEW id \in Ids, Swap(id) PROVE LoadedIsThere'
  BY <1>1, <1>5 DEF Swap
<1>6. ASSUME NEW text, NEW padding, Run(text, padding) PROVE LoadedIsThere'
  BY <1>1, <1>6 DEF Run
<1>7. CASE Load
  <2>1. PICK refused \in SUBSET {n \in DOMAIN dir.bundles : n.compiled},
             resolved \in [SeqsIn(dir.bundles) -> DOMAIN dir.bundles] :
          /\ \A seq \in DOMAIN resolved :
                resolved[seq] \in Resolutions([n \in DOMAIN dir.bundles \ refused |-> dir.bundles[n]], seq)
          /\ buckets' = [seq \in DOMAIN resolved |-> dir.bundles[resolved[seq]]]
    BY <1>7 DEF Load
  <2>2. pc' = "idle" /\ dir' = dir
    BY <1>7 DEF Load
  <2>3. DOMAIN resolved = SeqsIn(dir.bundles) /\ DOMAIN buckets' = SeqsIn(dir.bundles)
    BY <2>1
  <2>4. WhenRefused(buckets', dir.bundles, refused)
    BY <2>1, <2>3 DEF WhenRefused
  <2>5. IsLoadedOf(buckets', dir.bundles)
    BY <2>1, <2>3, <2>4 DEF IsLoadedOf
  <2> QED
    BY <2>2, <2>5 DEF LoadedIsThere
<1>8. CASE UNCHANGED vars
  BY <1>1, <1>8 DEF vars
<1> QED
  BY <1>3, <1>4, <1>5, <1>6, <1>7, <1>8 DEF Next

\* The checkpoint is hashed and opened as it is at the path, if it is replaced
\* only between conversions.
LEMMA OneCheckpointIsRead ==
    ASSUME ReplacedBetweenOnly
    PROVE  ConvertInv /\ [Next]_vars => ReadsOneCheckpoint'
<1> SUFFICES ASSUME ConvertInv, [Next]_vars PROVE ReadsOneCheckpoint'
  OBVIOUS
<1> USE DEF ConvertInv, ReadsOneCheckpoint, Give, Fail
<1>1. ASSUME NEW o \in Orders, Begin(o) PROVE ReadsOneCheckpoint'
  BY <1>1 DEF Begin, Lengths
<1>2. CASE Hash
  BY <1>2 DEF Hash, Lengths
<1>3. CASE Open
  BY <1>3 DEF Open, Lengths
<1>4. CASE WritePackage \/ WriteHead
  BY <1>4 DEF WritePackage, WriteHead, Lengths
<1>5. CASE CopyMetadata \/ Compile \/ Interrupt
  BY <1>5 DEF CopyMetadata, Compile, Interrupt, Lengths
<1>6. ASSUME NEW id \in Ids, Swap(id) PROVE ReadsOneCheckpoint'
  BY <1>6 DEF Swap, Lengths, ReplacedBetweenOnly
<1>7. ASSUME NEW text, NEW padding, Load \/ Run(text, padding) PROVE ReadsOneCheckpoint'
  BY <1>7 DEF Load, Run, Lengths
<1>8. CASE UNCHANGED vars
  BY <1>8 DEF vars, Lengths
<1> QED
  BY <1>1, <1>2, <1>3, <1>4, <1>5, <1>6, <1>7, <1>8 DEF Next

\* Each file is there when the next is written, and none is touched again.
LEMMA ConversionsWriteInOrder ==
    ASSUME ReplacedBetweenOnly
    PROVE  ConvertInv /\ [Next]_vars => WritesInOrder'
<1> SUFFICES ASSUME ConvertInv, [Next]_vars PROVE WritesInOrder'
  OBVIOUS
<1>0. \A name, bundle :
         /\ DOMAIN Put(dir.bundles, name, bundle) = DOMAIN dir.bundles \union {name}
         /\ Put(dir.bundles, name, bundle)[name] = bundle
         /\ \A n \in DOMAIN dir.bundles \ {name} : Put(dir.bundles, name, bundle)[n] = dir.bundles[n]
  BY PutIsPut
<1> USE DEF ConvertInv, ReadsOneCheckpoint, Give, Fail
<1>1. ASSUME NEW o \in Orders, Begin(o) PROVE WritesInOrder'
  BY <1>1 DEF Begin, WritesInOrder
<1>2. CASE Hash \/ Open
  BY <1>2 DEF Hash, Open, WritesInOrder
<1>3. CASE WritePackage
  <2>1. Bundle' = Bundle /\ Bundle.emission = Emission /\ Emission.lengths = Lengths /\ Emission.id = opened
    BY <1>3 DEF WritePackage, Bundle, Emission, Lengths
  <2>2. Bundle.provenance.source_sha256 = opened
    BY <1>3 DEF WritePackage, Bundle, ProvenanceOf
  <2>3. DOMAIN dir' = DOMAIN dir /\ dir'.bundles = Put(dir.bundles, BundleName(Lengths), Bundle)
    BY <1>3 DEF WritePackage, PutPackage, WritesInOrder
  <2>4. HasPackage(Bundle)'
    <3> DEFINE name == BundleName(Lengths)
    <3>1. BundleName(Bundle'.emission.lengths) = name
      BY <2>1
    <3>2. Bundle'.provenance.source_sha256 = Bundle'.emission.id
      BY <2>1, <2>2
    <3> HIDE DEF ConvertInv, ReadsOneCheckpoint, name
    <3>3. name \in DOMAIN dir'.bundles /\ dir'.bundles[name] = Bundle
      <4>1. dir'.bundles = Put(dir.bundles, name, Bundle)
        BY <2>3 DEF name
      <4>2. /\ DOMAIN Put(dir.bundles, name, Bundle) = DOMAIN dir.bundles \union {name}
            /\ Put(dir.bundles, name, Bundle)[name] = Bundle
        BY <1>0
      <4> QED
        BY <4>1, <4>2
    <3> QED
      BY <2>1, <3>1, <3>2, <3>3 DEF HasPackage
  <2> QED
    BY <1>3, <2>3, <2>4 DEF WritePackage, WritesInOrder
<1>4. CASE WriteHead
  <2>1. Bundle' = Bundle /\ Bundle.emission = Emission /\ Emission.id = opened
    BY <1>4 DEF WriteHead, Bundle, Emission, Lengths
  <2>2. DOMAIN dir' = DOMAIN dir /\ dir'.bundles = dir.bundles
    BY <1>4 DEF WriteHead, WritesInOrder
  <2>3. Sources[opened].head = "whole" => dir'.head = opened
    BY <1>4 DEF WriteHead, WritesInOrder
  <2>4. HasPackage(Bundle)' /\ HasHead(Bundle)'
    BY <1>4, <2>1, <2>2, <2>3 DEF WriteHead, WritesInOrder, HasPackage, HasHead
  <2> QED
    BY <1>4, <2>2, <2>4 DEF WriteHead, WritesInOrder
<1>5. CASE CopyMetadata
  <2>1. Bundle' = Bundle /\ Bundle.emission = Emission /\ Emission.id = opened /\ opened = source
    BY <1>5 DEF CopyMetadata, Bundle, Emission, Lengths
  <2>2. DOMAIN dir' = DOMAIN dir /\ dir'.bundles = dir.bundles /\ dir'.head = dir.head
    BY <1>5 DEF CopyMetadata, WritesInOrder
  <2>3. dir'.config = source /\ (Sources[source].pooling => dir'.pooling = source)
    BY <1>5 DEF CopyMetadata, WritesInOrder
  <2>4. HasPackage(Bundle)' /\ HasHead(Bundle)' /\ HasMetadata(Bundle)'
    BY <1>5, <2>1, <2>2, <2>3 DEF CopyMetadata, WritesInOrder, HasPackage, HasHead, HasMetadata
  <2>5. CASE order.compiled
    BY <1>5, <2>2, <2>4, <2>5 DEF CopyMetadata, WritesInOrder
  <2>6. CASE ~order.compiled
    <3>1. pc' = "idle" /\ last' = Bundle' /\ order' = order
      BY <1>5, <2>1, <2>6 DEF CopyMetadata
    <3>2. HasPackage(last)' /\ HasHead(last)' /\ HasMetadata(last)'
      BY <2>4, <3>1 DEF HasPackage, HasHead, HasMetadata
    <3> QED
      BY <2>2, <2>6, <3>1, <3>2 DEF WritesInOrder
  <2> QED
    BY <2>5, <2>6
<1>6. CASE Compile
  <2> DEFINE name == BundleName(Lengths)
  <2>1. last' = Bundle /\ Bundle.emission = Emission /\ Emission.lengths = Lengths /\ pc' = "idle" /\ order' = order
    BY <1>6 DEF Compile, Bundle, Emission
  <2>2. HasPackage(Bundle) /\ HasHead(Bundle) /\ HasMetadata(Bundle)
    BY <1>6 DEF Compile, WritesInOrder
  <2>3. /\ DOMAIN dir' = DOMAIN dir /\ dir'.bundles = Put(dir.bundles, CompiledName(name), dir.bundles[name])
        /\ dir'.config = dir.config /\ dir'.pooling = dir.pooling /\ dir'.head = dir.head
    BY <1>6 DEF Compile, WritesInOrder
  <2>4. name # CompiledName(name)
    BY NamesAreWell
  <2>5. name \in DOMAIN dir.bundles /\ dir.bundles[name] = Bundle
    BY <2>1, <2>2 DEF HasPackage
  <2>6. HasPackage(last)' /\ HasCompiled(last)'
    <3>1. BundleName(last'.emission.lengths) = name
      BY <2>1
    <3>2. last'.provenance.source_sha256 = last'.emission.id
      BY <2>1, <2>2 DEF HasPackage
    <3> HIDE DEF ConvertInv, ReadsOneCheckpoint, name
    <3>3. /\ name \in DOMAIN dir'.bundles /\ dir'.bundles[name] = Bundle
          /\ CompiledName(name) \in DOMAIN dir'.bundles /\ dir'.bundles[CompiledName(name)] = Bundle
      <4>1. dir'.bundles = Put(dir.bundles, CompiledName(name), dir.bundles[name])
        BY <2>3 DEF name
      <4> DEFINE form == CompiledName(name)
                 bundle == dir.bundles[name]
                 written == dir'.bundles
      <4>2. written = Put(dir.bundles, form, bundle)
        BY <4>1
      <4> HIDE DEF form, bundle, written
      <4>3. DOMAIN written = DOMAIN dir.bundles \union {form} /\ written[form] = bundle
        BY <1>0, <4>2
      <4>4. \A n \in DOMAIN dir.bundles \ {form} : written[n] = dir.bundles[n]
        BY <1>0, <4>2
      <4>5. name \in DOMAIN dir.bundles /\ dir.bundles[name] = Bundle /\ name # CompiledName(name)
        BY <2>4, <2>5 DEF name
      <4> QED
        BY <4>3, <4>4, <4>5 DEF form, bundle, written
    <3> QED
      BY <2>1, <3>1, <3>2, <3>3 DEF HasPackage, HasCompiled
  <2>7. HasHead(last)' /\ HasMetadata(last)'
    BY <2>1, <2>2, <2>3 DEF HasHead, HasMetadata
  <2> QED
    BY <2>1, <2>3, <2>6, <2>7 DEF WritesInOrder
<1>7. ASSUME pc' = "idle", last' = last, dir' = dir, order' = order PROVE WritesInOrder'
  BY <1>7 DEF WritesInOrder, HasPackage, HasHead, HasMetadata, HasCompiled
<1>8. CASE Interrupt
  BY <1>7, <1>8 DEF Interrupt
<1>9. ASSUME NEW id \in Ids, Swap(id) PROVE WritesInOrder'
  BY <1>7, <1>9 DEF Swap, ReplacedBetweenOnly
<1>10. ASSUME NEW text, NEW padding, Load \/ Run(text, padding) PROVE WritesInOrder'
  BY <1>7, <1>10 DEF Load, Run
<1>11. CASE UNCHANGED vars
  BY <1>11 DEF vars, WritesInOrder, HasPackage, HasHead, HasMetadata, HasCompiled, Bundle, Emission, Lengths
<1> QED
  BY <1>1, <1>2, <1>3, <1>4, <1>5, <1>6, <1>8, <1>9, <1>10, <1>11 DEF Next

\* Of what the last conversion emitted, every length is served but those it is
\* outranked for.
LEMMA OnlyAnOutrankingBundleIsServed ==
    ASSUME ConvertInv, last # None, DOMAIN buckets # {},
           \/ order.compiled
           \/ CompiledName(BundleName(last.emission.lengths)) \notin DOMAIN dir.bundles,
           NEW k \in DOMAIN last.emission.lengths
    PROVE  LET seq == last.emission.lengths[k]
           IN buckets[seq] = last \/ \E n \in DOMAIN dir.bundles : Outranks(n, last, seq)
<1> DEFINE seq == last.emission.lengths[k]
           own == BundleName(last.emission.lengths)
<1>1. /\ own \in DOMAIN dir.bundles /\ dir.bundles[own] = last
      /\ \A n \in DOMAIN dir.bundles : n = CompiledName(own) => dir.bundles[n] = last
  BY DEF ConvertInv, WritesInOrder, HasPackage, HasCompiled
<1>2. own.lengths = last.emission.lengths /\ own.compiled = FALSE
  BY NamesAreWell
<1>3. PICK refused \in SUBSET {n \in DOMAIN dir.bundles : n.compiled} : WhenRefused(buckets, dir.bundles, refused)
  BY DEF ConvertInv, LoadedIsThere, IsLoadedOf
<1> DEFINE kept == [n \in DOMAIN dir.bundles \ refused |-> dir.bundles[n]]
<1>4. seq \in DOMAIN buckets
  BY <1>1, <1>2 DEF ConvertInv, LoadedIsThere, IsLoadedOf, SeqsIn
<1>5. PICK n \in Resolutions(kept, seq) : buckets[seq] = dir.bundles[n]
  BY <1>3, <1>4 DEF WhenRefused
<1>6. WellNamed(kept) /\ DOMAIN kept = DOMAIN dir.bundles \ refused /\ own \in DOMAIN kept
  BY <1>1, <1>2 DEF ConvertInv, BundlesAreNamed, WellNamed
<1> HIDE DEF kept
<1>7. /\ n \in DOMAIN dir.bundles /\ \E i \in DOMAIN n.lengths : n.lengths[i] = seq
      /\ n.compiled = own.compiled /\ HasFunction(n) => HasFunction(own)
  BY <1>2, <1>6, ResolutionsAreAlike
<1>8. CASE n \in {own, CompiledName(own)}
  BY <1>1, <1>5, <1>7, <1>8
<1>9. CASE n \notin {own, CompiledName(own)}
  <2>1. n.compiled \/ (HasFunction(n) => HasFunction(own))
    BY <1>2, <1>7 DEF ConvertInv, BundlesAreNamed, WellNamed, Formed
  <2>2. Outranks(n, last, seq)
    BY <1>7, <1>9, <2>1 DEF Outranks
  <2> QED
    BY <1>7, <2>2
<1> QED
  BY <1>8, <1>9

\* Whatever conversions were refused, interrupted or of other checkpoints, and
\* however Core ML refuses compiled bundles: after one that ran to its end,
\* config.json is its checkpoint's, and so are the head and the pooling file if
\* that has them; and each length is served by what it emitted, but for a
\* compiled form it was not asked to replace and for bundles of another name that
\* outrank it (run of coreml-convert.rs, convert, CoreMlEncoder::load).
THEOREM ConversionsAreServed ==
    ASSUME ReplacedBetweenOnly
    PROVE  Spec => []EndedConversionIsServed
<1>1. Init => ConvertInv
  BY ConversionsBeginInOrder
<1>2. ConvertInv /\ [Next]_vars => ConvertInv'
  BY BundlesStayNamed, LoadedStaysThere, OneCheckpointIsRead, ConversionsWriteInOrder DEF ConvertInv
<1>3. ConvertInv => EndedConversionIsServed
  <2> SUFFICES ASSUME ConvertInv, last # None, DOMAIN buckets # {}
               PROVE  EndedConversionIsServed
    BY DEF EndedConversionIsServed
  <2>1. HasPackage(last) /\ HasHead(last) /\ HasMetadata(last)
    BY DEF ConvertInv, WritesInOrder
  <2>2. ASSUME NEW k \in DOMAIN last.emission.lengths, ~StaysCompiled(last)
        PROVE  LET seq == last.emission.lengths[k]
               IN buckets[seq] = last \/ \E n \in DOMAIN dir.bundles : Outranks(n, last, seq)
    BY <2>2, OnlyAnOutrankingBundleIsServed DEF StaysCompiled
  <2> QED
    BY <2>1, <2>2 DEF EndedConversionIsServed, HasPackage, HasHead, HasMetadata
<1> QED
  BY <1>1, <1>2, <1>3, PTL DEF Spec

-----------------------------------------------------------------------------
(* What Core ML's padding comes to.                                        *)

\* What the product of a shape is made of.
LEMMA ProductIs ==
    ASSUME NEW s \in Seq(Nat)
    PROVE  \E p \in [0..Len(s) -> Nat] :
              /\ p[0] = 1 /\ \A k \in 1..Len(s) : p[k] = p[k - 1] * s[k]
              /\ Product(s) = p[Len(s)]
<1> DEFINE n == Len(s)
           step == [x \in (1..n) \X Nat |-> x[2] * s[x[1]]]
           Is(p) == p = [k \in 0..n |-> IF k = 0 THEN 1 ELSE p[k - 1] * s[k]]
           chosen == CHOOSE p : Is(p)
<1>1. n \in Nat /\ \A k \in 1..n : s[k] \in Nat
  OBVIOUS
<1>2. step \in [(1..n) \X Nat -> Nat]
  BY <1>1
<1>3. PICK q \in [0..n -> Nat] : Steps(q, n, 1, step)
  <2> HIDE DEF step, n
  <2> QED
    BY <1>1, <1>2, StepsExist
<1>4. Is(q)
  <2>1. \A k \in 1..n : step[<<k, q[k - 1]>>] = q[k - 1] * s[k]
    <3> SUFFICES ASSUME NEW k \in 1..n PROVE step[<<k, q[k - 1]>>] = q[k - 1] * s[k]
      OBVIOUS
    <3>1. k - 1 \in 0..n
      BY <1>1
    <3>2. <<k, q[k - 1]>> \in (1..n) \X Nat
      BY <3>1
    <3> QED
      BY <3>2
  <2> HIDE DEF step, n
  <2>2. q = [k \in 0..n |-> IF k = 0 THEN 1 ELSE step[<<k, q[k - 1]>>]]
    BY <1>3 DEF Steps
  <2>3. \A k \in 0..n : q[k] = IF k = 0 THEN 1 ELSE step[<<k, q[k - 1]>>]
    BY <2>2
  <2>4. \A k \in 0..n : k # 0 => k \in 1..n
    BY <1>1
  <2>5. \A k \in 0..n : q[k] = IF k = 0 THEN 1 ELSE q[k - 1] * s[k]
    BY <2>1, <2>3, <2>4
  <2> QED
    BY <2>5
<1>5. Is(chosen)
  <2> HIDE DEF Is
  <2> QED
    BY <1>4
<1>6. Product(s) = chosen[n]
  BY DEF Product
<1> HIDE DEF chosen, n
<1>7. chosen[0] = 1 /\ \A k \in 1..n : chosen[k] = chosen[k - 1] * s[k]
  BY <1>1, <1>5
<1>8. \A k \in 0..n : chosen[k] \in Nat
  <2>1. \A k \in 1..n : chosen[k - 1] \in Nat => chosen[k] \in Nat
    <3>1. \A u, v \in Nat : u * v \in Nat
      OBVIOUS
    <3> QED
      BY <1>1, <1>7, <3>1
  <2>2. n \in Nat /\ chosen[0] \in Nat
    BY <1>1, <1>7
  <2> QED
    BY <2>1, <2>2, StepsStay
<1>9. chosen = [k \in 0..n |-> chosen[k]]
  BY <1>5
<1>10. chosen \in [0..n -> Nat]
  BY <1>8, <1>9
<1> QED
  BY <1>6, <1>7, <1>10 DEF n

\* The products of the shapes a row of hidden states has.
LEMMA SmallProducts ==
    ASSUME NEW a \in Nat, NEW b \in Nat, NEW c \in Nat
    PROVE  /\ Product(<<>>) = 1 /\ Product(<<c>>) = c /\ Product(<<b, c>>) = b * c
           /\ Product(<<a, b, c>>) = a * b * c
<1>1. Product(<<>>) = 1
  <2>1. <<>> \in Seq(Nat) /\ Len(<<>>) = 0
    OBVIOUS
  <2> QED
    BY <2>1, ProductIs
<1>2. Product(<<c>>) = c
  <2> DEFINE s == <<c>>
  <2>1. s \in Seq(Nat) /\ Len(s) = 1 /\ s[1] = c
    OBVIOUS
  <2> HIDE DEF s
  <2>2. PICK p \in [0..1 -> Nat] : p[0] = 1 /\ p[1] = p[0] * c /\ Product(s) = p[1]
    BY <2>1, ProductIs
  <2> QED
    BY <2>2 DEF s
<1>3. Product(<<b, c>>) = b * c
  <2> DEFINE s == <<b, c>>
  <2>1. s \in Seq(Nat) /\ Len(s) = 2 /\ s[1] = b /\ s[2] = c
    OBVIOUS
  <2> HIDE DEF s
  <2>2. PICK p \in [0..2 -> Nat] : p[0] = 1 /\ p[1] = p[0] * b /\ p[2] = p[1] * c /\ Product(s) = p[2]
    BY <2>1, ProductIs
  <2> QED
    BY <2>2 DEF s
<1>4. Product(<<a, b, c>>) = a * b * c
  <2> DEFINE s == <<a, b, c>>
  <2>1. s \in Seq(Nat) /\ Len(s) = 3 /\ s[1] = a /\ s[2] = b /\ s[3] = c
    OBVIOUS
  <2> HIDE DEF s
  <2>2. PICK p \in [0..Len(s) -> Nat] :
           p[0] = 1 /\ (\A k \in 1..Len(s) : p[k] = p[k - 1] * s[k]) /\ Product(s) = p[Len(s)]
    BY <2>1, ProductIs
  <2>3. p[1] = p[0] * a /\ p[2] = p[1] * b /\ p[3] = p[2] * c
    BY <2>1, <2>2
  <2>4. p[1] = a /\ p[2] = a * b
    BY <2>2, <2>3
  <2> QED
    BY <2>1, <2>2, <2>3, <2>4 DEF s
<1> QED
  BY <1>1, <1>2, <1>3, <1>4

\* What is left of a shape of three axes, axis by axis, and what it holds.
LEMMA TailsOfThree ==
    ASSUME NEW a, NEW b, NEW c
    PROVE  /\ Len(<<a, b, c>>) = 3 /\ SubSeq(<<a, b, c>>, 2, 3) = <<b, c>>
           /\ SubSeq(<<a, b, c>>, 3, 3) = <<c>> /\ SubSeq(<<a, b, c>>, 4, 3) = <<>>
<1> DEFINE s == <<a, b, c>>
<1>1. Len(s) = 3 /\ SubSeq(s, 2, 3) = <<b, c>>
  <2>1. SubSeq(s, 2, 3) = [i \in 1..2 |-> s[i + 1]]
    OBVIOUS
  <2>2. [i \in 1..2 |-> s[i + 1]] = <<b, c>>
    OBVIOUS
  <2> QED
    BY <2>1, <2>2
<1>2. SubSeq(s, 3, 3) = <<c>>
  <2>1. SubSeq(s, 3, 3) = [i \in 1..1 |-> s[i + 2]]
    OBVIOUS
  <2>2. [i \in 1..1 |-> s[i + 2]] = <<c>>
    OBVIOUS
  <2> QED
    BY <2>1, <2>2
<1>3. SubSeq(s, 4, 3) = <<>>
  <2>1. SubSeq(s, 4, 3) = [i \in 1..0 |-> s[i + 3]]
    OBVIOUS
  <2>2. [i \in 1..0 |-> s[i + 3]] = <<>>
    OBVIOUS
  <2> QED
    BY <2>1, <2>2
<1> QED
  BY <1>1, <1>2, <1>3

LEMMA RestOfAShape ==
    ASSUME NEW seq \in Nat, NEW dim \in Nat
    PROVE  LET dims == <<1, seq, dim>>
           IN /\ Len(dims) = 3 /\ Product(dims) = seq * dim
              /\ Product(SubSeq(dims, 2, Len(dims))) = seq * dim
              /\ Product(SubSeq(dims, 3, Len(dims))) = dim
              /\ Product(SubSeq(dims, 4, Len(dims))) = 1
<1>1. PICK one \in Nat : one = 1
  OBVIOUS
<1>2. Product(<<one, seq, dim>>) = one * seq * dim
  BY SmallProducts
<1>3. one * seq * dim = seq * dim
  BY <1>1
<1>4. Product(<<seq, dim>>) = seq * dim /\ Product(<<dim>>) = dim /\ Product(<<>>) = 1
  BY SmallProducts
<1>5. Product(<<1, seq, dim>>) = seq * dim
  BY <1>1, <1>2, <1>3
<1> DEFINE dims == <<1, seq, dim>>
<1>6. /\ Len(dims) = 3 /\ SubSeq(dims, 2, 3) = <<seq, dim>>
      /\ SubSeq(dims, 3, 3) = <<dim>> /\ SubSeq(dims, 4, 3) = <<>>
  BY TailsOfThree
<1> HIDE DEF dims
<1>7. /\ Len(dims) = 3 /\ Product(SubSeq(dims, 2, Len(dims))) = seq * dim
      /\ Product(SubSeq(dims, 3, Len(dims))) = dim /\ Product(SubSeq(dims, 4, Len(dims))) = 1
  BY <1>4, <1>6
<1> QED
  BY <1>5, <1>7 DEF dims

\* Where a row's element is, when rows are apart by width.
LEMMA RowsApart ==
    ASSUME NEW k \in Nat, NEW seq \in Nat, k < seq, NEW width \in Nat \ {0}, NEW r \in 0..width - 1
    PROVE  /\ k * width + r \in 0..seq * width - 1
           /\ (k * width + r) \div width = k /\ (k * width + r) % width = r
<1>1. PICK at : at = width * k + r
  OBVIOUS
<1>2. at \in Nat /\ at \div width = k /\ at % width = r
  BY <1>1, DivisionIs
<1>3. width * k + width <= width * seq
  BY NextMultiple
<1>4. PICK x \in Nat : x = width * k
  OBVIOUS
<1>5. PICK y \in Nat : y = width * seq
  OBVIOUS
<1>6. k * width = x /\ seq * width = y
  BY <1>4, <1>5
<1>7. x + r \in 0..y - 1
  BY <1>1, <1>2, <1>3, <1>4, <1>5
<1> QED
  BY <1>1, <1>2, <1>4, <1>6, <1>7

\* read_f32 gives back the rows as they are without padding: a row is found by
\* its stride, or the buffer is read through when the strides are those of a
\* packed one, which they are when nothing was padded.
LEMMA PaddingIsReadOver ==
    ASSUME NEW hidden, NEW seq \in Nat, NEW dim \in Nat, NEW padding \in Nat, hidden.shape = <<1, seq, dim>>
    PROVE  \A i \in 0..seq * dim - 1 : ReadF32(MultiArray(hidden, padding))[i] = hidden.data[i]
<1> DEFINE width == dim + padding
           dims == <<1, seq, dim>>
           strides == <<seq * width, width, 1>>
           array == MultiArray(hidden, padding)
<1> SUFFICES ASSUME NEW i \in 0..seq * dim - 1 PROVE ReadF32(array)[i] = hidden.data[i]
  OBVIOUS
<1>1. /\ array.dims = dims /\ array.strides = strides
      /\ array.buffer = [n \in 0..seq * width - 1 |->
                            IF n % width < dim THEN hidden.data[(n \div width) * dim + (n % width)] ELSE 0]
  <2>1. hidden.shape[2] = seq /\ hidden.shape[3] = dim
    OBVIOUS
  <2> QED
    BY <2>1 DEF MultiArray
<1>2. Product(dims) = seq * dim
  BY RestOfAShape
<1>3. PICK k \in 0..seq - 1, r \in 0..dim - 1 : k = i \div dim /\ r = i % dim /\ i = dim * k + r
  <2>1. i \in 0..dim * seq - 1
    OBVIOUS
  <2> QED
    BY <2>1, QuotientIsLess
<1>4. k \in Nat /\ r \in Nat /\ dim \in Nat \ {0} /\ seq \in Nat \ {0} /\ width \in Nat \ {0} /\ r \in 0..width - 1
  BY <1>3
<1>5. Product(SubSeq(dims, 2, Len(dims))) = seq * dim /\ Product(SubSeq(dims, 3, Len(dims))) = dim
      /\ Product(SubSeq(dims, 4, Len(dims))) = 1 /\ Len(dims) = 3
  BY RestOfAShape
<1> DEFINE at == k * width + r
<1>6. at \in 0..seq * width - 1 /\ array.buffer[at] = hidden.data[i]
  <2>1. k < seq
    BY <1>3
  <2>2. at \in 0..seq * width - 1 /\ at \div width = k /\ at % width = r
    <3> HIDE DEF width
    <3> QED
      BY <1>4, <2>1, RowsApart
  <2>5. k * dim + r = i
    BY <1>3, <1>4
  <2> HIDE DEF at, width, array
  <2>6. at \in 0..seq * width - 1
    BY <2>2
  <2>7. array.buffer[at] = IF at % width < dim THEN hidden.data[(at \div width) * dim + (at % width)] ELSE 0
    BY <1>1, <2>6
  <2>8. r < dim
    BY <1>3
  <2> QED
    BY <2>2, <2>5, <2>6, <2>7, <2>8
<1>7. CASE StridesArePacked(dims, strides)
  <2>1. strides[2] = dim
    <3>1. 2 \in DOMAIN dims
      BY <1>5
    <3>2. strides[2] = Product(SubSeq(dims, 3, Len(dims)))
      BY <1>7, <3>1 DEF StridesArePacked
    <3> QED
      BY <1>5, <3>2
  <2>2. width = dim
    BY <2>1
  <2>3. at = i
    BY <1>3, <1>4, <2>2
  <2>4. ReadF32(array)[i] = array.buffer[i]
    <3> HIDE DEF array, dims, strides
    <3> QED
      BY <1>1, <1>2, <1>7 DEF ReadF32
  <2> QED
    BY <1>6, <2>3, <2>4
<1>8. CASE ~StridesArePacked(dims, strides)
  <2>1. StridedOffset(dims, strides, i) = at
    <3> DEFINE index(n) == (i \div Product(SubSeq(dims, n + 1, Len(dims)))) % dims[n]
               Is(s) == s = [n \in 0..Len(dims) |-> IF n = 0 THEN 0 ELSE s[n - 1] + index(n) * strides[n]]
               sum == [n \in 0..3 |-> IF n = 0 \/ n = 1 THEN 0 ELSE IF n = 2 THEN k * width ELSE at]
               chosen == CHOOSE s : Is(s)
    <3>1. index(1) = 0 /\ index(2) = k /\ index(3) = r
      <4>1. dims[1] = 1 /\ dims[2] = seq /\ dims[3] = dim
        OBVIOUS
      <4>2. index(1) = (i \div (seq * dim)) % 1 /\ index(2) = (i \div dim) % seq /\ index(3) = (i \div 1) % dim
        BY <1>5, <4>1
      <4>3. (i \div (seq * dim)) % 1 = 0
        <5>1. i = (seq * dim) * 0 + i /\ 0 = 1 * 0 + 0 /\ seq * dim \in Nat \ {0}
          BY <1>4
        <5>2. i \div (seq * dim) = 0
          BY <5>1, DivisionIs
        <5> QED
          BY <5>1, <5>2, DivisionIs
      <4>4. k % seq = k
        BY <1>3, <1>4
      <4>5. i \div 1 = i
        BY <1>4
      <4> QED
        BY <1>3, <4>2, <4>3, <4>4, <4>5
    <3>2. strides[1] = seq * width /\ strides[2] = width /\ strides[3] = 1
      OBVIOUS
    <3>3. Is(sum)
      <4>1. /\ sum[0] = 0 /\ sum[1] = sum[0] + index(1) * strides[1]
            /\ sum[2] = sum[1] + index(2) * strides[2] /\ sum[3] = sum[2] + index(3) * strides[3]
        <5> HIDE DEF index, strides
        <5>1. sum[0] = 0 /\ sum[1] = 0 /\ sum[2] = k * width /\ sum[3] = k * width + r
          OBVIOUS
        <5>2. index(1) * strides[1] = 0 /\ index(2) * strides[2] = k * width /\ index(3) * strides[3] = r
          BY <1>4, <3>1, <3>2
        <5>3. k * width \in Nat
          BY <1>4
        <5> QED
          BY <1>4, <5>1, <5>2, <5>3
      <4>2. Len(dims) = 3
        BY <1>5
      <4>3. \A n \in 0..3 : n = 0 \/ n = 1 \/ n = 2 \/ n = 3
        OBVIOUS
      <4> HIDE DEF index, strides, dims, at
      <4>4. \A n \in 0..3 : sum[n] = IF n = 0 THEN 0 ELSE sum[n - 1] + index(n) * strides[n]
        <5> HIDE DEF sum
        <5> QED
          BY <4>1, <4>3
      <4>5. DOMAIN sum = 0..3 /\ sum = [n \in 0..3 |-> sum[n]]
        OBVIOUS
      <4> HIDE DEF sum
      <4> QED
        BY <4>2, <4>4, <4>5
    <3>4. Is(chosen)
      <4> HIDE DEF Is, sum
      <4> QED
        BY <3>3
    <3>5. StridedOffset(dims, strides, i) = chosen[Len(dims)]
      BY DEF StridedOffset
    <3>6. chosen[3] = at
      <4> HIDE DEF chosen, index, strides, dims
      <4>1. chosen[0] = 0
        BY <3>4, <1>5
      <4>2. chosen[1] = chosen[0] + index(1) * strides[1]
        BY <3>4, <1>5
      <4>3. chosen[2] = chosen[1] + index(2) * strides[2]
        BY <3>4, <1>5
      <4>4. chosen[3] = chosen[2] + index(3) * strides[3]
        BY <3>4, <1>5
      <4>5. index(1) * strides[1] = 0 /\ index(2) * strides[2] = k * width /\ index(3) * strides[3] = r
        BY <1>4, <3>1, <3>2
      <4>6. k * width \in Nat
        BY <1>4
      <4> QED
        BY <1>4, <4>1, <4>2, <4>3, <4>4, <4>5, <4>6
    <3> QED
      BY <1>5, <3>5, <3>6
  <2>2. ReadF32(array)[i] = array.buffer[StridedOffset(dims, strides, i)]
    <3> HIDE DEF array, dims, strides
    <3> QED
      BY <1>1, <1>2, <1>8 DEF ReadF32
  <2> QED
    BY <1>6, <2>1, <2>2
<1> QED
  BY <1>7, <1>8

-----------------------------------------------------------------------------
(* What is loaded is labelled with what it was made of.                    *)

\* Sorting a set loses none of it and adds nothing.
LEMMA SortedSetIsOf ==
    ASSUME NEW S \in SUBSET Nat, IsFiniteSet(S)
    PROVE  /\ Cardinality(S) \in Nat /\ DOMAIN SortedSet(S) = 1..Cardinality(S)
           /\ \A k \in DOMAIN SortedSet(S) : SortedSet(S)[k] \in S
           /\ SortedSet(S) \in [1..Cardinality(S) -> S]
<1> DEFINE n == Cardinality(S)
           upTo(s) == {t \in S : t <= s}
           rank == [s \in S |-> Cardinality(upTo(s))]
<1>1. n \in Nat /\ IsFiniteSet(1..n) /\ Cardinality(1..n) = n
  BY FS_CardinalityType, FS_Interval
<1>2. ASSUME NEW s \in S
      PROVE  IsFiniteSet(upTo(s)) /\ Cardinality(upTo(s)) \in 1..n
  <2>1. upTo(s) \in SUBSET S /\ s \in upTo(s)
    OBVIOUS
  <2> HIDE DEF upTo
  <2>2. IsFiniteSet(upTo(s)) /\ Cardinality(upTo(s)) <= n
    BY <2>1, FS_Subset
  <2>3. Cardinality(upTo(s)) \in Nat /\ Cardinality(upTo(s)) # 0
    BY <2>1, <2>2, FS_CardinalityType, FS_EmptySet
  <2> QED
    BY <1>1, <2>2, <2>3
<1>3. rank \in [S -> 1..n]
  BY <1>2
<1>4. ASSUME NEW s \in S, NEW t \in S, s < t PROVE rank[s] # rank[t]
  <2>1. upTo(s) \in SUBSET upTo(t) /\ upTo(s) # upTo(t)
    <3>1. \A u \in S : u <= s => u <= t
      BY <1>4
    <3>2. t \in upTo(t) /\ t \notin upTo(s)
      BY <1>4
    <3> QED
      BY <3>1, <3>2
  <2>2. rank[s] = Cardinality(upTo(s)) /\ rank[t] = Cardinality(upTo(t))
    OBVIOUS
  <2> HIDE DEF upTo, rank
  <2>3. IsFiniteSet(upTo(t))
    BY <1>2
  <2>4. Cardinality(upTo(t)) # Cardinality(upTo(s))
    BY <2>1, <2>3, FS_Subset
  <2> QED
    BY <2>2, <2>4
<1>5. rank \in Injection(S, 1..n)
  <2>1. ASSUME NEW s \in S, NEW t \in S, rank[s] = rank[t] PROVE s = t
    <3>1. ~(s < t) /\ ~(t < s)
      <4> HIDE DEF rank
      <4> QED
        BY <1>4, <2>1
    <3> QED
      BY <3>1
  <2> HIDE DEF rank
  <2> QED
    BY <1>3, <2>1, Fun_IsInj
<1>6. \A k \in 1..n : \E s \in S : rank[s] = k
  <2> HIDE DEF rank, n
  <2>1. rank \in Surjection(S, 1..n)
    BY <1>1, <1>5, FS_Injection DEF n
  <2> QED
    BY <2>1, Fun_SurjectionProperties
<1>7. SortedSet(S) = [k \in 1..n |-> CHOOSE s \in S : Cardinality(upTo(s)) = k]
  BY DEF SortedSet
<1>8. ASSUME NEW k \in 1..n PROVE SortedSet(S)[k] \in S
  <2>1. \E s \in S : Cardinality(upTo(s)) = k
    BY <1>6
  <2> HIDE DEF upTo, n
  <2> QED
    BY <1>7, <2>1
<1> QED
  BY <1>1, <1>7, <1>8

\* The lengths of a bundle are among those that were asked for.
LEMMA LengthsAreNaturals ==
    ASSUME NEW o \in Orders
    PROVE  /\ \A k \in DOMAIN LengthsOf(o) : LengthsOf(o)[k] \in Nat
           /\ IsFiniteSet({LengthsOf(o)[k] : k \in DOMAIN LengthsOf(o)})
<1> DEFINE S == {o.lengths[k] : k \in DOMAIN o.lengths}
           n == Len(o.lengths)
<1>1. o.lengths \in Seq(Nat)
  BY OrdersAssumption
<1>2. n \in Nat /\ DOMAIN o.lengths = 1..n /\ o.lengths \in [1..n -> Nat]
  BY <1>1
<1>3. S \in SUBSET Nat
  BY <1>2
<1>4. IsFiniteSet(S)
  <2>1. o.lengths \in Surjection(1..n, S)
    <3>1. o.lengths \in [1..n -> S] /\ \A s \in S : \E k \in 1..n : o.lengths[k] = s
      BY <1>2
    <3> QED
      BY <3>1, Fun_IsSurj
  <2>2. IsFiniteSet(1..n)
    BY <1>2, FS_Interval
  <2> QED
    BY <2>1, <2>2, FS_Surjection
<1>5. \A k \in DOMAIN SortedSet(S) : SortedSet(S)[k] \in S
  <2> HIDE DEF S
  <2> QED
    BY <1>3, <1>4, SortedSetIsOf
<1>6. LengthsOf(o) = SortedSet(S)
  BY DEF LengthsOf
<1> HIDE DEF S
<1>7. {LengthsOf(o)[k] : k \in DOMAIN LengthsOf(o)} \in SUBSET S
  BY <1>5, <1>6
<1> QED
  BY <1>3, <1>4, <1>5, <1>6, <1>7, FS_Subset

\* A bundle says of itself what it was made of: one checkpoint, hashed and read.
IsLabelled(b) ==
    /\ b.emission \in Emissions
    /\ b.provenance = ProvenanceOf(b.emission.id, b.emission.id, b.emission.lengths, b.emission.opts)

\* ... and its name says its lengths. What comes from elsewhere says nothing.
LabelledAs(b, name) ==
    /\ \A k \in DOMAIN name.lengths : name.lengths[k] \in Nat
    /\ "foreign" \notin DOMAIN b => IsLabelled(b) /\ b.emission.lengths = name.lengths

AllLabelled(bundles) == \A n \in DOMAIN bundles : LabelledAs(bundles[n], n)

BundlesAreLabelled == AllLabelled(dir.bundles)

\* Writing a labelled bundle under its name keeps it so.
LEMMA PutKeepsLabels ==
    ASSUME NEW bundles, NEW name, NEW bundle, AllLabelled(bundles), LabelledAs(bundle, name)
    PROVE  AllLabelled(Put(bundles, name, bundle))
<1>1. /\ DOMAIN Put(bundles, name, bundle) = DOMAIN bundles \union {name}
      /\ Put(bundles, name, bundle)[name] = bundle
      /\ \A n \in DOMAIN bundles \ {name} : Put(bundles, name, bundle)[n] = bundles[n]
  BY DEF Put
<1> HIDE DEF LabelledAs
<1>2. \A n \in DOMAIN bundles : LabelledAs(bundles[n], n)
  BY DEF AllLabelled
<1>3. ASSUME NEW n \in DOMAIN bundles \union {name} PROVE LabelledAs(Put(bundles, name, bundle)[n], n)
  BY <1>1, <1>2
<1> QED
  BY <1>1, <1>3 DEF AllLabelled

\* What is there at first was not converted here.
LEMMA BundlesBeginLabelled == Init => BundlesAreLabelled
<1> SUFFICES ASSUME Init PROVE BundlesAreLabelled
  OBVIOUS
<1> DEFINE Named(left) == [n \in {SeqName(f.seq) : f \in left} |-> [foreign |-> CHOOSE f \in left : SeqName(f.seq) = n]]
           Config(left) == IF left = {} THEN None ELSE (CHOOSE f \in left : TRUE).id
<1>0. PICK left \in SUBSET Foreign :
         dir = [bundles |-> Named(left), config |-> Config(left), pooling |-> None, head |-> None]
  BY DEF Init
<1>1. dir.bundles = Named(left)
  <2> HIDE DEF Named, Config
  <2> QED
    BY <1>0
<1>2. ASSUME NEW n \in DOMAIN dir.bundles PROVE LabelledAs(dir.bundles[n], n)
  <2>1. PICK f \in left : n = SeqName(f.seq)
    BY <1>1
  <2>2. n.lengths = <<f.seq>> /\ f.seq \in Nat
    BY <2>1, InputsAssumption DEF SeqName
  <2>3. \A k \in DOMAIN n.lengths : n.lengths[k] \in Nat
    BY <2>2
  <2>4. dir.bundles[n] = [foreign |-> CHOOSE g \in left : SeqName(g.seq) = n]
    BY <1>1
  <2>5. "foreign" \in DOMAIN dir.bundles[n]
    BY <2>4
  <2> QED
    BY <2>3, <2>5 DEF LabelledAs
<1> QED
  BY <1>2 DEF BundlesAreLabelled, AllLabelled

\* A conversion labels what it writes with what it has read.
LEMMA WhatIsWrittenIsLabelled ==
    ASSUME ConvertInv, pc \in {"write", "head", "copy", "compile"}
    PROVE  /\ LabelledAs(Bundle, BundleName(Lengths))
           /\ LabelledAs(Bundle, CompiledName(BundleName(Lengths)))
<1>1. /\ sha = source /\ opened = source /\ source \in Ids /\ order \in Orders
      /\ Accepted(source, Lengths) /\ Emittable(source)
  BY DEF ConvertInv, ReadsOneCheckpoint
<1>2. Bundle.emission = Emission /\ Bundle.provenance = ProvenanceOf(opened, opened, Lengths, OptionsOf(order))
  BY <1>1 DEF Bundle
<1>3. /\ Emission = [id |-> opened, lengths |-> LengthsOf(order), opts |-> OptionsOf(order)]
      /\ Emission.id = opened /\ Emission.lengths = Lengths /\ Emission.opts = OptionsOf(order)
  BY DEF Emission, Lengths
<1>4. Emission \in Emissions
  <2>1. Emission \in {[id |-> id, lengths |-> LengthsOf(o), opts |-> OptionsOf(o)] : id \in Ids, o \in Orders}
    BY <1>1, <1>3
  <2> QED
    BY <1>1, <1>3, <2>1 DEF Emissions
<1>5. IsLabelled(Bundle) /\ Bundle.emission.lengths = Lengths
  BY <1>2, <1>3, <1>4 DEF IsLabelled
<1>6. \A k \in DOMAIN Lengths : Lengths[k] \in Nat
  BY <1>1, LengthsAreNaturals DEF Lengths
<1>7. BundleName(Lengths).lengths = Lengths /\ CompiledName(BundleName(Lengths)).lengths = Lengths
  BY NamesAreWell
<1> QED
  BY <1>5, <1>6, <1>7 DEF LabelledAs

\* So every bundle stays labelled, if the checkpoint is replaced only between
\* conversions.
LEMMA BundlesStayLabelled ==
    ConvertInv /\ BundlesAreLabelled /\ [Next]_vars => BundlesAreLabelled'
<1> SUFFICES ASSUME ConvertInv, BundlesAreLabelled, [Next]_vars PROVE BundlesAreLabelled'
  OBVIOUS
<1>1. CASE dir'.bundles = dir.bundles
  BY <1>1 DEF BundlesAreLabelled
<1>2. CASE WritePackage
  <2>1. dir'.bundles \in {dir.bundles, Put(dir.bundles, BundleName(Lengths), Bundle)}
    BY <1>2 DEF WritePackage, PutPackage
  <2>2. LabelledAs(Bundle, BundleName(Lengths))
    BY <1>2, WhatIsWrittenIsLabelled DEF WritePackage
  <2>3. AllLabelled(Put(dir.bundles, BundleName(Lengths), Bundle))
    BY <2>2, PutKeepsLabels DEF BundlesAreLabelled
  <2> QED
    BY <2>1, <2>3 DEF BundlesAreLabelled
<1>3. CASE Compile
  <2> DEFINE name == CompiledName(BundleName(Lengths))
  <2>1. dir'.bundles \in {dir.bundles, Put(dir.bundles, name, dir.bundles[BundleName(Lengths)])}
    BY <1>3 DEF Compile
  <2>2. dir.bundles[BundleName(Lengths)] = Bundle
    <3>1. HasPackage(Bundle)
      BY <1>3 DEF Compile, ConvertInv, WritesInOrder
    <3>2. Bundle.emission.lengths = Lengths
      BY DEF Bundle, Emission
    <3> QED
      BY <3>1, <3>2 DEF HasPackage
  <2>3. LabelledAs(Bundle, name)
    BY <1>3, WhatIsWrittenIsLabelled DEF Compile
  <2>4. AllLabelled(Put(dir.bundles, name, dir.bundles[BundleName(Lengths)]))
    BY <2>2, <2>3, PutKeepsLabels DEF BundlesAreLabelled
  <2> QED
    BY <2>1, <2>4 DEF BundlesAreLabelled
<1>4. CASE WriteHead
  BY <1>1, <1>4 DEF WriteHead
<1>5. CASE CopyMetadata
  BY <1>1, <1>5 DEF CopyMetadata
<1>6. ASSUME NEW o \in Orders, Begin(o) PROVE BundlesAreLabelled'
  BY <1>1, <1>6 DEF Begin
<1>7. CASE Hash \/ Open \/ Interrupt \/ Load
  BY <1>1, <1>7 DEF Hash, Open, Interrupt, Load
<1>8. ASSUME NEW id \in Ids, Swap(id) PROVE BundlesAreLabelled'
  BY <1>1, <1>8 DEF Swap
<1>9. ASSUME NEW text, NEW padding, Run(text, padding) PROVE BundlesAreLabelled'
  BY <1>1, <1>9 DEF Run
<1>10. CASE UNCHANGED vars
  BY <1>1, <1>10 DEF vars
<1> QED
  BY <1>2, <1>3, <1>4, <1>5, <1>6, <1>7, <1>8, <1>9, <1>10 DEF Next

\* What a directory is loaded as is labelled, and each bundle is run for one of
\* its own lengths.
LEMMA LoadedIsLabelled ==
    ASSUME ConvertInv, BundlesAreLabelled, NEW seq \in DOMAIN buckets
    PROVE  /\ seq \in Nat
           /\ "foreign" \notin DOMAIN buckets[seq] =>
                 /\ IsLabelled(buckets[seq])
                 /\ \E k \in DOMAIN buckets[seq].emission.lengths : buckets[seq].emission.lengths[k] = seq
<1>1. PICK refused \in SUBSET {n \in DOMAIN dir.bundles : n.compiled} : WhenRefused(buckets, dir.bundles, refused)
  BY DEF ConvertInv, LoadedIsThere, IsLoadedOf
<1> DEFINE kept == [n \in DOMAIN dir.bundles \ refused |-> dir.bundles[n]]
<1>2. PICK n \in Resolutions(kept, seq) : buckets[seq] = dir.bundles[n]
  BY <1>1 DEF WhenRefused
<1>3. WellNamed(kept) /\ DOMAIN kept = DOMAIN dir.bundles \ refused
  BY DEF ConvertInv, BundlesAreNamed, WellNamed
<1> HIDE DEF kept
<1>4. n \in DOMAIN dir.bundles /\ \E k \in DOMAIN n.lengths : n.lengths[k] = seq
  BY <1>2, <1>3, ResolutionsAreAlike
<1>5. LabelledAs(buckets[seq], n)
  BY <1>2, <1>4 DEF BundlesAreLabelled, AllLabelled
<1> QED
  BY <1>4, <1>5 DEF LabelledAs

-----------------------------------------------------------------------------
(* What a text is given.                                                   *)

\* What a bundle of its own was run for.
Pass(bundle, seq, text) == <<bundle.emission, seq, text>>

\* An answer is what the bundle it came through computes of the text, padding
\* aside, and the text fits the bundle.
IsComputed(given, loaded) ==
    /\ given.seq \in DOMAIN loaded
    /\ "foreign" \notin DOMAIN loaded[given.seq]
    /\ Pass(loaded[given.seq], given.seq, given.text) \in Passes
    /\ LET outcome == Computed[Pass(loaded[given.seq], given.seq, given.text)]
       IN /\ given.misdeclared = outcome.misdeclared
          /\ \A i \in 0..given.seq * Sources[loaded[given.seq].emission.id].config.hidden - 1 :
                given.hidden[i] = outcome.hidden.data[i]

AnswerIsComputed == answer # None => IsComputed(answer, buckets)

LabelInv == ConvertInv /\ BundlesAreLabelled /\ AnswerIsComputed

\* The smallest bucket of at least some length is one, when there is one.
LEMMA BucketFits ==
    ASSUME NEW len \in Nat, DOMAIN buckets \subseteq Nat, \E seq \in DOMAIN buckets : len <= seq
    PROVE  BucketFor(len) \in DOMAIN buckets /\ len <= BucketFor(len)
<1> DEFINE fits == {seq \in DOMAIN buckets : seq >= len}
           Least(seq) == seq \in fits /\ \A other \in fits : seq <= other
<1>1. fits \in SUBSET Nat /\ fits # {}
  OBVIOUS
<1>2. \E seq : Least(seq)
  <2> HIDE DEF fits
  <2> QED
    BY <1>1, LeastNat
<1>3. BucketFor(len) = CHOOSE seq : Least(seq)
  BY DEF BucketFor
<1>4. Least(BucketFor(len))
  <2> HIDE DEF Least
  <2> QED
    BY <1>2, <1>3
<1> QED
  BY <1>1, <1>4

\* A bundle's text is one of the passes the emitted graphs were worked out for.
LEMMA PassesAreRun ==
    ASSUME NEW bundle, IsLabelled(bundle), NEW text \in Texts, NEW k \in DOMAIN bundle.emission.lengths,
           bundle.emission.lengths[k] >= Len(text)
    PROVE  Pass(bundle, bundle.emission.lengths[k], text) \in Passes
<1> DEFINE e == bundle.emission
           OfA(e_, text_) == {<<e_, e_.lengths[k_], text_>> : k_ \in {k_ \in DOMAIN e_.lengths : e_.lengths[k_] >= Len(text_)}}
<1>1. e \in Emissions
  BY DEF IsLabelled
<1>2. <<e, e.lengths[k], text>> \in OfA(e, text)
  OBVIOUS
<1>3. Passes = UNION {OfA(e_, text_) : e_ \in Emissions, text_ \in Texts}
  BY DEF Passes
<1> HIDE DEF OfA
<1>4. <<e, e.lengths[k], text>> \in Passes
  BY <1>1, <1>2, <1>3
<1> QED
  BY <1>4 DEF Pass

\* What is given of a text is what was computed of it.
IsReadOf(given, p, text) ==
    /\ given.text = text /\ given.seq = p[2] /\ given.misdeclared = Computed[p].misdeclared
    /\ \A i \in 0..p[2] * Sources[p[1].id].config.hidden - 1 : given.hidden[i] = Computed[p].hidden.data[i]

LEMMA AnswersAreRead ==
    ASSUME GraphsComputeTheModel, NEW p \in Passes, p[2] \in Nat,
           NEW text, NEW padding \in Nat, NEW given, given = Answered(text, p[2], Computed[p], padding)
    PROVE  IsReadOf(given, p, text)
<1> DEFINE width == Sources[p[1].id].config.hidden
           hidden == Computed[p].hidden
<1>1. hidden.shape = <<1, p[2], width>>
  <2>1. ComputesTheModel(p)
    BY DEF GraphsComputeTheModel
  <2> QED
    BY <2>1 DEF ComputesTheModel
<1>2. width \in Nat
  <2>1. p[1].id \in Ids
    BY DEF Passes, Emissions
  <2> QED
    BY <2>1, SourcesAssumption
<1>3. given.text = text /\ given.seq = p[2] /\ given.misdeclared = Computed[p].misdeclared
      /\ given.hidden = ReadF32(MultiArray(hidden, padding))
  BY DEF Answered
<1>4. \A i \in 0..p[2] * width - 1 : ReadF32(MultiArray(hidden, padding))[i] = hidden.data[i]
  <2> HIDE DEF hidden, width
  <2> QED
    BY <1>1, <1>2, PaddingIsReadOver
<1> QED
  BY <1>3, <1>4 DEF IsReadOf

\* One row through a bucket: what is given is what that bucket computes.
LEMMA RunsAreComputed ==
    ASSUME GraphsComputeTheModel, ConvertInv, BundlesAreLabelled,
           NEW text \in Texts, NEW padding \in Paddings, Run(text, padding)
    PROVE  AnswerIsComputed'
<1> DEFINE seq == BucketFor(Len(text))
           bundle == buckets[seq]
           p == Pass(bundle, seq, text)
<1>1. /\ \E other \in DOMAIN buckets : Len(text) <= other
      /\ "foreign" \notin DOMAIN bundle
      /\ answer' = Answered(text, seq, Computed[<<bundle.emission, seq, text>>], padding)
      /\ buckets' = buckets
  BY DEF Run
<1>2. \A other \in DOMAIN buckets :
         /\ other \in Nat
         /\ "foreign" \notin DOMAIN buckets[other] =>
               /\ IsLabelled(buckets[other])
               /\ \E k \in DOMAIN buckets[other].emission.lengths : buckets[other].emission.lengths[k] = other
  BY LoadedIsLabelled
<1>3. Len(text) \in Nat /\ padding \in Nat
  BY InputsAssumption
<1>4. seq \in DOMAIN buckets /\ Len(text) <= seq /\ seq \in Nat
  <2>1. DOMAIN buckets \subseteq Nat
    BY <1>2
  <2> QED
    BY <1>1, <1>2, <1>3, <2>1, BucketFits
<1> HIDE DEF seq
<1>5. IsLabelled(bundle) /\ \E k \in DOMAIN bundle.emission.lengths : bundle.emission.lengths[k] = seq
  BY <1>1, <1>2, <1>4
<1>6. p \in Passes
  <2>1. PICK k \in DOMAIN bundle.emission.lengths : bundle.emission.lengths[k] = seq
    BY <1>5
  <2>2. bundle.emission.lengths[k] >= Len(text)
    BY <1>3, <1>4, <2>1
  <2> HIDE DEF bundle
  <2> QED
    BY <1>5, <2>1, <2>2, PassesAreRun
<1>7. p[1] = bundle.emission /\ p[2] = seq /\ p = <<bundle.emission, seq, text>>
  BY DEF Pass
<1> HIDE DEF p
<1>8. answer' = Answered(text, p[2], Computed[p], padding)
  BY <1>1, <1>7
<1>9. IsReadOf(answer', p, text)
  <2> DEFINE given == answer'
  <2>0. given = Answered(text, p[2], Computed[p], padding) /\ p[2] \in Nat
    BY <1>4, <1>7, <1>8
  <2> HIDE DEF given, bundle
  <2>1. IsReadOf(given, p, text)
    BY <1>3, <1>6, <2>0, AnswersAreRead
  <2> USE DEF given
  <2> QED
    BY <2>1
<1>10. IsComputed(answer', buckets)
  <2>1. /\ (answer').text = text /\ (answer').seq = seq /\ (answer').misdeclared = Computed[p].misdeclared
        /\ \A i \in 0..seq * Sources[bundle.emission.id].config.hidden - 1 : (answer').hidden[i] = Computed[p].hidden.data[i]
    BY <1>7, <1>9 DEF IsReadOf
  <2>2. Pass(buckets[(answer').seq], (answer').seq, (answer').text) = p
    BY <2>1 DEF p
  <2> QED
    BY <1>1, <1>4, <1>6, <2>1, <2>2 DEF IsComputed
<1> QED
  BY <1>1, <1>10 DEF AnswerIsComputed

LEMMA LabelsAreKept ==
    ASSUME ReplacedBetweenOnly, GraphsComputeTheModel
    PROVE  LabelInv /\ [Next]_vars => LabelInv'
<1> SUFFICES ASSUME LabelInv, [Next]_vars PROVE LabelInv'
  OBVIOUS
<1> USE DEF LabelInv
<1>1. ConvertInv'
  BY BundlesStayNamed, LoadedStaysThere, OneCheckpointIsRead, ConversionsWriteInOrder DEF ConvertInv
<1>2. BundlesAreLabelled'
  BY BundlesStayLabelled
<1>3. ASSUME UNCHANGED <<buckets, answer>> PROVE AnswerIsComputed'
  BY <1>3 DEF AnswerIsComputed
<1>4. ASSUME answer' = None PROVE AnswerIsComputed'
  BY <1>4 DEF AnswerIsComputed
<1>5. AnswerIsComputed'
  <2>1. CASE WritePackage \/ WriteHead \/ CopyMetadata \/ Compile
    BY <1>3, <2>1 DEF WritePackage, WriteHead, CopyMetadata, Compile
  <2>2. CASE Hash \/ Open \/ Interrupt
    BY <1>3, <2>2 DEF Hash, Open, Interrupt
  <2>3. ASSUME NEW o \in Orders, Begin(o) PROVE answer' = None
    BY <2>3 DEF Begin
  <2>4. CASE Load
    BY <1>4, <2>4 DEF Load
  <2>5. ASSUME NEW id \in Ids, Swap(id) PROVE UNCHANGED <<buckets, answer>>
    BY <2>5 DEF Swap
  <2>6. ASSUME NEW text \in {t \in Texts : DOMAIN buckets # {}}, NEW padding \in Paddings, Run(text, padding)
        PROVE  AnswerIsComputed'
    BY <2>6, RunsAreComputed
  <2>7. CASE UNCHANGED vars
    BY <1>3, <2>7 DEF vars
  <2> QED
    BY <1>3, <1>4, <2>1, <2>2, <2>3, <2>4, <2>5, <2>6, <2>7 DEF Next
<1> QED
  BY <1>1, <1>2, <1>5

LEMMA LabelsBegin == Init => LabelInv
<1>1. Init => AnswerIsComputed
  BY DEF Init, AnswerIsComputed
<1> QED
  BY <1>1, ConversionsBeginInOrder, BundlesBeginLabelled DEF LabelInv

LEMMA LabelsHold ==
    ASSUME ReplacedBetweenOnly, GraphsComputeTheModel
    PROVE  Spec => []LabelInv
<1>1. Init => LabelInv
  BY LabelsBegin
<1>2. LabelInv /\ [Next]_vars => LabelInv'
  BY LabelsAreKept
<1> QED
  BY <1>1, <1>2, PTL DEF Spec

\* What a pass is of: the rows the model gives its text, and their width.
WidthOf(p) == Sources[p[1].id].config.hidden
ModelOf(p) == Reference[<<p[1].id, Quantization(p[1].opts), p[3]>>]

\* A pass is a text through a bucket that it fits.
LEMMA PassesFit ==
    ASSUME NEW p \in Passes
    PROVE  /\ p = <<p[1], p[2], p[3]>> /\ p[1] \in Emissions /\ p[3] \in Texts /\ p[2] \in Nat
           /\ Len(p[3]) \in Nat /\ Len(p[3]) <= p[2] /\ WidthOf(p) \in Nat
<1> DEFINE OfA(e_, text_) == {<<e_, e_.lengths[k_], text_>> : k_ \in {k_ \in DOMAIN e_.lengths : e_.lengths[k_] >= Len(text_)}}
<1>1. PICK e \in Emissions, text \in Texts : p \in OfA(e, text)
  <2>1. Passes = UNION {OfA(e_, text_) : e_ \in Emissions, text_ \in Texts}
    BY DEF Passes
  <2> HIDE DEF OfA
  <2> QED
    BY <2>1
<1>2. PICK k \in DOMAIN e.lengths : e.lengths[k] >= Len(text) /\ p = <<e, e.lengths[k], text>>
  BY <1>1
<1>3. p[1] = e /\ p[2] = e.lengths[k] /\ p[3] = text
  BY <1>2
<1>4. Len(text) \in Nat
  BY InputsAssumption
<1>5. PICK o \in Orders, id \in Ids : e = [id |-> id, lengths |-> LengthsOf(o), opts |-> OptionsOf(o)]
  BY DEF Emissions
<1>6. e.lengths[k] \in Nat
  BY <1>2, <1>5, LengthsAreNaturals
<1>7. WidthOf(p) \in Nat
  <2>1. p[1].id \in Ids
    BY <1>3, <1>5
  <2> QED
    BY <2>1, SourcesAssumption DEF WidthOf
<1> QED
  BY <1>2, <1>3, <1>4, <1>6, <1>7

\* What a pass gives of each row of the text is what the model gives, and it is
\* as it was declared.
LEMMA PassesGiveTheModel ==
    ASSUME GraphsComputeTheModel, NEW p \in Passes
    PROVE  /\ Computed[p].misdeclared = {}
           /\ \A q \in 0..Len(p[3]) - 1 :
                 [j \in 0..WidthOf(p) - 1 |-> Computed[p].hidden.data[q * WidthOf(p) + j]] = ModelOf(p)[q]
<1>1. ComputesTheModel(p)
  BY DEF GraphsComputeTheModel
<1> QED
  BY <1>1 DEF ComputesTheModel, WidthOf, ModelOf

\* What an answer is computed by.
LEMMA AnswersArePasses ==
    ASSUME GraphsComputeTheModel, LabelInv, answer # None
    PROVE  \E p \in Passes :
              /\ p = <<buckets[answer.seq].emission, answer.seq, answer.text>>
              /\ answer.seq \in DOMAIN buckets /\ "foreign" \notin DOMAIN buckets[answer.seq]
              /\ IsLabelled(buckets[answer.seq])
              /\ WidthOf(p) = Width /\ answer.misdeclared = {}
              /\ \A q \in 0..Len(answer.text) - 1, j \in 0..Width - 1 :
                    answer.hidden[q * Width + j] = Computed[p].hidden.data[q * Width + j]
<1> DEFINE p == Pass(buckets[answer.seq], answer.seq, answer.text)
<1>1. /\ answer.seq \in DOMAIN buckets /\ "foreign" \notin DOMAIN buckets[answer.seq]
      /\ p \in Passes /\ answer.misdeclared = Computed[p].misdeclared
      /\ \A i \in 0..answer.seq * Width - 1 : answer.hidden[i] = Computed[p].hidden.data[i]
  BY DEF LabelInv, AnswerIsComputed, IsComputed, Width
<1>2. p = <<buckets[answer.seq].emission, answer.seq, answer.text>>
  BY DEF Pass
<1>3. p[1] = buckets[answer.seq].emission /\ p[2] = answer.seq /\ p[3] = answer.text
  BY <1>2
<1>4. WidthOf(p) = Width
  BY <1>3 DEF WidthOf, Width
<1> HIDE DEF p
<1>5. answer.seq \in Nat /\ Len(answer.text) \in Nat /\ Len(answer.text) <= answer.seq /\ Width \in Nat
  BY <1>1, <1>3, <1>4, PassesFit
<1>6. ASSUME NEW q \in 0..Len(answer.text) - 1, NEW j \in 0..Width - 1
      PROVE  answer.hidden[q * Width + j] = Computed[p].hidden.data[q * Width + j]
  <2>1. q \in Nat /\ q < answer.seq /\ Width \in Nat \ {0}
    BY <1>5
  <2>2. q * Width + j \in 0..answer.seq * Width - 1
    BY <1>5, <2>1, RowsApart
  <2> QED
    BY <1>1, <2>2
<1>7. IsLabelled(buckets[answer.seq])
  BY <1>1, LoadedIsLabelled DEF LabelInv
<1>8. Computed[p].misdeclared = {}
  BY <1>1, PassesGiveTheModel
<1> QED
  BY <1>1, <1>2, <1>4, <1>6, <1>7, <1>8

\* The vectors a text gets are those the model gives it with the weights that
\* the provenance names, stored as it says, if the emitted graphs compute the
\* model and the checkpoint is replaced only between conversions: no order of
\* conversions, interruptions, loads and runs, and no padding of Core ML's,
\* gives a text another vector under that label (convert and
\* Provenance::entries, CoreMlEncoder::load and run_rows, read_f32).
THEOREM VectorsAreLabelled ==
    ASSUME ReplacedBetweenOnly, GraphsComputeTheModel
    PROVE  Spec => []VectorsAreAsLabelled
<1>1. LabelInv => VectorsAreAsLabelled
  <2> SUFFICES ASSUME LabelInv, answer # None, OneProvenance,
                      NEW q \in 0..Len(answer.text) - 1
               PROVE  [j \in 0..Width - 1 |-> answer.hidden[q * Width + j]]
                         = Reference[<<Provenance.source_sha256, Provenance.quantization, answer.text>>][q]
    BY DEF VectorsAreAsLabelled
  <2>1. PICK p \in Passes :
              /\ p = <<buckets[answer.seq].emission, answer.seq, answer.text>>
              /\ answer.seq \in DOMAIN buckets /\ "foreign" \notin DOMAIN buckets[answer.seq]
              /\ IsLabelled(buckets[answer.seq])
              /\ WidthOf(p) = Width
              /\ \A r \in 0..Len(answer.text) - 1, j \in 0..Width - 1 :
                    answer.hidden[r * Width + j] = Computed[p].hidden.data[r * Width + j]
    BY AnswersArePasses
  <2>2. Provenance = buckets[answer.seq].provenance
    <3> DEFINE First(seq) == seq \in DOMAIN buckets /\ \A other \in DOMAIN buckets : seq <= other
    <3>1. DOMAIN buckets \in SUBSET Nat /\ DOMAIN buckets # {}
      BY <2>1, LoadedIsLabelled DEF LabelInv
    <3>2. \E seq : First(seq)
      BY <3>1, LeastNat
    <3>3. FirstBucket = buckets[CHOOSE seq : First(seq)]
      BY DEF FirstBucket
    <3>4. First(CHOOSE seq : First(seq))
      <4> HIDE DEF First
      <4> QED
        BY <3>2
    <3> QED
      BY <2>1, <3>3, <3>4 DEF Provenance, OneProvenance
  <2>3. p[1] = buckets[answer.seq].emission /\ p[3] = answer.text
    BY <2>1
  <2>4. ModelOf(p) = Reference[<<Provenance.source_sha256, Provenance.quantization, answer.text>>]
    <3>1. Provenance.source_sha256 = p[1].id /\ Provenance.quantization = Quantization(p[1].opts)
      BY <2>1, <2>2, <2>3 DEF IsLabelled, ProvenanceOf
    <3> QED
      BY <2>3, <3>1 DEF ModelOf
  <2>5. [j \in 0..Width - 1 |-> Computed[p].hidden.data[q * Width + j]] = ModelOf(p)[q]
    <3>1. q \in 0..Len(p[3]) - 1
      BY <2>3
    <3>2. [j \in 0..WidthOf(p) - 1 |-> Computed[p].hidden.data[q * WidthOf(p) + j]] = ModelOf(p)[q]
      BY <3>1, PassesGiveTheModel
    <3> QED
      BY <2>1, <3>2
  <2>6. [j \in 0..Width - 1 |-> answer.hidden[q * Width + j]] = [j \in 0..Width - 1 |-> Computed[p].hidden.data[q * Width + j]]
    BY <2>1
  <2> QED
    BY <2>4, <2>5, <2>6
<1> QED
  BY <1>1, LabelsHold, PTL

-----------------------------------------------------------------------------
(* What the Builder makes of its requests.                                 *)

\* The requests that are the first of their kind, in the order they were made.
Pushes(f, first, n) ==
    f = [k \in 0..n |-> IF k = 0 THEN <<>> ELSE IF first[k] = k THEN Append(f[k - 1], k) ELSE f[k - 1]]

\* s has each of those among the first m, once and in order.
InOrder(s, first, m) ==
    /\ s \in Seq(1..m)
    /\ \A k \in 1..Len(s) : first[s[k]] = s[k]
    /\ \A k, j \in 1..Len(s) : k < j => s[k] < s[j]
    /\ \A i \in 1..m : first[i] = i => \E k \in 1..Len(s) : s[k] = i

\* One request more, which is pushed or is there already.
LEMMA PushingKeepsOrder ==
    ASSUME NEW first, NEW m \in Nat \ {0}, NEW s, InOrder(s, first, m - 1)
    PROVE  InOrder(IF first[m] = m THEN Append(s, m) ELSE s, first, m)
<1>1. /\ s \in Seq(1..m - 1) /\ Len(s) \in Nat /\ \A k \in 1..Len(s) : s[k] \in 1..m - 1
      /\ \A k \in 1..Len(s) : first[s[k]] = s[k]
      /\ \A k, j \in 1..Len(s) : k < j => s[k] < s[j]
      /\ \A i \in 1..m - 1 : first[i] = i => \E k \in 1..Len(s) : s[k] = i
  BY DEF InOrder
<1>2. s \in Seq(1..m)
  BY <1>1
<1>3. CASE first[m] # m
  <2>1. \A i \in 1..m : i \in 1..m - 1 \/ i = m
    OBVIOUS
  <2>2. InOrder(s, first, m)
    BY <1>1, <1>2, <1>3, <2>1 DEF InOrder
  <2> QED
    BY <1>3, <2>2
<1>4. CASE first[m] = m
  <2> DEFINE t == Append(s, m)
  <2>1. /\ t \in Seq(1..m) /\ Len(t) = Len(s) + 1 /\ t[Len(s) + 1] = m
        /\ \A k \in 1..Len(s) : t[k] = s[k]
    BY <1>1, <1>2
  <2>2. \A k \in 1..Len(t) : k \in 1..Len(s) \/ k = Len(s) + 1
    BY <1>1, <2>1
  <2> HIDE DEF t
  <2>3. \A k \in 1..Len(t) : first[t[k]] = t[k]
    BY <1>1, <1>4, <2>1, <2>2
  <2>4. ASSUME NEW k \in 1..Len(t), NEW j \in 1..Len(t), k < j PROVE t[k] < t[j]
    <3>1. k \in 1..Len(s)
      BY <1>1, <2>1, <2>4
    <3>2. CASE j \in 1..Len(s)
      BY <1>1, <2>1, <2>4, <3>1, <3>2
    <3>3. CASE j = Len(s) + 1
      BY <1>1, <2>1, <3>1, <3>3
    <3> QED
      BY <2>2, <3>2, <3>3
  <2>5. ASSUME NEW i \in 1..m, first[i] = i PROVE \E k \in 1..Len(t) : t[k] = i
    <3>1. CASE i = m
      BY <1>1, <2>1, <3>1
    <3>2. CASE i \in 1..m - 1
      <4>1. PICK k \in 1..Len(s) : s[k] = i
        BY <1>1, <2>5, <3>2
      <4> QED
        BY <1>1, <2>1, <4>1
    <3> QED
      BY <3>1, <3>2
  <2>6. InOrder(t, first, m)
    BY <2>1, <2>3, <2>4, <2>5 DEF InOrder
  <2> QED
    BY <1>4, <2>6 DEF t
<1> QED
  BY <1>3, <1>4

\* So it is of all of them.
LEMMA PushedInOrder ==
    ASSUME NEW first, NEW n \in Nat
    PROVE  InOrder((CHOOSE f : Pushes(f, first, n))[n], first, n)
<1> DEFINE chosen == CHOOSE f : Pushes(f, first, n)
           S == Seq(1..n)
           step == [x \in (1..n) \X S |-> IF first[x[1]] = x[1] THEN Append(x[2], x[1]) ELSE x[2]]
<1>1. \E f : Pushes(f, first, n)
  <2>1. step \in [(1..n) \X S -> S]
    <3>1. \A x \in (1..n) \X S : Append(x[2], x[1]) \in S /\ x[2] \in S
      OBVIOUS
    <3> HIDE DEF S
    <3> QED
      BY <3>1
  <2>2. <<>> \in S
    OBVIOUS
  <2> HIDE DEF S, step
  <2>3. PICK q \in [0..n -> S] : Steps(q, n, <<>>, step)
    BY <2>1, <2>2, StepsExist
  <2>4. ASSUME NEW k \in 0..n
        PROVE  q[k] = IF k = 0 THEN <<>> ELSE IF first[k] = k THEN Append(q[k - 1], k) ELSE q[k - 1]
    <3>1. q[k] = IF k = 0 THEN <<>> ELSE step[<<k, q[k - 1]>>]
      BY <2>3 DEF Steps
    <3>2. k # 0 => k \in 1..n /\ q[k - 1] \in S
      BY <2>3
    <3>3. k # 0 => step[<<k, q[k - 1]>>] = IF first[k] = k THEN Append(q[k - 1], k) ELSE q[k - 1]
      <4> SUFFICES ASSUME k # 0 PROVE step[<<k, q[k - 1]>>] = IF first[k] = k THEN Append(q[k - 1], k) ELSE q[k - 1]
        OBVIOUS
      <4>1. <<k, q[k - 1]>> \in (1..n) \X S
        BY <3>2
      <4> QED
        BY <4>1 DEF step
    <3> QED
      BY <3>1, <3>3
  <2>5. Pushes(q, first, n)
    BY <2>3, <2>4 DEF Pushes
  <2> QED
    BY <2>5
<1>2. Pushes(chosen, first, n)
  BY <1>1
<1> HIDE DEF chosen
<1>3. /\ chosen[0] = <<>>
      /\ \A k \in 1..n : chosen[k] = IF first[k] = k THEN Append(chosen[k - 1], k) ELSE chosen[k - 1]
  <2>1. \A k \in 0..n : chosen[k] = IF k = 0 THEN <<>> ELSE IF first[k] = k THEN Append(chosen[k - 1], k) ELSE chosen[k - 1]
    BY <1>2 DEF Pushes
  <2> QED
    BY <2>1
<1> DEFINE wrong == {k \in 0..n : ~InOrder(chosen[k], first, k)}
<1>4. wrong = {}
  <2> SUFFICES ASSUME wrong # {} PROVE FALSE
    OBVIOUS
  <2>1. PICK k \in wrong : \A j \in wrong : k <= j
    <3>1. wrong \in SUBSET Nat
      OBVIOUS
    <3> HIDE DEF wrong
    <3> QED
      BY <3>1, LeastNat
  <2>2. k # 0
    <3>1. InOrder(<<>>, first, 0)
      BY DEF InOrder
    <3> QED
      BY <1>3, <2>1, <3>1
  <2>3. k \in Nat \ {0} /\ k \in 1..n /\ k - 1 \in 0..n /\ k - 1 \notin wrong
    BY <2>1, <2>2
  <2>4. InOrder(chosen[k - 1], first, k - 1)
    BY <2>3
  <2>5. InOrder(IF first[k] = k THEN Append(chosen[k - 1], k) ELSE chosen[k - 1], first, k)
    BY <2>3, <2>4, PushingKeepsOrder
  <2>6. InOrder(chosen[k], first, k)
    BY <1>3, <2>3, <2>5
  <2> QED
    BY <2>1, <2>6
<1>5. n \in 0..n
  OBVIOUS
<1> QED
  BY <1>4, <1>5 DEF chosen

\* Of the requests, those that are immediates, and what they are kept by.
Immediates(requests) == {i \in DOMAIN requests : requests[i].source = "immediate"}
AlikeUpTo(requests, i) ==
    {j \in Immediates(requests) : j <= i /\ InternKey(requests[j]) = InternKey(requests[i])}

\* An immediate stands for the first like it, and all else for itself.
LEMMA FirstIsFirst ==
    ASSUME NEW requests, NEW n \in Nat, DOMAIN requests = 1..n
    PROVE  \A i \in 1..n :
              /\ FirstOf(requests)[i] \in 1..n /\ FirstOf(requests)[i] <= i
              /\ FirstOf(requests)[FirstOf(requests)[i]] = FirstOf(requests)[i]
              /\ FirstOf(requests)[i] # i => i \in Immediates(requests) /\ FirstOf(requests)[i] \in Immediates(requests)
<1> DEFINE first == FirstOf(requests)
           Least(i, j) == j \in AlikeUpTo(requests, i) /\ \A k \in AlikeUpTo(requests, i) : j <= k
<1>1. \A i \in 1..n : first[i] = IF i \notin Immediates(requests) THEN i ELSE CHOOSE j : Least(i, j)
  <2> DEFINE key == [i \in Immediates(requests) |-> InternKey(requests[i])]
             same(i) == {j \in DOMAIN key : j <= i /\ key[j] = key[i]}
  <2>1. \A i \in DOMAIN key : same(i) = AlikeUpTo(requests, i)
    BY DEF AlikeUpTo
  <2>2. first = [i \in DOMAIN requests |-> IF i \notin DOMAIN key THEN i
                                           ELSE CHOOSE j \in same(i) : \A k \in same(i) : j <= k]
    BY DEF FirstOf, Known, Immediates
  <2>3. DOMAIN key = Immediates(requests)
    OBVIOUS
  <2> HIDE DEF key, same, first
  <2>4. ASSUME NEW i \in Immediates(requests)
        PROVE  (CHOOSE j \in same(i) : \A k \in same(i) : j <= k) = CHOOSE j : Least(i, j)
    BY <2>1, <2>3
  <2> SUFFICES ASSUME NEW i \in 1..n
               PROVE  first[i] = IF i \notin Immediates(requests) THEN i ELSE CHOOSE j : Least(i, j)
    OBVIOUS
  <2>5. first[i] = IF i \notin Immediates(requests) THEN i ELSE CHOOSE j \in same(i) : \A k \in same(i) : j <= k
    BY <2>2, <2>3
  <2> HIDE DEF Least
  <2> QED
    BY <2>4, <2>5
<1>2. ASSUME NEW i \in Immediates(requests), i \in 1..n PROVE Least(i, first[i])
  <2>1. i \in AlikeUpTo(requests, i) /\ AlikeUpTo(requests, i) \in SUBSET Nat
    BY <1>2 DEF AlikeUpTo, Immediates
  <2>2. \E j : Least(i, j)
    BY <2>1, LeastNat
  <2>3. first[i] = CHOOSE j : Least(i, j)
    BY <1>1, <1>2
  <2> HIDE DEF Least, first
  <2> QED
    BY <2>2, <2>3
<1>3. Immediates(requests) \in SUBSET (1..n)
  BY DEF Immediates
<1> HIDE DEF first
<1>4. ASSUME NEW i \in Immediates(requests)
      PROVE  /\ first[i] \in Immediates(requests) /\ first[i] <= i
             /\ first[first[i]] = first[i]
  <2>1. Least(i, first[i]) /\ i \in Nat
    BY <1>2, <1>3, <1>4
  <2>2. first[i] \in Immediates(requests) /\ first[i] <= i /\ first[i] \in Nat
    BY <1>3, <2>1 DEF AlikeUpTo
  <2>3. Least(first[i], first[first[i]]) /\ first[first[i]] \in Nat
    BY <1>2, <1>3, <2>2 DEF AlikeUpTo
  <2>4. first[first[i]] \in AlikeUpTo(requests, i) /\ first[first[i]] <= first[i]
    <3>1. first[i] \in AlikeUpTo(requests, i) /\ first[first[i]] \in AlikeUpTo(requests, first[i])
      BY <2>1, <2>3
    <3> QED
      BY <1>3, <2>1, <2>2, <2>3, <3>1 DEF AlikeUpTo
  <2>5. first[i] <= first[first[i]]
    BY <2>1, <2>4
  <2> QED
    BY <2>2, <2>3, <2>4, <2>5
<1>5. ASSUME NEW i \in 1..n, i \notin Immediates(requests) PROVE first[i] = i
  BY <1>1, <1>5
<1> QED
  BY <1>3, <1>4, <1>5 DEF first

\* The first of each are what is pushed, in the order of the requests.
LEMMA PushedIsInOrder ==
    ASSUME NEW requests, NEW first, Len(requests) \in Nat
    PROVE  InOrder(PushedOf(requests, first), first, Len(requests))
<1>1. PushedOf(requests, first) = (CHOOSE f : Pushes(f, first, Len(requests)))[Len(requests)]
  BY DEF PushedOf, Pushes
<1> QED
  BY <1>1, PushedInOrder

\* What is placed differs from what was requested in its arguments only.
LEMMA PlacedIs ==
    ASSUME NEW r, IsRequest(r), NEW handle
    PROVE  /\ OutNames(Placed(r, handle)) = OutNames(r)
           /\ Uses(Placed(r, handle)) = {BoundBy(handle, name) : name \in Uses(r)}
           /\ CountIsRight(r) => CountIsRight(Placed(r, handle))
<1> DEFINE args == [p \in DOMAIN r.args |-> [k \in DOMAIN r.args[p] |-> BoundBy(handle, r.args[p][k])]]
           placed == [r EXCEPT !.args = args]
<1>1. Placed(r, handle) = placed
  BY DEF Placed
<1>2. /\ placed.outs = r.outs /\ placed.source = r.source /\ placed.args = args
      /\ r.source = "immediate" => placed.val = r.val
  <2> HIDE DEF args
  <2> QED
    BY DEF IsRequest
<1> HIDE DEF placed
<1>3. OutNames(placed) = OutNames(r)
  BY <1>2 DEF OutNames
<1>4. CountIsRight(r) => CountIsRight(placed)
  BY <1>2 DEF CountIsRight
<1>5. Uses(placed) = {BoundBy(handle, name) : name \in Uses(r)}
  <2>1. Uses(placed) = UNION {{args[p][k] : k \in DOMAIN args[p]} : p \in DOMAIN args}
    BY <1>2 DEF Uses
  <2>2. DOMAIN args = DOMAIN r.args
        /\ \A p \in DOMAIN r.args : DOMAIN args[p] = DOMAIN r.args[p]
                                    /\ \A k \in DOMAIN r.args[p] : args[p][k] = BoundBy(handle, r.args[p][k])
    OBVIOUS
  <2> HIDE DEF args
  <2>3. ASSUME NEW x \in Uses(placed) PROVE x \in {BoundBy(handle, name) : name \in Uses(r)}
    <3>1. PICK p \in DOMAIN r.args : \E k \in DOMAIN r.args[p] : x = BoundBy(handle, r.args[p][k])
      BY <2>1, <2>2, <2>3
    <3> QED
      BY <3>1 DEF Uses
  <2>4. ASSUME NEW name \in Uses(r) PROVE BoundBy(handle, name) \in Uses(placed)
    <3>1. PICK p \in DOMAIN r.args : \E k \in DOMAIN r.args[p] : name = r.args[p][k]
      BY <2>4 DEF Uses
    <3>2. PICK k \in DOMAIN r.args[p] : name = r.args[p][k]
      BY <3>1
    <3>3. BoundBy(handle, name) = args[p][k] /\ k \in DOMAIN args[p] /\ p \in DOMAIN args
      BY <2>2, <3>1, <3>2
    <3> QED
      BY <2>1, <3>3
  <2> QED
    BY <2>3, <2>4
<1> QED
  BY <1>1, <1>3, <1>4, <1>5

\* The names given up to the n-th of some operations, and what DefinesBeforeUse
\* says by them.
GivenUpTo(function, n) ==
    {function.inputs[k].name : k \in DOMAIN function.inputs} \union UNION {OutNames(function.ops[m]) : m \in 1..n}

LEMMA DefinesBeforeUseIs ==
    ASSUME NEW function, Len(function.ops) \in Nat, DOMAIN function.ops = 1..Len(function.ops)
    PROVE  DefinesBeforeUse(function) <=>
              /\ \A n \in 1..Len(function.ops) :
                    /\ Uses(function.ops[n]) \subseteq GivenUpTo(function, n - 1)
                    /\ OutNames(function.ops[n]) \cap GivenUpTo(function, n - 1) = {}
              /\ {function.outputs[k] : k \in DOMAIN function.outputs} \subseteq GivenUpTo(function, Len(function.ops))
<1> DEFINE ops == function.ops
           inputs == {function.inputs[k].name : k \in DOMAIN function.inputs}
           upTo == [n \in 0..Len(ops) |-> inputs \union UNION {OutNames(ops[m]) : m \in 1..n}]
<1>1. \A n \in 0..Len(ops) : upTo[n] = GivenUpTo(function, n)
  BY DEF GivenUpTo
<1>2. DefinesBeforeUse(function) <=>
         /\ \A n \in DOMAIN ops : /\ Uses(ops[n]) \subseteq upTo[n - 1]
                                  /\ OutNames(ops[n]) \cap upTo[n - 1] = {}
         /\ {function.outputs[k] : k \in DOMAIN function.outputs} \subseteq upTo[Len(ops)]
  BY DEF DefinesBeforeUse, Known
<1>3. Len(ops) \in 0..Len(ops) /\ \A n \in 1..Len(ops) : n - 1 \in 0..Len(ops)
  OBVIOUS
<1> HIDE DEF upTo
<1> QED
  BY <1>1, <1>2, <1>3

\* The Builder keeps a sound sequence of requests sound: it gives each name
\* once, and before it is used, although immediates asked for again are left out
\* and others are bound in their place (push_const, push_op, op and check_count of
\* mil.rs).
LEMMA BuildIsSound ==
    ASSUME NEW inputs, NEW requests, NEW output, AreSound(inputs, requests, output)
    PROVE  IsSound(Build(inputs, requests, output))
<1> DEFINE n == Len(requests)
           first == FirstOf(requests)
           handle == HandlesOf(requests, first)
           kept == PushedOf(requests, first)
           ops == [k \in DOMAIN kept |-> Placed(requests[kept[k]], handle)]
           asked == [inputs |-> inputs, outputs |-> <<output>>, ops |-> requests]
           built == [inputs |-> inputs, outputs |-> <<output>>, ops |-> ops]
           given == {inputs[k].name : k \in DOMAIN inputs}
           Names(i) == OutNames(requests[i])
           NameAt(i) == requests[i].outs[1].name
           again == {i \in 1..n : first[i] # i}
<1>1. Build(inputs, requests, output) = built
  BY DEF Build, Known
<1>2. n \in Nat /\ DOMAIN requests = 1..n /\ \A i \in 1..n : IsRequest(requests[i])
  BY DEF AreSound
<1>3. \A i \in 1..n :
         /\ first[i] \in 1..n /\ first[i] <= i /\ first[first[i]] = first[i]
         /\ first[i] # i => i \in Immediates(requests) /\ first[i] \in Immediates(requests)
  BY <1>2, FirstIsFirst
<1>4. /\ kept \in Seq(1..n) /\ Len(kept) \in Nat
      /\ \A k \in 1..Len(kept) : kept[k] \in 1..n /\ first[kept[k]] = kept[k]
      /\ \A k, j \in 1..Len(kept) : k < j => kept[k] < kept[j]
      /\ \A i \in 1..n : first[i] = i => \E k \in 1..Len(kept) : kept[k] = i
  <2>1. InOrder(kept, first, n)
    BY <1>2, PushedIsInOrder
  <2> HIDE DEF kept, first, n
  <2>2. kept \in Seq(1..n) /\ Len(kept) \in Nat /\ DOMAIN kept = 1..Len(kept)
    BY <2>1 DEF InOrder
  <2>3. \A S : kept \in Seq(S) => \A k \in 1..Len(kept) : kept[k] \in S
    OBVIOUS
  <2>4. \A k \in 1..Len(kept) : kept[k] \in 1..n
    BY <2>2, <2>3
  <2> QED
    BY <2>1, <2>2, <2>4 DEF InOrder
<1> HIDE DEF n, first, handle, kept
<1>5. /\ DOMAIN ops = 1..Len(kept) /\ ops \in Seq({ops[k] : k \in 1..Len(kept)}) /\ Len(ops) = Len(kept)
      /\ \A k \in 1..Len(kept) : ops[k] = Placed(requests[kept[k]], handle)
  BY <1>4
<1>6. \A k \in 1..Len(kept) :
         /\ OutNames(ops[k]) = Names(kept[k])
         /\ Uses(ops[k]) = {BoundBy(handle, name) : name \in Uses(requests[kept[k]])}
         /\ CountIsRight(requests[kept[k]]) => CountIsRight(ops[k])
  BY <1>2, <1>4, <1>5, PlacedIs
<1> HIDE DEF ops
<1>7. /\ asked.ops = requests /\ asked.inputs = inputs /\ asked.outputs = <<output>>
      /\ built.ops = ops /\ built.inputs = inputs /\ built.outputs = <<output>>
  OBVIOUS
<1>8. /\ \A i : GivenUpTo(asked, i) = given \union UNION {Names(m) : m \in 1..i}
      /\ \A k : GivenUpTo(built, k) = given \union UNION {OutNames(ops[m]) : m \in 1..k}
  BY DEF GivenUpTo
<1>9. /\ \A i \in 1..n : /\ Uses(requests[i]) \subseteq GivenUpTo(asked, i - 1)
                         /\ Names(i) \cap GivenUpTo(asked, i - 1) = {}
      /\ output \in GivenUpTo(asked, n)
  <2>1. DefinesBeforeUse(asked)
    BY DEF AreSound
  <2> HIDE DEF asked
  <2>2. /\ \A i \in 1..n : /\ Uses(asked.ops[i]) \subseteq GivenUpTo(asked, i - 1)
                           /\ OutNames(asked.ops[i]) \cap GivenUpTo(asked, i - 1) = {}
        /\ {asked.outputs[k] : k \in DOMAIN asked.outputs} \subseteq GivenUpTo(asked, n)
    BY <1>2, <1>7, <2>1, DefinesBeforeUseIs DEF n
  <2>3. output \in {asked.outputs[k] : k \in DOMAIN asked.outputs}
    BY <1>7
  <2> QED
    BY <1>7, <2>2, <2>3
<1>10. \A i \in Immediates(requests) : /\ Names(i) = {NameAt(i)} /\ NameAt(i) # output
                                       /\ CountIsRight(requests[i])
  <2> SUFFICES ASSUME NEW i \in Immediates(requests)
               PROVE  Names(i) = {NameAt(i)} /\ NameAt(i) # output /\ CountIsRight(requests[i])
    OBVIOUS
  <2>1. DOMAIN requests[i].outs = {1} /\ NameAt(i) # output /\ CountIsRight(requests[i])
    BY DEF AreSound, Immediates
  <2> QED
    BY <2>1 DEF OutNames
<1>11. Immediates(requests) \in SUBSET (1..n)
  BY <1>2 DEF Immediates
<1>12. /\ DOMAIN handle = {NameAt(i) : i \in again}
       /\ \A name \in DOMAIN handle : handle[name] = NameAt(first[CHOOSE i \in again : NameAt(i) = name])
  BY <1>2 DEF handle, HandlesOf, Known
<1> HIDE DEF asked, built, Names, NameAt, given
<1>13. ASSUME NEW i \in 1..n, NEW m \in 1..n, i # m PROVE Names(i) \cap Names(m) = {}
  <2>1. \A j, l \in 1..n : j < l => Names(l) \cap Names(j) = {}
    <3> SUFFICES ASSUME NEW j \in 1..n, NEW l \in 1..n, j < l PROVE Names(l) \cap Names(j) = {}
      OBVIOUS
    <3>1. j \in 1..l - 1
      BY <1>2
    <3>2. Names(j) \subseteq GivenUpTo(asked, l - 1)
      BY <1>8, <3>1
    <3> QED
      BY <1>9, <3>2
  <2>2. i < m \/ m < i
    BY <1>2, <1>13
  <2> QED
    BY <2>1, <2>2
<1>14. ASSUME NEW i \in 1..n PROVE Names(i) \cap given = {}
  BY <1>8, <1>9
\* What is given of the kept before the k-th, and what is asked for before it.
<1>15. ASSUME NEW k \in 1..Len(kept), NEW m \in 1..n, m < kept[k], first[m] = m
       PROVE  Names(m) \subseteq GivenUpTo(built, k - 1)
  <2>1. PICK j \in 1..Len(kept) : kept[j] = m
    BY <1>4, <1>15
  <2>2. j \in 1..k - 1
    <3>1. ~(k < j) /\ k # j
      BY <1>4, <1>15, <2>1
    <3> QED
      BY <1>4, <3>1
  <2> QED
    BY <1>6, <1>8, <2>1, <2>2
<1>16. ASSUME NEW k \in 1..Len(kept), NEW y \in GivenUpTo(asked, kept[k] - 1)
       PROVE  BoundBy(handle, y) \in GivenUpTo(built, k - 1)
  <2>1. y \in given \/ \E m \in 1..n : m < kept[k] /\ y \in Names(m)
    <3>1. \A m \in 1..kept[k] - 1 : m \in 1..n /\ m < kept[k]
      BY <1>2, <1>4
    <3> QED
      BY <1>8, <1>16, <3>1
  <2>2. CASE y \in DOMAIN handle
    <3> DEFINE i == CHOOSE i \in again : NameAt(i) = y
    <3>1. i \in again /\ NameAt(i) = y
      <4>1. \E one \in again : NameAt(one) = y
        BY <1>12, <2>2
      <4> HIDE DEF again
      <4> QED
        BY <4>1
    <3>2. BoundBy(handle, y) = NameAt(first[i])
      BY <1>12, <2>2 DEF BoundBy
    <3> HIDE DEF i
    <3>3. i \in 1..n /\ first[i] # i /\ i \in Immediates(requests) /\ first[i] \in Immediates(requests)
          /\ first[i] \in 1..n /\ first[i] <= i /\ first[first[i]] = first[i]
      BY <1>3, <3>1
    <3>4. y \in Names(i) /\ NameAt(first[i]) \in Names(first[i])
      BY <1>10, <3>1, <3>3
    <3>5. i < kept[k]
      BY <1>13, <1>14, <2>1, <3>3, <3>4
    <3>6. first[i] < kept[k]
      BY <1>2, <1>4, <3>3, <3>5
    <3>7. Names(first[i]) \subseteq GivenUpTo(built, k - 1)
      BY <1>15, <3>3, <3>6
    <3> QED
      BY <3>2, <3>4, <3>7
  <2>3. CASE y \notin DOMAIN handle
    <3>1. BoundBy(handle, y) = y
      BY <2>3 DEF BoundBy
    <3>2. CASE y \in given
      BY <1>8, <3>1, <3>2
    <3>3. ASSUME NEW m \in 1..n, m < kept[k], y \in Names(m) PROVE y \in GivenUpTo(built, k - 1)
      <4>1. first[m] = m
        <5> SUFFICES ASSUME first[m] # m PROVE FALSE
          OBVIOUS
        <5>1. m \in again /\ m \in Immediates(requests)
          BY <1>3
        <5>2. y = NameAt(m)
          BY <1>10, <3>3, <5>1
        <5> QED
          BY <1>12, <2>3, <5>1, <5>2
      <4> QED
        BY <1>15, <3>3, <4>1
    <3> QED
      BY <2>1, <3>1, <3>2, <3>3
  <2> QED
    BY <2>2, <2>3
<1>17. ASSUME NEW k \in 1..Len(kept) PROVE GivenUpTo(built, k - 1) \subseteq GivenUpTo(asked, kept[k] - 1)
  <2>1. \A j \in 1..k - 1 : j \in 1..Len(kept) /\ kept[j] \in 1..kept[k] - 1
    <3> SUFFICES ASSUME NEW j \in 1..k - 1 PROVE j \in 1..Len(kept) /\ kept[j] \in 1..kept[k] - 1
      OBVIOUS
    <3>1. j \in 1..Len(kept) /\ j < k
      BY <1>4
    <3>2. kept[j] < kept[k] /\ kept[j] \in 1..n /\ kept[k] \in 1..n
      BY <1>4, <3>1
    <3> QED
      BY <1>2, <3>1, <3>2
  <2> QED
    BY <1>6, <1>8, <2>1
<1>18. DefinesBeforeUse(built)
  <2>1. ASSUME NEW k \in 1..Len(kept)
        PROVE  /\ Uses(ops[k]) \subseteq GivenUpTo(built, k - 1)
               /\ OutNames(ops[k]) \cap GivenUpTo(built, k - 1) = {}
    <3>1. kept[k] \in 1..n
      BY <1>4
    <3>2. \A y \in Uses(requests[kept[k]]) : BoundBy(handle, y) \in GivenUpTo(built, k - 1)
      BY <1>9, <1>16, <3>1
    <3>3. Names(kept[k]) \cap GivenUpTo(built, k - 1) = {}
      BY <1>9, <1>17, <3>1
    <3> QED
      BY <1>6, <3>2, <3>3
  <2>2. output \in GivenUpTo(built, Len(kept))
    <3>1. CASE output \in given
      BY <1>8, <3>1
    <3>2. ASSUME NEW m \in 1..n, output \in Names(m) PROVE output \in GivenUpTo(built, Len(kept))
      <4>1. first[m] = m
        BY <1>3, <1>10, <3>2
      <4>2. PICK k \in 1..Len(kept) : kept[k] = m
        BY <1>4, <4>1
      <4> QED
        BY <1>6, <1>8, <3>2, <4>2
    <3>3. output \in given \/ \E m \in 1..n : output \in Names(m)
      BY <1>8, <1>9
    <3> QED
      BY <3>1, <3>2, <3>3
  <2>3. {built.outputs[k] : k \in DOMAIN built.outputs} = {output}
    <3>1. DOMAIN <<output>> = {1} /\ <<output>>[1] = output
      OBVIOUS
    <3> QED
      BY <1>7, <3>1
  <2>4. Len(built.ops) \in Nat /\ DOMAIN built.ops = 1..Len(built.ops) /\ Len(built.ops) = Len(kept)
    BY <1>4, <1>5, <1>7
  <2> QED
    BY <1>7, <2>1, <2>2, <2>3, <2>4, DefinesBeforeUseIs
<1>19. \A k \in DOMAIN ops : CountIsRight(ops[k])
  <2>1. ASSUME NEW k \in 1..Len(kept) PROVE CountIsRight(requests[kept[k]])
    <3>1. kept[k] \in 1..n
      BY <1>4
    <3>2. CASE kept[k] \in Immediates(requests)
      BY <1>10, <3>2
    <3>3. CASE kept[k] \notin Immediates(requests)
      BY <1>2, <3>1, <3>3 DEF Immediates, CountIsRight
    <3> QED
      BY <3>2, <3>3
  <2> QED
    BY <1>5, <1>6, <2>1
<1> QED
  BY <1>1, <1>7, <1>18, <1>19 DEF IsSound

-----------------------------------------------------------------------------
(* The weight file.                                                        *)

\* What can be written: so many bytes of one of two types.
IsBlob(b) == b.dtype \in {"fp16", "int8"} /\ IsFiniteSet(DOMAIN b.values)

AreBlobs(s) == \E S : s \in Seq(S) /\ \A b \in S : IsBlob(b)

\* A blob ends after its metadata, which begins where it was aligned to.
LEMMA BlobsAreAligned ==
    ASSUME NEW size \in Nat, NEW b, IsBlob(b)
    PROVE  /\ Start(size) \in Nat /\ Start(size) >= size /\ Start(size) % ALIGN = 0
           /\ EndOf(Start(size), b.dtype, b.values) \in Nat
           /\ EndOf(Start(size), b.dtype, b.values) >= Start(size)
<1>1. Start(size) = ((size + 63) \div 64) * 64
  BY DEF Start, Aligned, ALIGN
<1>2. Start(size) \in Nat /\ Start(size) >= size /\ Start(size) % 64 = 0
  BY <1>1
<1>3. PICK count \in Nat : count = Cardinality(DOMAIN b.values)
  BY FS_CardinalityType DEF IsBlob
<1>4. BytesPer(b.dtype) = 1 \/ BytesPer(b.dtype) = 2
  BY DEF BytesPer, IsBlob
<1>5. BytesPer(b.dtype) * count \in Nat
  BY <1>4
<1>6. EndOf(Start(size), b.dtype, b.values) = Start(size) + 64 + BytesPer(b.dtype) * count
  BY <1>3 DEF EndOf, META_SIZE
<1> QED
  BY <1>2, <1>5, <1>6 DEF ALIGN

\* Where each of a sequence of blobs is found, and where the file then ends.
LEMMA OffsetsAre ==
    ASSUME NEW writes, AreBlobs(writes)
    PROVE  \E size \in [0..Len(writes) -> Nat] :
              /\ size[0] = ALIGN
              /\ \A n \in 1..Len(writes) :
                    /\ OffsetsIn(writes)[n] = Start(size[n - 1])
                    /\ size[n] = EndOf(Start(size[n - 1]), writes[n].dtype, writes[n].values)
              /\ DOMAIN OffsetsIn(writes) = 1..Len(writes)
<1> DEFINE n == Len(writes)
           Is(f) == f = [k \in 0..n |-> IF k = 0 THEN ALIGN
                                        ELSE EndOf(Start(f[k - 1]), writes[k].dtype, writes[k].values)]
           chosen == CHOOSE f : Is(f)
           step == [x \in (1..n) \X Nat |-> EndOf(Start(x[2]), writes[x[1]].dtype, writes[x[1]].values)]
<1>1. n \in Nat /\ \A k \in 1..n : IsBlob(writes[k])
  <2>1. PICK S : writes \in Seq(S) /\ \A b \in S : IsBlob(b)
    BY DEF AreBlobs
  <2> QED
    BY <2>1
<1>2. \A k \in 1..n, at \in Nat : EndOf(Start(at), writes[k].dtype, writes[k].values) \in Nat
  BY <1>1, BlobsAreAligned
<1>3. step \in [(1..n) \X Nat -> Nat]
  BY <1>2
<1>4. ALIGN \in Nat
  BY DEF ALIGN
<1>5. PICK q \in [0..n -> Nat] : Steps(q, n, ALIGN, step)
  <2> HIDE DEF step, n
  <2> QED
    BY <1>1, <1>3, <1>4, StepsExist
<1>6. Is(q)
  <2>1. ASSUME NEW k \in 0..n
        PROVE  q[k] = IF k = 0 THEN ALIGN ELSE EndOf(Start(q[k - 1]), writes[k].dtype, writes[k].values)
    <3>1. q[k] = IF k = 0 THEN ALIGN ELSE step[<<k, q[k - 1]>>]
      BY <1>5 DEF Steps
    <3>2. k # 0 => k \in 1..n /\ q[k - 1] \in Nat
      BY <1>1, <1>5
    <3>3. k # 0 => step[<<k, q[k - 1]>>] = EndOf(Start(q[k - 1]), writes[k].dtype, writes[k].values)
      <4> SUFFICES ASSUME k # 0
                   PROVE  step[<<k, q[k - 1]>>] = EndOf(Start(q[k - 1]), writes[k].dtype, writes[k].values)
        OBVIOUS
      <4>1. <<k, q[k - 1]>> \in (1..n) \X Nat
        BY <3>2
      <4> QED
        BY <4>1
    <3> QED
      BY <3>1, <3>3
  <2> QED
    BY <2>1
<1>7. Is(chosen)
  <2> HIDE DEF Is
  <2> QED
    BY <1>6
<1>8. OffsetsIn(writes) = [k \in 1..n |-> Start(chosen[k - 1])]
  BY DEF OffsetsIn, Known
<1> HIDE DEF chosen, n
<1>9. /\ chosen[0] = ALIGN
      /\ \A k \in 1..n : chosen[k] = EndOf(Start(chosen[k - 1]), writes[k].dtype, writes[k].values)
  <2>1. \A k \in 0..n : chosen[k] = IF k = 0 THEN ALIGN
                                    ELSE EndOf(Start(chosen[k - 1]), writes[k].dtype, writes[k].values)
    BY <1>7
  <2> QED
    BY <1>1, <2>1
<1>10. \A k \in 0..n : chosen[k] \in Nat
  <2>1. \A k \in 1..n : chosen[k - 1] \in Nat => chosen[k] \in Nat
    BY <1>2, <1>9
  <2>2. chosen[0] \in Nat
    BY <1>4, <1>9
  <2> QED
    BY <1>1, <2>1, <2>2, StepsStay
<1>11. chosen \in [0..n -> Nat]
  <2>1. chosen = [k \in 0..n |-> chosen[k]]
    BY <1>7
  <2> QED
    BY <1>10, <2>1
<1> QED
  BY <1>8, <1>9, <1>11 DEF n

\* Whatever blobs are written, none runs into the next (Writer::append).
LEMMA WritesDoNotOverlap ==
    ASSUME NEW writes, AreBlobs(writes)
    PROVE  FileIsWhole(FileOf(writes))
<1> DEFINE n == Len(writes)
           at == OffsetsIn(writes)
           End(k) == EndOf(at[k], writes[k].dtype, writes[k].values)
<1>1. n \in Nat /\ DOMAIN writes = 1..n /\ \A k \in 1..n : IsBlob(writes[k])
  <2>1. PICK S : writes \in Seq(S) /\ \A b \in S : IsBlob(b)
    BY DEF AreBlobs
  <2> QED
    BY <2>1
<1>2. PICK size \in [0..n -> Nat] :
              /\ size[0] = ALIGN
              /\ \A k \in 1..n : at[k] = Start(size[k - 1]) /\ size[k] = End(k)
  <2>1. PICK size \in [0..Len(writes) -> Nat] :
              /\ size[0] = ALIGN
              /\ \A k \in 1..Len(writes) :
                    /\ OffsetsIn(writes)[k] = Start(size[k - 1])
                    /\ size[k] = EndOf(Start(size[k - 1]), writes[k].dtype, writes[k].values)
    BY OffsetsAre
  <2> QED
    BY <2>1
<1> HIDE DEF at, n, End
<1>3. \A k \in 1..n : /\ at[k] \in Nat /\ at[k] >= size[k - 1] /\ at[k] % ALIGN = 0
                      /\ End(k) \in Nat /\ End(k) >= at[k]
                      /\ size[k - 1] \in Nat /\ size[k] \in Nat /\ size[k] >= size[k - 1]
  <2> SUFFICES ASSUME NEW k \in 1..n
               PROVE  /\ at[k] \in Nat /\ at[k] >= size[k - 1] /\ at[k] % ALIGN = 0
                      /\ End(k) \in Nat /\ End(k) >= at[k]
                      /\ size[k - 1] \in Nat /\ size[k] \in Nat /\ size[k] >= size[k - 1]
    OBVIOUS
  <2>1. k - 1 \in 0..n /\ k \in 0..n
    BY <1>1
  <2>2. size[k - 1] \in Nat /\ size[k] \in Nat
    BY <2>1
  <2>3. /\ Start(size[k - 1]) \in Nat /\ Start(size[k - 1]) >= size[k - 1] /\ Start(size[k - 1]) % ALIGN = 0
        /\ EndOf(Start(size[k - 1]), writes[k].dtype, writes[k].values) \in Nat
        /\ EndOf(Start(size[k - 1]), writes[k].dtype, writes[k].values) >= Start(size[k - 1])
    BY <1>1, <2>2, BlobsAreAligned
  <2>4. /\ at[k] \in Nat /\ at[k] >= size[k - 1] /\ at[k] % ALIGN = 0
        /\ End(k) \in Nat /\ End(k) >= at[k]
    BY <1>2, <2>3 DEF End
  <2> QED
    BY <1>2, <2>2, <2>4
<1>4. ASSUME NEW k \in 0..n PROVE \A j \in k..n : size[j] >= size[k]
  <2> DEFINE shrinks == {j \in k..n : ~(size[j] >= size[k])}
  <2> SUFFICES ASSUME shrinks # {} PROVE FALSE
    OBVIOUS
  <2>1. PICK j \in shrinks : \A i \in shrinks : j <= i
    <3>1. shrinks \in SUBSET Nat
      OBVIOUS
    <3> HIDE DEF shrinks
    <3> QED
      BY <3>1, LeastNat
  <2>2. size[k] \in Nat /\ j # k
    BY <2>1
  <2>3. j \in 1..n /\ j - 1 \in k..n /\ j - 1 \notin shrinks
    BY <1>1, <2>1, <2>2
  <2>4. size[j - 1] >= size[k] /\ size[j - 1] \in Nat /\ size[j] \in Nat /\ size[j] >= size[j - 1]
    BY <1>3, <2>3
  <2> QED
    BY <2>1, <2>2, <2>4
<1>5. ASSUME NEW k \in 1..n PROVE at[k] >= ALIGN
  <2>1. k - 1 \in 0..n /\ 0 \in 0..n
    BY <1>1
  <2>2. size[k - 1] >= size[0]
    BY <1>4, <2>1
  <2> QED
    BY <1>2, <1>3, <2>2 DEF ALIGN
<1>6. ASSUME NEW k \in 1..n, NEW j \in 1..n, at[k] < at[j] PROVE End(k) <= at[j]
  <2>1. CASE k < j
    <3>1. k \in 0..n /\ j - 1 \in k..n
      BY <1>1, <2>1
    <3>2. size[j - 1] >= size[k]
      BY <1>4, <3>1
    <3> QED
      BY <1>2, <1>3, <3>2
  <2>2. CASE k = j
    BY <1>3, <1>6, <2>2
  <2>3. CASE j < k
    <3>1. j \in 0..n /\ k - 1 \in j..n
      BY <1>1, <2>3
    <3>2. size[k - 1] >= size[j]
      BY <1>4, <3>1
    <3>3. at[k] >= at[j]
      BY <1>2, <1>3, <3>2
    <3> QED
      BY <1>3, <1>6, <3>3
  <2> QED
    BY <1>1, <2>1, <2>2, <2>3
<1>7. FileOf(writes) = {[offset |-> at[k], dtype |-> writes[k].dtype, values |-> writes[k].values] : k \in 1..n}
  BY <1>1 DEF FileOf, at
<1> QED
  BY <1>3, <1>5, <1>6, <1>7 DEF FileIsWhole, End

\* Sequences put together one after another, as the layers' weights, the tables
\* of the lengths and the layers' blocks are.
Appends(f, n, part) == f = [k \in 0..n |-> IF k = 0 THEN <<>> ELSE f[k - 1] \o part[k]]

LEMMA AppendsAre ==
    ASSUME NEW n \in Nat, NEW S, NEW part \in [1..n -> Seq(S)]
    PROVE  /\ \E f : Appends(f, n, part)
           /\ \A f : Appends(f, n, part) => f[n] \in Seq(S)
<1> DEFINE Q == Seq(S)
           step == [x \in (1..n) \X Q |-> x[2] \o part[x[1]]]
<1>1. \A u, v \in Q : u \o v \in Q
  OBVIOUS
<1>2. <<>> \in Q
  OBVIOUS
<1>3. part \in [1..n -> Q]
  OBVIOUS
<1> HIDE DEF Q
<1>4. step \in [(1..n) \X Q -> Q]
  BY <1>1, <1>3
<1>5. \E f : Appends(f, n, part)
  <2> HIDE DEF step
  <2>1. PICK q \in [0..n -> Q] : Steps(q, n, <<>>, step)
    BY <1>2, <1>4, StepsExist
  <2>2. ASSUME NEW k \in 0..n PROVE q[k] = IF k = 0 THEN <<>> ELSE q[k - 1] \o part[k]
    <3>1. q[k] = IF k = 0 THEN <<>> ELSE step[<<k, q[k - 1]>>]
      BY <2>1 DEF Steps
    <3>2. ASSUME k # 0 PROVE step[<<k, q[k - 1]>>] = q[k - 1] \o part[k]
      <4>1. <<k, q[k - 1]>> \in (1..n) \X Q
        BY <2>1, <3>2
      <4> QED
        BY <4>1 DEF step
    <3> QED
      BY <3>1, <3>2
  <2>3. Appends(q, n, part)
    BY <2>1, <2>2 DEF Appends
  <2> QED
    BY <2>3
<1>6. ASSUME NEW f, Appends(f, n, part) PROVE f[n] \in Q
  <2>1. \A k \in 0..n : f[k] = IF k = 0 THEN <<>> ELSE f[k - 1] \o part[k]
    BY <1>6 DEF Appends
  <2>2. f[0] \in Q
    BY <1>2, <2>1
  <2>3. \A k \in 1..n : f[k - 1] \in Q => f[k] \in Q
    BY <1>1, <1>3, <2>1
  <2>4. \A k \in 0..n : f[k] \in Q
    BY <2>2, <2>3, StepsStay
  <2> QED
    BY <2>4
<1> QED
  BY <1>5, <1>6 DEF Q

LEMMA BlobsAre == ASSUME NEW A, NEW s \in Seq(A), \A b \in A : IsBlob(b) PROVE AreBlobs(s)
BY DEF AreBlobs

\* Blobs and blobs are blobs.
LEMMA BlobsAppend ==
    ASSUME NEW s, NEW t, AreBlobs(s), AreBlobs(t)
    PROVE  AreBlobs(s \o t)
<1>1. PICK A : s \in Seq(A) /\ \A b \in A : IsBlob(b)
  BY DEF AreBlobs
<1>2. PICK B : t \in Seq(B) /\ \A b \in B : IsBlob(b)
  BY DEF AreBlobs
<1>3. s \in Seq(A \union B) /\ t \in Seq(A \union B)
  BY <1>1, <1>2
<1>4. s \o t \in Seq(A \union B)
  BY <1>3
<1>5. \A b \in A \union B : IsBlob(b)
  BY <1>1, <1>2
<1> QED
  BY <1>4, <1>5 DEF AreBlobs

\* What is stored of a tensor is as long as the tensor, int8 or not.
LEMMA StoredIsBlob ==
    ASSUME NEW tag, NEW x, IsFiniteSet(DOMAIN x.data), NEW quantize
    PROVE  IsBlob(Store(tag, x, quantize))
<1>1. DOMAIN QuantizeRows(x.data, x.shape[1]).values = DOMAIN x.data
  BY DEF QuantizeRows, Known
<1>2. DOMAIN Map1(Fp16, x).data = DOMAIN x.data
  BY DEF Map1, Tensor, Known
<1> DEFINE q == QuantizeRows(x.data, x.shape[1])
           m == Map1(Fp16, x)
<1>3. Store(tag, x, quantize) =
         IF quantize THEN [tag |-> tag, dtype |-> "int8", values |-> q.values, scales |-> q.scales]
         ELSE [tag |-> tag, dtype |-> "fp16", values |-> m.data]
  BY DEF Store
<1> HIDE DEF q, m
<1>4. /\ Store(tag, x, quantize).dtype \in {"fp16", "int8"}
      /\ Store(tag, x, quantize).values = q.values \/ Store(tag, x, quantize).values = m.data
  BY <1>3
<1> QED
  BY <1>1, <1>2, <1>4 DEF IsBlob, q, m

\* So are zeros and tables.
LEMMA PlainIsBlob ==
    ASSUME NEW tag, NEW values, NEW count \in Int, DOMAIN values = 0..count
    PROVE  IsBlob(Plain(tag, values))
<1>1. IsFiniteSet(0..count)
  BY FS_Interval
<1> QED
  BY <1>1 DEF IsBlob, Plain

LEMMA TablesAreBlobs ==
    ASSUME NEW cfg, NEW seq \in Nat, cfg.hidden \in Nat, cfg.heads \in Nat \ {0}
    PROVE  \A global \in BOOLEAN : AreBlobs(WriteRope(cfg, seq, global))
<1> SUFFICES ASSUME NEW global \in BOOLEAN PROVE AreBlobs(WriteRope(cfg, seq, global))
  OBVIOUS
<1> DEFINE d == HeadDim(cfg)
           theta == IF global THEN cfg.global_theta ELSE cfg.local_theta
           freq(i) == (i % d) % (d \div 2)
           cos == [i \in 0..seq * d - 1 |-> CosOf(theta, freq(i), i \div d)]
           sin == [i \in 0..seq * d - 1 |-> SinOf(theta, freq(i), i \div d)]
           a == Plain(RopeTag(seq, global, "cos"), cos)
           b == Plain(RopeTag(seq, global, "sin"), sin)
<1>1. WriteRope(cfg, seq, global) = <<a, b>>
  BY DEF WriteRope, Known
<1>2. d \in Nat
  BY DEF HeadDim
<1>3. seq * d - 1 \in Int
  <2> HIDE DEF d
  <2> QED
    BY <1>2
<1>4. DOMAIN cos = 0..seq * d - 1 /\ DOMAIN sin = 0..seq * d - 1
  OBVIOUS
<1> HIDE DEF d, cos, sin
<1>5. IsBlob(a) /\ IsBlob(b)
  BY <1>3, <1>4, PlainIsBlob
<1> HIDE DEF a, b
<1>6. <<a, b>> \in Seq({a, b})
  OBVIOUS
<1>7. \A x \in {a, b} : IsBlob(x)
  BY <1>5
<1>8. PICK t : t = <<a, b>>
  OBVIOUS
<1>9. PICK A : A = {a, b}
  OBVIOUS
<1>10. AreBlobs(t)
  <2>1. t \in Seq(A) /\ \A x \in A : IsBlob(x)
    BY <1>6, <1>7, <1>8, <1>9
  <2> QED
    BY <2>1, BlobsAre
<1> QED
  BY <1>1, <1>8, <1>10

\* The tables of every length, one after another.
LEMMA AllTablesAreBlobs ==
    ASSUME NEW cfg, cfg.hidden \in Nat, cfg.heads \in Nat \ {0}, NEW lengths, Len(lengths) \in Nat,
           \A k \in 1..Len(lengths) : lengths[k] \in Nat,
           NEW ropes, ropes = (CHOOSE f : f = [k \in 0..Len(lengths) |->
                                  IF k = 0 THEN <<>>
                                  ELSE f[k - 1] \o (WriteRope(cfg, lengths[k], FALSE) \o WriteRope(cfg, lengths[k], TRUE))])
    PROVE  AreBlobs(ropes[Len(lengths)])
<1> DEFINE n == Len(lengths)
           Tables(k) == WriteRope(cfg, lengths[k], FALSE) \o WriteRope(cfg, lengths[k], TRUE)
           part == [k \in 1..n |-> Tables(k)]
           Is(f) == f = [k \in 0..n |-> IF k = 0 THEN <<>> ELSE f[k - 1] \o Tables(k)]
           S == {b \in UNION {{Tables(k)[i] : i \in DOMAIN Tables(k)} : k \in 1..n} : IsBlob(b)}
<1>1. ASSUME NEW k \in 1..n PROVE Tables(k) \in Seq(S)
  <2>1. AreBlobs(WriteRope(cfg, lengths[k], FALSE)) /\ AreBlobs(WriteRope(cfg, lengths[k], TRUE))
    BY TablesAreBlobs
  <2>2. AreBlobs(Tables(k))
    BY <2>1, BlobsAppend
  <2> HIDE DEF Tables
  <2>3. PICK t : t = Tables(k)
    OBVIOUS
  <2>4. PICK B : t \in Seq(B) /\ \A b \in B : IsBlob(b)
    BY <2>2, <2>3 DEF AreBlobs
  <2>5. DOMAIN t = 1..Len(t) /\ Len(t) \in Nat /\ \A i \in DOMAIN t : t[i] \in B
    BY <2>4
  <2>6. \A i \in DOMAIN t : t[i] \in S
    BY <2>3, <2>4, <2>5
  <2> HIDE DEF S
  <2>7. t \in Seq(S)
    BY <2>4, <2>5, <2>6
  <2> QED
    BY <2>3, <2>7
<1> HIDE DEF S, Tables, n
<1>2. part \in [1..n -> Seq(S)] /\ n \in Nat
  BY <1>1 DEF n
<1>3. \A f : Is(f) <=> Appends(f, n, part)
  <2> SUFFICES ASSUME NEW f PROVE Is(f) <=> Appends(f, n, part)
    OBVIOUS
  <2>1. \A k \in 0..n : k # 0 => part[k] = Tables(k)
    BY <1>2
  <2>2. [k \in 0..n |-> IF k = 0 THEN <<>> ELSE f[k - 1] \o Tables(k)]
           = [k \in 0..n |-> IF k = 0 THEN <<>> ELSE f[k - 1] \o part[k]]
    BY <2>1
  <2> QED
    BY <2>2 DEF Appends
<1>4. ropes = CHOOSE f : Is(f)
  BY DEF n, Tables
<1> HIDE DEF Is, part
<1>5. Appends(ropes, n, part)
  BY <1>2, <1>3, <1>4, AppendsAre
<1>6. ropes[n] \in Seq(S)
  BY <1>2, <1>5, AppendsAre
<1>7. \A b \in S : IsBlob(b)
  BY DEF S
<1>8. AreBlobs(ropes[n])
  BY <1>6, <1>7, BlobsAre
<1> QED
  BY <1>8 DEF n

\* What is read of a checkpoint is some sequence of at least three.
LEMMA ReadsAreMany ==
    ASSUME NEW cfg, cfg.layers \in Nat
    PROVE  Len(Reads(cfg)) \in Nat /\ Len(Reads(cfg)) >= 3 /\ DOMAIN Reads(cfg) = 1..Len(Reads(cfg))
<1> DEFINE n == cfg.layers
           Layer(l) == LayerReads(cfg, l - 1)
           part == [l \in 1..n |-> Layer(l)]
           Is(f) == f = [l \in 0..n |-> IF l = 0 THEN <<>> ELSE f[l - 1] \o Layer(l)]
           chosen == CHOOSE f : Is(f)
           S == UNION {{Layer(l)[i] : i \in DOMAIN Layer(l)} : l \in 1..n}
           a == OuterRead(cfg, "embeddings.tok_embeddings.weight", "tok_embeddings", <<cfg.vocab, cfg.hidden>>, "embeddings")
           b == OuterRead(cfg, "embeddings.norm.weight", "embeddings_norm", <<cfg.hidden>>, "norm")
           c == OuterRead(cfg, "final_norm.weight", "final_norm", <<cfg.hidden>>, "norm")
<1>1. ASSUME NEW l \in 1..n PROVE Layer(l) \in Seq(S)
  <2> DEFINE t == Layer(l)
  <2>1. \E B : t \in Seq(B)
    <3>1. \A x, y : (\E A : x \in Seq(A)) /\ (\E B : y \in Seq(B)) => \E B : x \o y \in Seq(B)
      <4> SUFFICES ASSUME NEW x, NEW y, NEW A, NEW B, x \in Seq(A), y \in Seq(B) PROVE \E C : x \o y \in Seq(C)
        OBVIOUS
      <4>1. x \in Seq(A \union B) /\ y \in Seq(A \union B)
        OBVIOUS
      <4>2. x \o y \in Seq(A \union B)
        BY <4>1
      <4> QED
        BY <4>2
    <3>2. \A u : <<u>> \in Seq({u}) /\ <<>> \in Seq({u})
      OBVIOUS
    <3>3. \A u, v, w, x, y : <<u, v, w, x, y>> \in Seq({u, v, w, x, y})
      OBVIOUS
    <3> QED
      BY <3>1, <3>2, <3>3 DEF LayerReads
  <2>2. DOMAIN t = 1..Len(t) /\ Len(t) \in Nat
    BY <2>1
  <2>3. \A i \in DOMAIN t : t[i] \in S
    OBVIOUS
  <2> HIDE DEF t, S
  <2>4. t \in Seq(S)
    BY <2>1, <2>2, <2>3
  <2> QED
    BY <2>4 DEF t
<1>2. Reads(cfg) = <<a, b>> \o chosen[n] \o <<c>>
  BY DEF Reads
<1> HIDE DEF S, Layer, n, a, b, c
<1>3. part \in [1..n -> Seq(S)] /\ n \in Nat
  BY <1>1 DEF n
<1>4. \A f : Is(f) <=> Appends(f, n, part)
  <2> SUFFICES ASSUME NEW f PROVE Is(f) <=> Appends(f, n, part)
    OBVIOUS
  <2>1. \A l \in 0..n : l # 0 => part[l] = Layer(l)
    BY <1>3
  <2>2. [l \in 0..n |-> IF l = 0 THEN <<>> ELSE f[l - 1] \o Layer(l)]
           = [l \in 0..n |-> IF l = 0 THEN <<>> ELSE f[l - 1] \o part[l]]
    BY <2>1
  <2> QED
    BY <2>2 DEF Appends
<1> HIDE DEF Is, part
<1>5. Appends(chosen, n, part)
  BY <1>3, <1>4, AppendsAre
<1>6. chosen[n] \in Seq(S)
  BY <1>3, <1>5, AppendsAre
<1> HIDE DEF chosen
<1> DEFINE U == S \union {a, b, c}
<1>7. chosen[n] \in Seq(U) /\ <<a, b>> \in Seq(U) /\ <<c>> \in Seq(U)
  BY <1>6
<1> HIDE DEF U
<1>8. PICK layers \in Seq(U) : layers = chosen[n]
  BY <1>7
<1>9. <<a, b>> \o layers \in Seq(U) /\ Len(<<a, b>> \o layers) = 2 + Len(layers) /\ Len(layers) \in Nat
  BY <1>7
<1>10. /\ <<a, b>> \o layers \o <<c>> \in Seq(U)
       /\ Len(<<a, b>> \o layers \o <<c>>) = 2 + Len(layers) + 1
  BY <1>7, <1>9
<1> QED
  BY <1>2, <1>8, <1>9, <1>10

\* What is written of any checkpoint that can be converted is a sequence of
\* blobs: the tensors, the zeros that stand for biases, and the tables.
LEMMA SharedAreBlobs ==
    ASSUME NEW cfg, NEW ckpt, NEW opts, cfg.layers \in Nat, cfg.hidden \in Nat, cfg.inter \in Nat,
           AllGettable(cfg, ckpt), \A name \in DOMAIN ckpt : IsFiniteSet(DOMAIN ckpt[name].data)
    PROVE  AreBlobs(WriteShared(cfg, ckpt, opts))
<1> DEFINE reads == Reads(cfg)
           n == Len(reads)
           quantized(kind) == CASE kind = "embeddings" -> opts.quantize_embeddings
                                [] kind = "projection" -> opts.quantize_projections
                                [] OTHER -> FALSE
           stored == [k \in DOMAIN reads |-> Store(reads[k].tag, Get(ckpt, reads[k].name), quantized(reads[k].kind))]
           z1 == Zeros("zeros_3h", 3 * cfg.hidden)
           z2 == Zeros("zeros_h", cfg.hidden)
           z3 == Zeros("zeros_2i", 2 * cfg.inter)
<1>1. n \in Nat /\ n >= 3 /\ DOMAIN reads = 1..n
  BY ReadsAreMany
<1>2. ASSUME NEW k \in 1..n PROVE IsBlob(stored[k])
  <2>1. StoredUnder(ckpt, reads[k].name) \in DOMAIN ckpt
    BY <1>1 DEF AllGettable, Gettable
  <2>2. IsFiniteSet(DOMAIN Get(ckpt, reads[k].name).data)
    BY <2>1 DEF Get
  <2>3. stored[k] = Store(reads[k].tag, Get(ckpt, reads[k].name), quantized(reads[k].kind))
    BY <1>1
  <2> HIDE DEF stored, quantized
  <2> QED
    BY <2>2, <2>3, StoredIsBlob
<1>3. ASSUME NEW tag, NEW count \in Nat PROVE IsBlob(Zeros(tag, count))
  <2>1. IsBlob(Plain(tag, [i \in 0..count - 1 |-> 0]))
    <3>1. count - 1 \in Int /\ DOMAIN [i \in 0..count - 1 |-> 0] = 0..count - 1
      OBVIOUS
    <3> QED
      BY <3>1, PlainIsBlob
  <2> QED
    BY <2>1 DEF Zeros
<1>4. IsBlob(z1) /\ IsBlob(z2) /\ IsBlob(z3)
  BY <1>3
<1>5. WriteShared(cfg, ckpt, opts) = SubSeq(stored, 1, 2) \o <<z1, z2, z3>> \o SubSeq(stored, 3, Len(stored))
  BY DEF WriteShared
<1> HIDE DEF z1, z2, z3
<1>6. AreBlobs(<<z1, z2, z3>>)
  <2>1. PICK A : A = {z1, z2, z3}
    OBVIOUS
  <2>2. PICK t : t = <<z1, z2, z3>>
    OBVIOUS
  <2>3. t \in Seq(A) /\ \A b \in A : IsBlob(b)
    BY <1>4, <2>1, <2>2
  <2> QED
    BY <2>2, <2>3, BlobsAre
<1>7. stored = [k \in 1..n |-> stored[k]]
  BY <1>1
<1> HIDE DEF stored, n
<1> DEFINE S == {stored[k] : k \in 1..n}
<1>8. \A b \in S : IsBlob(b)
  BY <1>2
<1>9. stored \in Seq(S) /\ Len(stored) = n
  BY <1>1, <1>7
<1> HIDE DEF S
<1>10. SubSeq(stored, 1, 2) \in Seq(S) /\ SubSeq(stored, 3, Len(stored)) \in Seq(S)
  BY <1>1, <1>9
<1>11. AreBlobs(SubSeq(stored, 1, 2)) /\ AreBlobs(SubSeq(stored, 3, Len(stored)))
  BY <1>8, <1>10, BlobsAre
<1> QED
  BY <1>5, <1>6, <1>11, BlobsAppend

LEMMA WrittenAreBlobs ==
    ASSUME NEW cfg, NEW ckpt, NEW opts, cfg.layers \in Nat, cfg.hidden \in Nat, cfg.inter \in Nat,
           cfg.heads \in Nat \ {0}, AllGettable(cfg, ckpt),
           \A name \in DOMAIN ckpt : IsFiniteSet(DOMAIN ckpt[name].data),
           NEW lengths, Len(lengths) \in Nat, \A k \in 1..Len(lengths) : lengths[k] \in Nat
    PROVE  AreBlobs(Writes(cfg, ckpt, lengths, opts))
<1> DEFINE ropes == CHOOSE f : f = [k \in 0..Len(lengths) |->
                       IF k = 0 THEN <<>>
                       ELSE f[k - 1] \o (WriteRope(cfg, lengths[k], FALSE) \o WriteRope(cfg, lengths[k], TRUE))]
<1>1. Writes(cfg, ckpt, lengths, opts) = WriteShared(cfg, ckpt, opts) \o ropes[Len(lengths)]
  BY DEF Writes
<1>2. AreBlobs(ropes[Len(lengths)])
  BY AllTablesAreBlobs
<1>3. AreBlobs(WriteShared(cfg, ckpt, opts))
  BY SharedAreBlobs
<1> HIDE DEF ropes
<1> QED
  BY <1>1, <1>2, <1>3, BlobsAppend

-----------------------------------------------------------------------------
(* Every package is sound.                                                 *)

\* For every checkpoint, any lengths and options: the functions are, and the
\* file is.
LEMMA EmittedIsSound ==
    ASSUME RequestsAreSound, NEW e \in Emissions
    PROVE  Sound[e]
<1> DEFINE cfg == Sources[e.id].config
           ckpt == Sources[e.id].weights
           lengths == SortedSet({e.lengths[k] : k \in DOMAIN e.lengths})
           writes == Writes(cfg, ckpt, lengths, e.opts)
           off == Offsets(writes)
           package == EmitWith(cfg, ckpt, e.lengths, e.opts)
<1>1. Sound[e] = PackageIsSound(Emitted[e]) /\ Emitted[e] = package
  BY DEF Sound, Emitted, Known
<1>2. /\ package.functions = [seq \in {lengths[k] : k \in DOMAIN lengths} |-> Graph(cfg, off, seq)]
      /\ package.file = FileOf(writes)
  BY DEF EmitWith, Known
<1>3. \A k \in DOMAIN lengths : AreSound(Inputs(lengths[k]), Requests(cfg, off, lengths[k]), "hidden")
  BY DEF RequestsAreSound, Known
<1>4. PICK id \in Ids, o \in Orders : /\ e = [id |-> id, lengths |-> LengthsOf(o), opts |-> OptionsOf(o)]
                                      /\ Accepted(e.id, e.lengths) /\ Emittable(e.id)
  BY DEF Emissions
<1>5. e.id = id /\ e.lengths = LengthsOf(o)
  BY <1>4
<1>6. /\ cfg.layers \in Nat /\ cfg.hidden \in Nat /\ cfg.inter \in Nat /\ cfg.heads \in Nat \ {0}
      /\ AllGettable(cfg, ckpt) /\ \A name \in DOMAIN ckpt : IsFiniteSet(DOMAIN ckpt[name].data)
  <2>1. /\ {cfg.vocab, cfg.hidden, cfg.heads, cfg.inter, cfg.layers} \subseteq Nat
        /\ \A name \in DOMAIN ckpt : IsFiniteSet(DOMAIN ckpt[name].data)
    BY <1>5, SourcesAssumption
  <2>2. cfg.heads # 0 /\ AllGettable(cfg, ckpt)
    BY <1>4 DEF Accepted, Supported, HeadDimOk, Emittable
  <2> QED
    BY <2>1, <2>2
<1>7. Len(lengths) \in Nat /\ \A k \in 1..Len(lengths) : lengths[k] \in Nat
  <2> DEFINE asked == {e.lengths[k] : k \in DOMAIN e.lengths}
  <2>1. asked \in SUBSET Nat /\ IsFiniteSet(asked)
    BY <1>5, LengthsAreNaturals
  <2>2. lengths = SortedSet(asked)
    OBVIOUS
  <2> HIDE DEF asked, lengths
  <2>3. Cardinality(asked) \in Nat /\ lengths \in [1..Cardinality(asked) -> asked]
    BY <2>1, <2>2, SortedSetIsOf
  <2>4. PICK count \in Nat : count = Cardinality(asked)
    BY <2>3
  <2>5. Len(lengths) = count /\ \A k \in 1..count : lengths[k] \in asked
    BY <2>3, <2>4
  <2> QED
    BY <2>1, <2>5
<1>8. FileIsWhole(FileOf(writes))
  <2> HIDE DEF cfg, ckpt, lengths
  <2>1. AreBlobs(writes)
    BY <1>6, <1>7, WrittenAreBlobs
  <2> QED
    BY <2>1, WritesDoNotOverlap
<1> HIDE DEF cfg, ckpt, lengths, writes, off, package
<1>9. ASSUME NEW seq \in DOMAIN package.functions PROVE IsSound(package.functions[seq])
  <2>1. PICK k \in DOMAIN lengths : seq = lengths[k]
    BY <1>2
  <2>2. package.functions[seq] = Build(Inputs(seq), Requests(cfg, off, seq), "hidden")
    BY <1>2 DEF Graph
  <2> QED
    BY <1>3, <2>1, <2>2, BuildIsSound
<1> QED
  BY <1>1, <1>2, <1>8, <1>9 DEF PackageIsSound

\* What a text is answered through is a program Core ML takes: no interning of
\* an immediate puts a use before what it uses, gives a name twice or leaves the
\* output without one, no blob runs into the next, and each value is of the type
\* it was declared; for every checkpoint and however often a directory is
\* converted into, if the emitter's requests are sound as they are made and
\* what they give is as declared (Builder of mil.rs, Writer of blob.rs,
\* write_shared).
THEOREM ProgramsAreSound ==
    ASSUME ReplacedBetweenOnly, GraphsComputeTheModel, RequestsAreSound
    PROVE  Spec => []ProgramIsSound
<1>1. LabelInv => ProgramIsSound
  <2> SUFFICES ASSUME LabelInv, answer # None
               PROVE  answer.misdeclared = {} /\ Sound[buckets[answer.seq].emission]
    BY DEF ProgramIsSound
  <2>1. answer.misdeclared = {} /\ IsLabelled(buckets[answer.seq])
    BY AnswersArePasses
  <2>2. buckets[answer.seq].emission \in Emissions
    BY <2>1 DEF IsLabelled
  <2> QED
    BY <2>1, <2>2, EmittedIsSound
<1> QED
  BY <1>1, LabelsHold, PTL
=============================================================================
