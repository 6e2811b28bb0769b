----------------------------- MODULE ShipProofs -----------------------------
(***************************************************************************)
(* Proofs about Ship: every manifest that a restore may choose can be      *)
(* restored, whenever the engine rotates, compacts or dies, whatever calls *)
(* of the remote store fail, and while retention deletes.                  *)
(***************************************************************************)
EXTENDS Ship, FiniteSetTheorems, SequenceTheorems, TLAPS

Rec == [store : Stores, id : Nat]
ChunkRef == [offset : Nat, size : Nat]
Wals == UNION {[S -> Seq(ChunkRef)] : S \in SUBSET (1..MaxFiles)}
Manifests == [gen : Nat \ {0}, snap : Nat, graph : Nat, wals : Wals]

ChunkKeys == {ChunkKey(n, k) : n \in Nat, k \in Nat}
FileKeys == {FileKey(kind, fp) : kind \in {"snap", "graph"}, fp \in Nat}
ManifestKeys == {ManifestKey(g) : g \in Nat}
Keys == {LatestKey} \cup ManifestKeys \cup ChunkKeys \cup FileKeys

(***************************************************************************)
(* Keys of the remote store                                                *)
(***************************************************************************)
LEMMA KeyTags ==
    /\ LatestKey[1] = "latest"
    /\ \A g : ManifestKey(g)[1] = "gen" /\ ManifestKey(g)[2] = g
    /\ \A n, k : ChunkKey(n, k)[1] = "wal" /\ ChunkKey(n, k)[2] = n /\ ChunkKey(n, k)[3] = k
    /\ \A kind, fp : FileKey(kind, fp)[1] = kind /\ FileKey(kind, fp)[2] = fp
BY DEF LatestKey, ManifestKey, ChunkKey, FileKey

LEMMA KeysDiffer ==
    /\ \A g : ManifestKey(g) # LatestKey /\ ManifestKey(g) \notin ChunkKeys \cup FileKeys
    /\ LatestKey \notin ChunkKeys \cup FileKeys
    /\ \A n, k : ChunkKey(n, k) \notin FileKeys
    /\ \A g, h : ManifestKey(g) = ManifestKey(h) => g = h
    /\ \A n, k, o, l : ChunkKey(n, k) = ChunkKey(o, l) => n = o /\ k = l
<1>1. \A x \in ChunkKeys : x[1] = "wal"
  BY KeyTags DEF ChunkKeys
<1>2. \A x \in FileKeys : x[1] \in {"snap", "graph"}
  BY KeyTags DEF FileKeys
<1>3. \A g, h : ManifestKey(g) = ManifestKey(h) => g = h
  BY KeyTags
<1>4. \A n, k, o, l : ChunkKey(n, k) = ChunkKey(o, l) => n = o /\ k = l
  BY KeyTags
<1>5. \A n, k : ChunkKey(n, k) \notin FileKeys
  BY KeyTags, <1>2
<1> QED
  BY KeyTags, <1>1, <1>2, <1>3, <1>4, <1>5

(***************************************************************************)
(* What a store o has                                                      *)
(***************************************************************************)
GensOf(o) == {key[2] : key \in {x \in DOMAIN o : x[1] = "gen"}}

LatestOf(o) ==
    IF LatestKey \in DOMAIN o THEN o[LatestKey]
    ELSE IF GensOf(o) = {} THEN NoManifest
    ELSE o[ManifestKey(Max(GensOf(o)))]

ObjsOK(o) ==
    /\ DOMAIN o \subseteq Keys
    /\ \A g \in Nat : ManifestKey(g) \in DOMAIN o =>
         o[ManifestKey(g)] \in Manifests /\ o[ManifestKey(g)].gen = g
    /\ LatestKey \in DOMAIN o => o[LatestKey] \in Manifests

LEMMA GensAre ==
    ASSUME NEW o, ObjsOK(o)
    PROVE  /\ \A g : g \in GensOf(o) <=> g \in Nat /\ ManifestKey(g) \in DOMAIN o
           /\ GensOf(o) \subseteq Nat \ {0}
<1>1. ASSUME NEW g, g \in Nat, ManifestKey(g) \in DOMAIN o PROVE g \in GensOf(o)
  BY <1>1, KeyTags DEF GensOf
<1>2. ASSUME NEW x \in DOMAIN o, x[1] = "gen" PROVE \E g \in Nat : x = ManifestKey(g)
  <2>1. \A y \in ChunkKeys : y[1] = "wal"
    BY KeyTags DEF ChunkKeys
  <2>2. \A y \in FileKeys : y[1] \in {"snap", "graph"}
    BY KeyTags DEF FileKeys
  <2>3. x \in ManifestKeys
    BY <1>2, <2>1, <2>2, KeyTags DEF ObjsOK, Keys
  <2> QED
    BY <2>3 DEF ManifestKeys
<1>3. ASSUME NEW g \in GensOf(o) PROVE g \in Nat /\ ManifestKey(g) \in DOMAIN o
  <2>1. PICK x \in DOMAIN o : x[1] = "gen" /\ x[2] = g
    BY DEF GensOf
  <2>2. PICK h \in Nat : x = ManifestKey(h)
    BY <1>2, <2>1
  <2> QED
    BY <2>1, <2>2, KeyTags
<1>4. ASSUME NEW g \in GensOf(o) PROVE g # 0
  BY <1>3, <1>4 DEF ObjsOK, Manifests
<1> QED
  BY <1>1, <1>3, <1>4

LEMMA MaxIs ==
    ASSUME NEW T \in SUBSET Nat, NEW x \in T, \A y \in T : y <= x
    PROVE  Max(T) = x
<1>1. \A y \in T : x >= y
  OBVIOUS
<1>2. \A z \in T : (\A y \in T : z >= y) => z = x
  BY <1>1
<1> QED
  BY <1>1, <1>2 DEF Max

\* The last manifest is one, unless there is none at all.
HasTop(o) ==
    LatestKey \notin DOMAIN o /\ GensOf(o) # {} =>
        \E g \in GensOf(o) : \A h \in GensOf(o) : h <= g

LEMMA LatestIs ==
    ASSUME NEW o, ObjsOK(o), HasTop(o)
    PROVE  /\ LatestOf(o) \in Manifests \/ LatestOf(o) = NoManifest
           /\ LatestKey \notin DOMAIN o /\ LatestOf(o) # NoManifest =>
                /\ LatestOf(o).gen \in GensOf(o)
                /\ LatestOf(o) = o[ManifestKey(LatestOf(o).gen)]
                /\ \A h \in GensOf(o) : h <= LatestOf(o).gen
           /\ LatestOf(o) = NoManifest => GensOf(o) = {} /\ LatestKey \notin DOMAIN o
           /\ NoManifest \notin Manifests
<1>1. NoManifest \notin Manifests
  BY DEF NoManifest, Manifests
<1>2. CASE LatestKey \in DOMAIN o
  BY <1>1, <1>2 DEF LatestOf, ObjsOK
<1>3. CASE LatestKey \notin DOMAIN o /\ GensOf(o) = {}
  BY <1>1, <1>3 DEF LatestOf
<1>4. CASE LatestKey \notin DOMAIN o /\ GensOf(o) # {}
  <2>1. PICK g \in GensOf(o) : \A h \in GensOf(o) : h <= g
    BY <1>4 DEF HasTop
  <2>2. Max(GensOf(o)) = g
    BY <2>1, GensAre, MaxIs
  <2>3. LatestOf(o) = o[ManifestKey(g)]
    BY <1>4, <2>2 DEF LatestOf
  <2>4. g \in Nat /\ ManifestKey(g) \in DOMAIN o
    BY GensAre
  <2>5. o[ManifestKey(g)] \in Manifests /\ o[ManifestKey(g)].gen = g
    BY <2>4 DEF ObjsOK
  <2> QED
    BY <1>1, <1>4, <2>1, <2>3, <2>5
<1> QED
  BY <1>2, <1>3, <1>4

(***************************************************************************)
(* Chunks of a file                                                        *)
(***************************************************************************)
\* Chunks that lie one behind the other, from the start of the file on.
Good(cs) ==
    \A j \in DOMAIN cs :
        /\ cs[j].size > 0
        /\ cs[j].offset = Size(SubSeq(cs, 1, j - 1))
        /\ \A i \in 1..(j - 1) : cs[i].offset + cs[i].size <= cs[j].offset

Begins(cs, ds) == Len(cs) <= Len(ds) /\ \A j \in DOMAIN cs : ds[j] = cs[j]

LEMMA SizeIs ==
    ASSUME NEW cs \in Seq(ChunkRef)
    PROVE  /\ Size(cs) \in Nat
           /\ cs = <<>> => Size(cs) = 0
           /\ cs # <<>> => Len(cs) \in DOMAIN cs /\ Size(cs) = cs[Len(cs)].offset + cs[Len(cs)].size
<1>1. CASE cs = <<>>
  BY <1>1 DEF Size
<1>2. CASE cs # <<>>
  <2>1. Len(cs) \in Nat \ {0} /\ DOMAIN cs = 1..Len(cs)
    BY <1>2, EmptySeq, LenProperties
  <2>2. cs[Len(cs)] \in ChunkRef
    BY <2>1, ElementOfSeq
  <2>3. Size(cs) = cs[Len(cs)].offset + cs[Len(cs)].size
    BY <1>2 DEF Size, Last
  <2> QED
    BY <1>2, <2>1, <2>2, <2>3 DEF ChunkRef
<1> QED
  BY <1>1, <1>2

LEMMA OffsetsBelow ==
    ASSUME NEW cs \in Seq(ChunkRef), Good(cs), NEW j \in DOMAIN cs
    PROVE  cs[j].offset \in Nat /\ cs[j].offset < Size(cs)
<1>1. j \in 1..Len(cs) /\ Len(cs) \in Nat /\ cs # <<>> /\ DOMAIN cs = 1..Len(cs)
  BY LenProperties
<1>2. /\ cs[j] \in ChunkRef /\ cs[Len(cs)] \in ChunkRef
  BY <1>1, ElementOfSeq
<1>3. cs[j].size > 0 /\ Size(cs) = cs[Len(cs)].offset + cs[Len(cs)].size
  BY <1>1, SizeIs DEF Good
<1>4. CASE j = Len(cs)
  BY <1>2, <1>3, <1>4 DEF ChunkRef
<1>5. CASE j # Len(cs)
  <2>1. j \in 1..(Len(cs) - 1) /\ Len(cs) \in DOMAIN cs
    BY <1>1, <1>5
  <2>2. cs[j].offset + cs[j].size <= cs[Len(cs)].offset
    BY <2>1 DEF Good
  <2> QED
    BY <1>2, <1>3, <2>2 DEF ChunkRef
<1> QED
  BY <1>4, <1>5

LEMMA FirstOffset ==
    ASSUME NEW cs \in Seq(ChunkRef), Good(cs), cs # <<>>
    PROVE  1 \in DOMAIN cs /\ cs[1].offset = 0
<1>1. 1 \in DOMAIN cs
  BY EmptySeq, LenProperties
<1>2. SubSeq(cs, 1, 1 - 1) = <<>>
  BY SubSeqEmpty
<1>3. Size(<<>>) = 0
  BY DEF Size
<1> QED
  BY <1>1, <1>2, <1>3 DEF Good

LEMMA GoodAppend ==
    ASSUME NEW cs \in Seq(ChunkRef), Good(cs), NEW ref \in ChunkRef,
           ref.offset = Size(cs), ref.size > 0, NEW ds, ds = Append(cs, ref)
    PROVE  /\ ds \in Seq(ChunkRef) /\ Good(ds) /\ Size(ds) = Size(cs) + ref.size /\ Begins(cs, ds)
           /\ ds # <<>> /\ DOMAIN ds = DOMAIN cs \cup {Len(cs) + 1}
           /\ ds[Len(cs) + 1] = ref
<1>1. /\ Len(cs) \in Nat /\ DOMAIN cs = 1..Len(cs) /\ Size(cs) \in Nat
  BY LenProperties, SizeIs
<1>2. ref \in ChunkRef
  OBVIOUS
<1>3. /\ ds \in Seq(ChunkRef) /\ Len(ds) = Len(cs) + 1 /\ ds # <<>>
      /\ \A i \in 1..Len(cs) : ds[i] = cs[i]
      /\ ds[Len(cs) + 1] = ref
  BY <1>2, AppendProperties, LenProperties
<1>4. DOMAIN ds = 1..(Len(cs) + 1)
  BY <1>3, LenProperties
<1>5. Size(ds) = Size(cs) + ref.size
  <2>1. ds[Len(ds)].offset = Size(cs) /\ ds[Len(ds)].size = ref.size
    BY <1>3
  <2>2. Size(ds) = ds[Len(ds)].offset + ds[Len(ds)].size
    BY <1>3, SizeIs
  <2> QED
    BY <2>1, <2>2
<1>6. Begins(cs, ds)
  BY <1>1, <1>3 DEF Begins
<1>7. ASSUME NEW j \in 0..Len(cs) PROVE SubSeq(ds, 1, j) = SubSeq(cs, 1, j)
  <2>1. j \in Int /\ 1 \in Int /\ Len(ds) \in Int
    BY <1>1
  <2>2. \A i \in 1..j : ds[i] \in ChunkRef /\ cs[i] \in ChunkRef /\ ds[i] = cs[i]
    BY <1>1, <1>3, ElementOfSeq
  <2>3. /\ SubSeq(ds, 1, j) \in Seq(ChunkRef) /\ SubSeq(cs, 1, j) \in Seq(ChunkRef)
        /\ Len(SubSeq(ds, 1, j)) = IF 1 <= j THEN j - 1 + 1 ELSE 0
        /\ Len(SubSeq(cs, 1, j)) = IF 1 <= j THEN j - 1 + 1 ELSE 0
        /\ \A i \in 1..(j - 1 + 1) : SubSeq(ds, 1, j)[i] = ds[1 + i - 1]
        /\ \A i \in 1..(j - 1 + 1) : SubSeq(cs, 1, j)[i] = cs[1 + i - 1]
    BY <2>1, <2>2, SubSeqProperties
  <2>4. /\ Len(SubSeq(ds, 1, j)) = j /\ Len(SubSeq(cs, 1, j)) = j
        /\ \A i \in 1..j : SubSeq(ds, 1, j)[i] = SubSeq(cs, 1, j)[i]
    BY <2>1, <2>2, <2>3
  <2> QED
    BY <2>3, <2>4, SeqEqual
<1>8. SubSeq(cs, 1, Len(cs)) = cs
  BY <1>1, SubSeqFull
<1>9. ASSUME NEW j \in DOMAIN ds
      PROVE  /\ ds[j].size > 0
             /\ ds[j].offset = Size(SubSeq(ds, 1, j - 1))
             /\ \A i \in 1..(j - 1) : ds[i].offset + ds[i].size <= ds[j].offset
  <2>1. CASE j \in 1..Len(cs)
    <3>1. j - 1 \in 0..Len(cs) /\ ds[j] = cs[j] /\ \A i \in 1..(j - 1) : ds[i] = cs[i]
      BY <1>1, <1>3, <2>1
    <3> QED
      BY <1>1, <1>7, <2>1, <3>1 DEF Good
  <2>2. CASE j = Len(cs) + 1
    <3>1. j - 1 = Len(cs) /\ Len(cs) \in 0..Len(cs)
      BY <1>1, <2>2
    <3>2. ds[j].offset = Size(SubSeq(ds, 1, j - 1)) /\ ds[j].size > 0
      <4>1. SubSeq(ds, 1, Len(cs)) = cs
        BY <1>7, <1>8, <3>1
      <4>2. ds[j].offset = Size(cs) /\ ds[j].size = ref.size
        BY <1>3, <2>2
      <4>3. j - 1 = Len(cs) => Size(SubSeq(ds, 1, j - 1)) = Size(SubSeq(ds, 1, Len(cs)))
        BY Zenon
      <4>4. Size(SubSeq(ds, 1, j - 1)) = Size(cs)
        BY <3>1, <4>1, <4>3, Zenon
      <4>5. ds[j].size > 0
        BY <4>2
      <4> QED
        BY <4>2, <4>4, <4>5, Zenon
    <3>3. ASSUME NEW i \in 1..Len(cs) PROVE cs[i].offset + cs[i].size <= Size(cs)
      <4>1. /\ cs # <<>> /\ cs[i] \in ChunkRef /\ cs[Len(cs)] \in ChunkRef
            /\ Len(cs) \in DOMAIN cs /\ i \in DOMAIN cs
        BY <1>1, ElementOfSeq
      <4>2. Size(cs) = cs[Len(cs)].offset + cs[Len(cs)].size
        BY <4>1, SizeIs
      <4>3. i # Len(cs) => i \in 1..(Len(cs) - 1)
        <5>1. Len(cs) \in Nat
          BY <1>1
        <5> QED
          BY ONLY <5>1, i \in 1..Len(cs)
      <4>4. i # Len(cs) => cs[i].offset + cs[i].size <= cs[Len(cs)].offset
        <5>1. \A k \in 1..(Len(cs) - 1) : cs[k].offset + cs[k].size <= cs[Len(cs)].offset
          BY <4>1 DEF Good
        <5> QED
          BY <4>3, <5>1
      <4> QED
        BY <4>1, <4>2, <4>4 DEF ChunkRef
    <3> QED
      BY <1>3, <2>2, <3>1, <3>2, <3>3
  <2> QED
    BY <1>1, <1>4, <2>1, <2>2
<1> QED
  BY <1>1, <1>3, <1>4, <1>5, <1>6, <1>9 DEF Good

LEMMA BeginsEmpty ==
    ASSUME NEW cs \in Seq(ChunkRef), NEW ds \in Seq(ChunkRef), Begins(cs, ds), ds = <<>>
    PROVE  cs = <<>>
  BY EmptySeq, LenProperties DEF Begins

LEMMA BeginsTransitive ==
    ASSUME NEW cs \in Seq(ChunkRef), NEW ds \in Seq(ChunkRef), NEW es \in Seq(ChunkRef),
           Begins(cs, ds), Begins(ds, es)
    PROVE  Begins(cs, es)
  BY LenProperties DEF Begins

LEMMA BeginsItself == ASSUME NEW cs \in Seq(ChunkRef) PROVE Begins(cs, cs)
  BY LenProperties DEF Begins

LEMMA NoChunksGood == <<>> \in Seq(ChunkRef) /\ Good(<<>>) /\ Begins(<<>>, <<>>)
<1>1. <<>> \in Seq(ChunkRef) /\ DOMAIN <<>> = {}
  BY EmptySeq
<1> QED
  BY <1>1, BeginsItself DEF Good

(***************************************************************************)
(* Puts and deletions                                                      *)
(***************************************************************************)
Stored(o, n, cs) ==
    \A j \in DOMAIN cs :
        /\ ChunkKey(n, cs[j].offset) \in DOMAIN o
        /\ Len(o[ChunkKey(n, cs[j].offset)]) = cs[j].size

FilesIn(o, m) ==
    /\ m.snap # 0 => FileKey("snap", m.snap) \in DOMAIN o
    /\ m.graph # 0 => FileKey("graph", m.graph) \in DOMAIN o

\* What Restorable says of manifest m, but for the manifest's own object.
Whole(o, m) ==
    /\ FilesIn(o, m)
    /\ \A n \in DOMAIN m.wals : Good(m.wals[n]) /\ Stored(o, n, m.wals[n])

LEMMA WholePut ==
    ASSUME NEW o, NEW m, NEW k, NEW d, NEW e, e = Extended(o, k, d), Whole(o, m),
           \A n \in DOMAIN m.wals : \A j \in DOMAIN m.wals[n] : k # ChunkKey(n, m.wals[n][j].offset)
    PROVE  Whole(e, m)
<1>1. DOMAIN e = DOMAIN o \cup {k} /\ \A x \in DOMAIN o \ {k} : e[x] = o[x]
  BY DEF Extended
<1>2. FilesIn(e, m)
  BY <1>1 DEF Whole, FilesIn
<1>3. ASSUME NEW n \in DOMAIN m.wals PROVE Stored(e, n, m.wals[n])
  <2>1. Stored(o, n, m.wals[n])
    BY DEF Whole
  <2> QED
    BY <1>1, <2>1 DEF Stored
<1> QED
  BY <1>2, <1>3 DEF Whole

LEMMA WholeDelete ==
    ASSUME NEW o, NEW m, NEW k, NEW e, e = Except(o, {k}), Whole(o, m), k \notin LiveObjects(m),
           m \in Manifests
    PROVE  Whole(e, m)
<1>1. DOMAIN e = DOMAIN o \ {k} /\ \A x \in DOMAIN o \ {k} : e[x] = o[x]
  BY DEF Except
<1>2. FilesIn(e, m)
  BY <1>1, KeyTags DEF Whole, FilesIn, LiveObjects
<1>3. ASSUME NEW n \in DOMAIN m.wals PROVE Stored(e, n, m.wals[n])
  <2>1. Stored(o, n, m.wals[n])
    BY DEF Whole
  <2>2. \A j \in DOMAIN m.wals[n] : ChunkKey(n, m.wals[n][j].offset) # k
    BY DEF LiveObjects
  <2> QED
    BY <1>1, <2>1, <2>2 DEF Stored
<1> QED
  BY <1>2, <1>3 DEF Whole

LEMMA WholeLive ==
    ASSUME NEW o, NEW m, Whole(o, m), ManifestKey(m.gen) \in DOMAIN o
    PROVE  LiveObjects(m) \subseteq DOMAIN o
<1>1. \A n \in DOMAIN m.wals : \A j \in DOMAIN m.wals[n] :
        ChunkKey(n, m.wals[n][j].offset) \in DOMAIN o
  BY DEF Whole, Stored
<1>2. \A key \in {FileKey("snap", m.snap), FileKey("graph", m.graph)} :
        key[2] # 0 => key \in DOMAIN o
  BY KeyTags DEF Whole, FilesIn
<1> QED
  BY <1>1, <1>2 DEF LiveObjects

KeptOf(o) == {g \in GensOf(o) : Cardinality({h \in GensOf(o) : h > g}) < RetainManifests}

\* An object that is not a manifest is put.
LEMMA PutOther ==
    ASSUME NEW o, ObjsOK(o), HasTop(o), NEW k \in ChunkKeys \cup FileKeys, NEW d,
           NEW e, e = Extended(o, k, d)
    PROVE  /\ ObjsOK(e) /\ GensOf(e) = GensOf(o) /\ KeptOf(e) = KeptOf(o)
           /\ LatestOf(e) = LatestOf(o) /\ HasTop(e)
           /\ LatestKey \in DOMAIN e <=> LatestKey \in DOMAIN o
           /\ LatestKey \in DOMAIN o => e[LatestKey] = o[LatestKey]
           /\ \A g \in GensOf(o) : e[ManifestKey(g)] = o[ManifestKey(g)]
<1>1. DOMAIN e = DOMAIN o \cup {k} /\ \A x \in DOMAIN o \ {k} : e[x] = o[x]
  BY DEF Extended
<1>2. k # LatestKey /\ \A g : k # ManifestKey(g)
  BY KeysDiffer
<1>3. ObjsOK(e)
  <2>1. DOMAIN e \subseteq Keys
    BY <1>1 DEF ObjsOK, Keys
  <2> QED
    BY <1>1, <1>2, <2>1 DEF ObjsOK
<1>4. GensOf(e) = GensOf(o)
  BY <1>1, <1>2, <1>3, GensAre
<1>5. \A g \in GensOf(o) : e[ManifestKey(g)] = o[ManifestKey(g)]
  BY <1>1, <1>2, GensAre
<1>6. /\ LatestKey \in DOMAIN e <=> LatestKey \in DOMAIN o
      /\ LatestKey \in DOMAIN o => e[LatestKey] = o[LatestKey]
  BY <1>1, <1>2
<1>7. LatestOf(e) = LatestOf(o)
  <2>1. ASSUME LatestKey \notin DOMAIN o, GensOf(o) # {} PROVE Max(GensOf(o)) \in GensOf(o)
    BY <2>1, GensAre, MaxIs DEF HasTop
  <2>2. LatestKey \notin DOMAIN o /\ GensOf(o) # {} =>
          o[ManifestKey(Max(GensOf(o)))] = e[ManifestKey(Max(GensOf(o)))]
    BY <1>5, <2>1
  <2> QED
    BY <1>4, <1>6, <2>2 DEF LatestOf
<1>8. KeptOf(e) = KeptOf(o)
  BY <1>4 DEF KeptOf
<1>9. HasTop(e)
  BY <1>4, <1>6 DEF HasTop
<1> QED
  BY <1>3, <1>4, <1>5, <1>6, <1>7, <1>8, <1>9

LEMMA GensFinite ==
    ASSUME NEW o, ObjsOK(o), NEW b \in Nat, \A g \in GensOf(o) : g <= b
    PROVE  IsFiniteSet(GensOf(o))
<1>1. GensOf(o) \subseteq 0..b
  BY GensAre
<1>2. IsFiniteSet(0..b)
  BY FS_Interval
<1> QED
  BY <1>1, <1>2, FS_Subset

\* A generation above all others is put: of those before it, no other is kept.
LEMMA PutGen ==
    ASSUME NEW o, ObjsOK(o), HasTop(o), NEW m \in Manifests, \A h \in GensOf(o) : h <= m.gen,
           NEW e, e = Extended(o, ManifestKey(m.gen), m)
    PROVE  /\ ObjsOK(e) /\ HasTop(e) /\ GensOf(e) = GensOf(o) \cup {m.gen}
           /\ LatestOf(e) = IF LatestKey \in DOMAIN o THEN LatestOf(o) ELSE m
           /\ LatestKey \in DOMAIN e <=> LatestKey \in DOMAIN o
           /\ LatestKey \in DOMAIN o => e[LatestKey] = o[LatestKey]
           /\ ManifestKey(m.gen) \in DOMAIN e /\ e[ManifestKey(m.gen)] = m
           /\ \A g \in GensOf(o) \ {m.gen} : e[ManifestKey(g)] = o[ManifestKey(g)]
           /\ KeptOf(e) \subseteq KeptOf(o) \cup {m.gen}
<1> DEFINE k == ManifestKey(m.gen)
<1>0. m.gen \in Nat \ {0}
  BY DEF Manifests
<1>1. DOMAIN e = DOMAIN o \cup {k} /\ e[k] = m /\ \A x \in DOMAIN o \ {k} : e[x] = o[x]
  BY DEF Extended
<1>2. k # LatestKey /\ k \in Keys /\ \A g : k = ManifestKey(g) => g = m.gen
  BY <1>0, KeysDiffer DEF Keys, ManifestKeys
<1>3. ObjsOK(e)
  <2>1. DOMAIN e \subseteq Keys
    BY <1>1, <1>2 DEF ObjsOK
  <2>2. ASSUME NEW g \in Nat, ManifestKey(g) \in DOMAIN e
        PROVE  e[ManifestKey(g)] \in Manifests /\ e[ManifestKey(g)].gen = g
    <3>1. CASE g = m.gen
      BY <1>1, <3>1
    <3>2. CASE g # m.gen
      BY <1>1, <1>2, <2>2, <3>2 DEF ObjsOK
    <3> QED
      BY <3>1, <3>2
  <2>3. LatestKey \in DOMAIN e => e[LatestKey] \in Manifests
    BY <1>1, <1>2 DEF ObjsOK
  <2> QED
    BY <2>1, <2>2, <2>3 DEF ObjsOK
<1>4. GensOf(e) = GensOf(o) \cup {m.gen}
  <2>1. \A g \in Nat : ManifestKey(g) \in DOMAIN e <=> ManifestKey(g) \in DOMAIN o \/ g = m.gen
    BY <1>1, <1>2
  <2>2. \A g : g \in GensOf(e) <=> g \in Nat /\ ManifestKey(g) \in DOMAIN e
    BY <1>3, GensAre
  <2>3. \A g : g \in GensOf(o) <=> g \in Nat /\ ManifestKey(g) \in DOMAIN o
    BY GensAre
  <2> QED
    BY <1>0, <2>1, <2>2, <2>3
<1>5. /\ LatestKey \in DOMAIN e <=> LatestKey \in DOMAIN o
      /\ LatestKey \in DOMAIN o => e[LatestKey] = o[LatestKey]
  BY <1>1, <1>2
<1>6. m.gen \in GensOf(e) /\ \A h \in GensOf(e) : h <= m.gen
  BY <1>0, <1>4
<1>7. HasTop(e)
  BY <1>6 DEF HasTop
<1>8. LatestOf(e) = IF LatestKey \in DOMAIN o THEN LatestOf(o) ELSE m
  <2>1. GensOf(e) \in SUBSET Nat
    BY <1>3, GensAre
  <2>2. Max(GensOf(e)) = m.gen
    BY <1>6, <2>1, MaxIs
  <2> QED
    BY <1>1, <1>5, <1>6, <2>2 DEF LatestOf
<1>9. \A g \in GensOf(o) \ {m.gen} : e[ManifestKey(g)] = o[ManifestKey(g)]
  BY <1>1, <1>2, GensAre
<1>10. ASSUME NEW g \in KeptOf(e), g # m.gen PROVE g \in KeptOf(o)
  <2>1. g \in GensOf(o) /\ Cardinality({h \in GensOf(e) : h > g}) < RetainManifests
    BY <1>4, <1>10 DEF KeptOf
  <2>2. IsFiniteSet(GensOf(e))
    BY <1>0, <1>3, <1>6, GensFinite
  <2>3. IsFiniteSet({h \in GensOf(e) : h > g})
    BY <2>2, FS_Subset
  <2>4. {h \in GensOf(o) : h > g} \subseteq {h \in GensOf(e) : h > g}
    BY <1>4
  <2>5. /\ Cardinality({h \in GensOf(o) : h > g}) <= Cardinality({h \in GensOf(e) : h > g})
        /\ IsFiniteSet({h \in GensOf(o) : h > g})
    BY <2>3, <2>4, FS_Subset
  <2>6. /\ Cardinality({h \in GensOf(o) : h > g}) \in Nat
        /\ Cardinality({h \in GensOf(e) : h > g}) \in Nat
    BY <2>3, <2>5, FS_CardinalityType
  <2> QED
    BY <2>1, <2>5, <2>6, ShipAssumption DEF KeptOf
<1> QED
  BY <1>1, <1>3, <1>4, <1>5, <1>7, <1>8, <1>9, <1>10

\* MANIFEST.json is put.
LEMMA PutTop ==
    ASSUME NEW o, ObjsOK(o), NEW m \in Manifests, NEW e, e = Extended(o, LatestKey, m)
    PROVE  /\ ObjsOK(e) /\ HasTop(e) /\ GensOf(e) = GensOf(o) /\ KeptOf(e) = KeptOf(o)
           /\ LatestOf(e) = m /\ LatestKey \in DOMAIN e /\ e[LatestKey] = m
           /\ \A g : ManifestKey(g) \in DOMAIN e <=> ManifestKey(g) \in DOMAIN o
           /\ \A g \in GensOf(o) : e[ManifestKey(g)] = o[ManifestKey(g)]
<1>1. /\ DOMAIN e = DOMAIN o \cup {LatestKey} /\ e[LatestKey] = m
      /\ \A x \in DOMAIN o \ {LatestKey} : e[x] = o[x]
  BY DEF Extended
<1>2. \A g : ManifestKey(g) # LatestKey
  BY KeysDiffer
<1>3. ObjsOK(e)
  <2>1. DOMAIN e \subseteq Keys
    BY <1>1 DEF ObjsOK, Keys
  <2> QED
    BY <1>1, <1>2, <2>1 DEF ObjsOK
<1>4. GensOf(e) = GensOf(o)
  BY <1>1, <1>2, <1>3, GensAre
<1>5. \A g \in GensOf(o) : e[ManifestKey(g)] = o[ManifestKey(g)]
  BY <1>1, <1>2, GensAre
<1> QED
  BY <1>1, <1>2, <1>3, <1>4, <1>5 DEF KeptOf, HasTop, LatestOf

KeptKeys(o) == {ManifestKey(g) : g \in KeptOf(o)}

\* Without an object that is neither MANIFEST.json nor a generation that is kept.
LEMMA Deleted ==
    ASSUME NEW o, ObjsOK(o), IsFiniteSet(GensOf(o)), LatestKey \in DOMAIN o,
           NEW k, k # LatestKey, k \notin KeptKeys(o),
           NEW e, e = Except(o, {k})
    PROVE  /\ ObjsOK(e) /\ HasTop(e) /\ GensOf(e) \subseteq GensOf(o) /\ KeptOf(e) \subseteq KeptOf(o)
           /\ LatestOf(e) = LatestOf(o) /\ LatestKey \in DOMAIN e /\ e[LatestKey] = o[LatestKey]
           /\ \A g \in GensOf(e) : e[ManifestKey(g)] = o[ManifestKey(g)]
<1>0. \A g \in KeptOf(o) : k # ManifestKey(g)
  BY DEF KeptKeys
<1>1. DOMAIN e = DOMAIN o \ {k} /\ \A x \in DOMAIN o \ {k} : e[x] = o[x]
  BY DEF Except
<1>2. ObjsOK(e)
  BY <1>1 DEF ObjsOK
<1>3. /\ \A g \in GensOf(e) : g \in GensOf(o) /\ e[ManifestKey(g)] = o[ManifestKey(g)]
      /\ \A g \in GensOf(o) : ManifestKey(g) # k => g \in GensOf(e)
      /\ \A g \in GensOf(e) : ManifestKey(g) # k
      /\ GensOf(o) \subseteq Nat
  BY <1>1, <1>2, GensAre
<1>4. ASSUME NEW g \in KeptOf(e) PROVE g \in KeptOf(o)
  <2>1. g \in GensOf(o) /\ Cardinality({h \in GensOf(e) : h > g}) < RetainManifests /\ g \in Nat
    BY <1>3, <1>4 DEF KeptOf
  <2>2. \A h \in GensOf(o) : IsFiniteSet({x \in GensOf(o) : x > h})
    BY FS_Subset
  <2>3. IsFiniteSet(GensOf(e)) /\ IsFiniteSet({h \in GensOf(e) : h > g})
    <3>1. IsFiniteSet(GensOf(e))
      BY <1>3, FS_Subset
    <3> QED
      BY <3>1, FS_Subset
  <2>4. CASE \E h \in GensOf(o) : k = ManifestKey(h) /\ h > g
    <3>1. PICK h \in GensOf(o) : k = ManifestKey(h) /\ h > g
      BY <2>4
    <3>2. h \notin KeptOf(o) /\ h \in Nat
      BY <1>0, <1>3, <3>1
    <3>3. {x \in GensOf(o) : x > h} \subseteq {x \in GensOf(e) : x > g}
      <4>1. ASSUME NEW x \in GensOf(o), x > h PROVE ManifestKey(x) # k /\ x > g
        <5>1. x \in Nat /\ x # h
          BY <1>3, <3>2, <4>1
        <5> QED
          BY <2>1, <3>1, <3>2, <4>1, <5>1, KeysDiffer
      <4> QED
        BY <1>3, <4>1
    <3>4. Cardinality({x \in GensOf(o) : x > h}) <= Cardinality({x \in GensOf(e) : x > g})
      BY <2>3, <3>3, FS_Subset
    <3>5. /\ Cardinality({x \in GensOf(o) : x > h}) \in Nat
          /\ Cardinality({x \in GensOf(e) : x > g}) \in Nat
      BY <2>2, <2>3, FS_CardinalityType
    <3>6. ~(Cardinality({x \in GensOf(o) : x > h}) < RetainManifests)
      BY <3>1, <3>2 DEF KeptOf
    <3> QED
      BY <2>1, <3>4, <3>5, <3>6, ShipAssumption
  <2>5. CASE ~\E h \in GensOf(o) : k = ManifestKey(h) /\ h > g
    <3>1. {h \in GensOf(o) : h > g} = {h \in GensOf(e) : h > g}
      BY <1>3, <2>5
    <3> QED
      BY <2>1, <3>1 DEF KeptOf
  <2> QED
    BY <2>4, <2>5
<1>5. LatestKey \in DOMAIN e /\ e[LatestKey] = o[LatestKey]
  BY <1>1
<1> QED
  BY <1>2, <1>3, <1>4, <1>5 DEF HasTop, LatestOf

\* The highest generation is kept.
LEMMA TopKept ==
    ASSUME NEW o, NEW g \in GensOf(o), \A h \in GensOf(o) : h <= g, ObjsOK(o)
    PROVE  g \in KeptOf(o)
<1>1. {h \in GensOf(o) : h > g} = {}
  BY GensAre
<1> QED
  BY <1>1, FS_EmptySet, ShipAssumption DEF KeptOf

(***************************************************************************)
(* The inductive invariant.  Its parts are about a store o, a shipper s,   *)
(* the names F of the files of the data directory, the number N of names   *)
(* given so far, and the number f of failures.                             *)
(***************************************************************************)
Shippers ==
    [pc : {"idle", "wals", "chunks", "graph", "build", "latest", "retention", "delete"},
     loaded : BOOLEAN, gen : Nat, snap : Nat, graph : Nat, wals : [1..MaxFiles -> Seq(ChunkRef)],
     known : SUBSET (1..MaxFiles), published : BOOLEAN, changed : BOOLEAN, refs : BOOLEAN,
     before : SUBSET (1..MaxFiles), todo : SUBSET (1..MaxFiles), open : Seq(Rec),
     manifest : Manifests \cup {NoManifest}, kill : SUBSET Keys, covered : Nat]

Views == [gen : Nat, snap : Nat, graph : Nat, wals : [1..MaxFiles -> Seq(ChunkRef)]]

\* What a shipper knows to be shipped, or will know once it has read the last manifest.
ViewOf(o, s) ==
    LET m == LatestOf(o) IN
    IF s.loaded THEN [gen |-> s.gen, snap |-> s.snap, graph |-> s.graph, wals |-> s.wals]
    ELSE [gen |-> m.gen, snap |-> m.snap, graph |-> m.graph,
          wals |-> [n \in 1..MaxFiles |-> IF n \in DOMAIN m.wals THEN m.wals[n] ELSE <<>>]]

\* What a shipper knows is in the store, for the files that are still there.
CopyInv(o, w, F, N) ==
    /\ \A n \in 1..MaxFiles : Good(w.wals[n]) /\ (n > N => w.wals[n] = <<>>)
    /\ \A n \in F : Stored(o, n, w.wals[n])
    /\ FilesIn(o, w)

\* The last manifest is whole, and every chunk to come goes behind its chunks.
LatestInv(o, w, N) ==
    LatestOf(o) # NoManifest =>
        /\ ManifestKey(LatestOf(o).gen) \in DOMAIN o
        /\ Whole(o, LatestOf(o))
        /\ \A n \in DOMAIN LatestOf(o).wals : n <= N /\ Begins(LatestOf(o).wals[n], w.wals[n])

\* Manifest m is whole, and for the files S that still grow the last manifest goes on
\* where m ends.
Older(o, m, S, N) ==
    /\ Whole(o, m)
    /\ \A n \in DOMAIN m.wals :
         /\ n <= N
         /\ n \in S => n \in DOMAIN LatestOf(o).wals /\ Begins(m.wals[n], LatestOf(o).wals[n])

HistoryInv(o, S, N) ==
    \A g \in KeptOf(o) : g <= LatestOf(o).gen => Older(o, o[ManifestKey(g)], S, N)

\* Files to which chunks may still be added.
Growing(s, F) == F \cup (IF s.pc = "chunks" THEN {Min(s.todo)} ELSE {})

GenInv(o, s, f) ==
    /\ LatestKey \in DOMAIN o => \A g \in GensOf(o) : g <= o[LatestKey].gen + 1
    /\ s.loaded => \A g \in GensOf(o) : g <= s.gen + 1
    /\ s.loaded /\ LatestKey \in DOMAIN o =>
         /\ s.gen <= o[LatestKey].gen /\ o[LatestKey].gen <= s.gen + 1
         /\ f = 0 => o[LatestKey].gen = s.gen

\* From the build of a manifest to the end of retention the shipper is as it was then.
BuiltInv(o, s, F, N) ==
    /\ s.manifest \in Manifests /\ Whole(o, s.manifest)
    /\ s.manifest.snap = s.snap /\ s.manifest.graph = s.graph
    /\ \A n \in DOMAIN s.manifest.wals : s.manifest.wals[n] = s.wals[n] /\ n <= N
    /\ \A n \in F \ DOMAIN s.manifest.wals : s.wals[n] = <<>> /\ n \notin DOMAIN LatestOf(o).wals

PublishedInv(o, s) ==
    /\ LatestKey \in DOMAIN o /\ o[LatestKey] = s.manifest /\ s.manifest.gen = s.gen
    /\ s.gen \in GensOf(o) /\ \A g \in GensOf(o) : g <= s.gen

PcInv(o, s, F, N) ==
    /\ s.pc # "idle" => s.loaded
    /\ ~s.loaded => s.gen = 0 /\ s.snap = 0 /\ s.graph = 0 /\ s.wals = NoChunks
    /\ s.todo \subseteq 1..N
    /\ s.pc = "chunks" => s.todo # {} /\ Size(s.wals[Min(s.todo)]) < Len(s.open)
    /\ s.pc \in {"latest", "retention", "delete"} => BuiltInv(o, s, F, N)
    /\ s.pc = "latest" =>
         /\ s.manifest.gen = s.gen + 1 /\ s.manifest.gen \in GensOf(o)
         /\ o[ManifestKey(s.manifest.gen)] = s.manifest
    /\ s.pc \in {"retention", "delete"} => PublishedInv(o, s)
    /\ s.pc = "retention" => o[ManifestKey(s.gen)] = s.manifest
    /\ s.pc = "delete" =>
         /\ s.kill \cap (LiveObjects(s.manifest) \cup {LatestKey}) = {}
         /\ \A g \in KeptOf(o) : s.kill \cap LiveObjects(o[ManifestKey(g)]) = {}

Inv(o, s, F, N, f) ==
    /\ ObjsOK(o) /\ HasTop(o) /\ s \in Shippers
    /\ N \in 1..MaxFiles /\ F \subseteq 1..N /\ f \in Nat
    /\ GenInv(o, s, f)
    /\ CopyInv(o, ViewOf(o, s), F, N)
    /\ LatestInv(o, ViewOf(o, s), N)
    /\ PcInv(o, s, F, N)
    /\ f = 0 => HistoryInv(o, Growing(s, F), N)

LEMMA ManifestIs ==
    ASSUME NEW m \in Manifests
    PROVE  /\ m.gen \in Nat \ {0} /\ m.snap \in Nat /\ m.graph \in Nat
           /\ DOMAIN m.wals \subseteq 1..MaxFiles
           /\ \A n \in DOMAIN m.wals : m.wals[n] \in Seq(ChunkRef)
BY DEF Manifests, Wals

LEMMA ViewIs ==
    ASSUME NEW o, ObjsOK(o), HasTop(o), NEW s \in Shippers
    PROVE  /\ ViewOf(o, s) \in Views
           /\ s.loaded => /\ ViewOf(o, s).gen = s.gen /\ ViewOf(o, s).snap = s.snap
                          /\ ViewOf(o, s).graph = s.graph /\ ViewOf(o, s).wals = s.wals
           /\ ~s.loaded =>
                /\ ViewOf(o, s).gen = LatestOf(o).gen /\ ViewOf(o, s).snap = LatestOf(o).snap
                /\ ViewOf(o, s).graph = LatestOf(o).graph
                /\ \A n \in 1..MaxFiles : ViewOf(o, s).wals[n] =
                     IF n \in DOMAIN LatestOf(o).wals THEN LatestOf(o).wals[n] ELSE <<>>
<1>1. CASE s.loaded
  BY <1>1 DEF ViewOf, Views, Shippers
<1>2. CASE ~s.loaded
  <2> DEFINE m == LatestOf(o)
             w == [n \in 1..MaxFiles |-> IF n \in DOMAIN m.wals THEN m.wals[n] ELSE <<>>]
  <2>1. m \in Manifests \/ m = NoManifest
    BY LatestIs
  <2>2. m.gen \in Nat /\ m.snap \in Nat /\ m.graph \in Nat
    BY <2>1, ManifestIs DEF NoManifest
  <2>3. \A n \in DOMAIN m.wals : m.wals[n] \in Seq(ChunkRef)
    <3>1. CASE m = NoManifest
      BY <3>1, EmptySeq DEF NoManifest
    <3> QED
      BY <2>1, <3>1, ManifestIs
  <2>4. <<>> \in Seq(ChunkRef)
    BY EmptySeq
  <2>5. w \in [1..MaxFiles -> Seq(ChunkRef)]
    BY <2>3, <2>4
  <2>6. ViewOf(o, s) = [gen |-> m.gen, snap |-> m.snap, graph |-> m.graph, wals |-> w]
    BY <1>2 DEF ViewOf
  <2> QED
    BY <1>2, <2>2, <2>5, <2>6 DEF Views
<1> QED
  BY <1>1, <1>2

(***************************************************************************)
(* What a step does to the invariant                                       *)
(***************************************************************************)
\* The engine deletes files, and makes one with the next name.
LEMMA FilesStep ==
    ASSUME NEW o, NEW s, NEW F, NEW N, NEW f, Inv(o, s, F, N, f), NEW F2, NEW N2,
           \/ N2 = N /\ F2 \subseteq F
           \/ N2 = N + 1 /\ N2 \in 1..MaxFiles /\ F2 \subseteq F \cup {N2}
    PROVE  Inv(o, s, F2, N2, f)
<1> DEFINE w == ViewOf(o, s)
<1>1. /\ N \in Nat /\ N2 \in 1..MaxFiles /\ N <= N2 /\ F2 \subseteq 1..N2
      /\ \A n \in F2 : n \in F \/ (n = N + 1 /\ n > N /\ n \in 1..MaxFiles)
      /\ \A n \in 1..N : n # N + 1
  <2>1. N \in 1..MaxFiles /\ N \in Nat /\ F \subseteq 1..N
    BY DEF Inv
  <2>2. N2 \in 1..MaxFiles /\ N <= N2 /\ 1..N \subseteq 1..N2
    BY <2>1
  <2>3. F2 \subseteq 1..N2
    <3>1. N2 \in 1..N2 /\ F \subseteq 1..N2
      BY <2>1, <2>2
    <3> QED
      BY <3>1
  <2>4. \A n \in F2 : n \in F \/ (n = N + 1 /\ n > N /\ n \in 1..MaxFiles)
    BY <2>1
  <2> QED
    BY <2>1, <2>2, <2>3, <2>4
<1>2. CopyInv(o, w, F, N) /\ LatestInv(o, w, N) /\ PcInv(o, s, F, N)
  BY DEF Inv
<1>3. CopyInv(o, w, F2, N2)
  <2>1. \A n \in F2 \ F : w.wals[n] = <<>>
    BY <1>1, <1>2 DEF CopyInv
  <2>2. \A n \in F2 \ F : Stored(o, n, w.wals[n])
    BY <2>1, EmptySeq DEF Stored
  <2>3. \A n \in 1..MaxFiles : n > N2 => n > N
    BY <1>1
  <2> QED
    BY <1>1, <1>2, <2>2, <2>3 DEF CopyInv
<1>4. LatestInv(o, w, N2)
  <2>1. LatestOf(o) # NoManifest => \A n \in DOMAIN LatestOf(o).wals : n \in Nat
    BY LatestIs, ManifestIs DEF Inv
  <2> QED
    BY <1>1, <1>2, <2>1 DEF LatestInv
<1>5. \A n \in DOMAIN LatestOf(o).wals : n # N + 1
  <2>1. CASE LatestOf(o) = NoManifest
    BY <2>1, EmptySeq DEF NoManifest
  <2>2. CASE LatestOf(o) # NoManifest
    <3>1. \A n \in DOMAIN LatestOf(o).wals : n \in Nat /\ n <= N
      BY <1>2, <2>2, LatestIs, ManifestIs DEF Inv, LatestInv
    <3> QED
      BY <1>1, <3>1
  <2> QED
    BY <2>1, <2>2
<1>6. ASSUME s.pc \in {"latest", "retention", "delete"} PROVE BuiltInv(o, s, F2, N2)
  <2>1. BuiltInv(o, s, F, N) /\ s.loaded
    BY <1>2, <1>6 DEF PcInv
  <2>2. \A n \in F2 \ F : s.wals[n] = <<>> /\ n \notin DOMAIN LatestOf(o).wals
    BY <1>1, <1>2, <1>5, <2>1, ViewIs DEF CopyInv, Inv
  <2>3. \A n \in DOMAIN s.manifest.wals : n <= N2
    <3>1. \A n \in DOMAIN s.manifest.wals : n \in Nat /\ n <= N
      BY <2>1, ManifestIs DEF BuiltInv
    <3> QED
      BY <1>1, <3>1
  <2> QED
    BY <2>1, <2>2, <2>3 DEF BuiltInv
<1>7. PcInv(o, s, F2, N2)
  <2>1. s.todo \subseteq 1..N2
    BY <1>1, <1>2 DEF PcInv
  <2> QED
    BY <1>2, <1>6, <2>1 DEF PcInv
<1>8. ASSUME HistoryInv(o, Growing(s, F), N) PROVE HistoryInv(o, Growing(s, F2), N2)
  <2> SUFFICES ASSUME NEW g \in KeptOf(o), g <= LatestOf(o).gen
               PROVE  Older(o, o[ManifestKey(g)], Growing(s, F2), N2)
    BY DEF HistoryInv
  <2>1. Older(o, o[ManifestKey(g)], Growing(s, F), N)
    BY <1>8 DEF HistoryInv
  <2>2. o[ManifestKey(g)] \in Manifests
    BY GensAre DEF Inv, ObjsOK, KeptOf
  <2>3. \A n \in DOMAIN o[ManifestKey(g)].wals : n \in Nat /\ n <= N
    BY <2>1, <2>2, ManifestIs DEF Older
  <2>4. \A n \in DOMAIN o[ManifestKey(g)].wals : n <= N2 /\ (n \in Growing(s, F2) => n \in Growing(s, F))
    BY <1>1, <2>3 DEF Growing
  <2> QED
    BY <2>1, <2>4 DEF Older
<1> QED
  BY <1>1, <1>3, <1>4, <1>7, <1>8 DEF Inv

\* A step of the shipper that ends the tick or goes on with it, and ships nothing.
LEMMA QuietStep ==
    ASSUME NEW o, NEW s, NEW F, NEW N, NEW f, Inv(o, s, F, N, f), NEW s2 \in Shippers, NEW f2 \in Nat,
           s2.loaded = s.loaded, s2.gen = s.gen, s2.snap = s.snap, s2.graph = s.graph,
           s2.wals = s.wals, s2.pc \in {"idle", "wals", "graph", "build"},
           s2.pc = "idle" \/ s.loaded, s2.todo \subseteq 1..N, f2 = 0 => f = 0
    PROVE  Inv(o, s2, F, N, f2)
<1>1. ViewOf(o, s2) = ViewOf(o, s)
  BY DEF ViewOf
<1>2. GenInv(o, s2, f2)
  BY DEF Inv, GenInv
<1>3. PcInv(o, s2, F, N)
  BY DEF Inv, PcInv
<1>4. ASSUME HistoryInv(o, Growing(s, F), N) PROVE HistoryInv(o, Growing(s2, F), N)
  BY <1>4 DEF HistoryInv, Older, Growing
<1> QED
  BY <1>1, <1>2, <1>3, <1>4 DEF Inv

\* A shipper reads the last manifest.
LEMMA LoadStep ==
    ASSUME NEW o, NEW s, NEW F, NEW N, NEW f, Inv(o, s, F, N, f), NEW s2 \in Shippers,
           ~s.loaded, s2.loaded, s2.pc = "wals", s2.todo \subseteq 1..N,
           s2.gen = ViewOf(o, s).gen, s2.snap = ViewOf(o, s).snap, s2.graph = ViewOf(o, s).graph,
           s2.wals = ViewOf(o, s).wals
    PROVE  Inv(o, s2, F, N, f)
<1> DEFINE w == ViewOf(o, s)
<1>1. ViewOf(o, s2) = w
  <2>1. w \in Views
    BY ViewIs DEF Inv
  <2>2. w = [gen |-> w.gen, snap |-> w.snap, graph |-> w.graph, wals |-> w.wals]
    BY <2>1 DEF Views
  <2> HIDE DEF w
  <2> QED
    BY <2>2 DEF ViewOf, w
<1>2. s2.gen = LatestOf(o).gen
  BY ViewIs DEF Inv
<1>3. GenInv(o, s2, f)
  <2>1. CASE LatestKey \in DOMAIN o
    <3>1. s2.gen = o[LatestKey].gen /\ s2.gen \in Nat
      BY <1>2, <2>1 DEF LatestOf, Shippers
    <3> QED
      BY <2>1, <3>1 DEF Inv, GenInv
  <2>2. CASE LatestKey \notin DOMAIN o
    <3>1. \A g \in GensOf(o) : g <= s2.gen /\ g \in Nat
      BY <1>2, <2>2, LatestIs, GensAre DEF Inv
    <3>2. s2.gen \in Nat
      BY DEF Shippers
    <3> QED
      BY <2>2, <3>1, <3>2 DEF GenInv
  <2> QED
    BY <2>1, <2>2
<1>4. PcInv(o, s2, F, N)
  BY DEF PcInv
<1>5. ASSUME HistoryInv(o, Growing(s, F), N) PROVE HistoryInv(o, Growing(s2, F), N)
  BY <1>5 DEF HistoryInv, Older, Growing
<1> QED
  BY <1>1, <1>3, <1>4, <1>5 DEF Inv

LEMMA NamesBelow == ASSUME NEW N \in 1..MaxFiles PROVE N \in Nat /\ 1..N \subseteq 1..MaxFiles
BY ShipAssumption

\* Manifest m is whole with a chunk more of a file c, if m goes no further than the
\* chunks cs, behind which the new one lies.
LEMMA ChunkBehind ==
    ASSUME NEW o, NEW m \in Manifests, Whole(o, m), NEW c, NEW cs \in Seq(ChunkRef), Good(cs),
           c \in DOMAIN m.wals => Begins(m.wals[c], cs),
           NEW d, NEW e, e = Extended(o, ChunkKey(c, Size(cs)), d)
    PROVE  Whole(e, m)
<1>1. ASSUME NEW n \in DOMAIN m.wals, NEW j \in DOMAIN m.wals[n],
             ChunkKey(c, Size(cs)) = ChunkKey(n, m.wals[n][j].offset)
      PROVE  FALSE
  <2>1. n = c /\ m.wals[c][j].offset = Size(cs)
    BY <1>1, KeysDiffer
  <2>2. m.wals[c] \in Seq(ChunkRef) /\ Begins(m.wals[c], cs)
    BY <2>1, ManifestIs
  <2>3. j \in DOMAIN cs /\ cs[j] = m.wals[c][j]
    BY <2>1, <2>2, LenProperties DEF Begins
  <2>4. cs[j].offset < Size(cs) /\ cs[j].offset \in Nat
    BY <2>3, OffsetsBelow
  <2> QED
    BY <2>1, <2>3, <2>4
<1> QED
  BY <1>1, WholePut

\* The next chunk of file c is put.
LEMMA PutChunkStep ==
    ASSUME NEW o, NEW s, NEW F, NEW N, NEW f, Inv(o, s, F, N, f),
           s.loaded, s.pc \in {"wals", "chunks"}, NEW c \in 1..N, c \in Growing(s, F),
           NEW d, NEW e, e = Extended(o, ChunkKey(c, Size(s.wals[c])), d)
    PROVE  Inv(e, s, F, N, f)
<1> DEFINE cs == s.wals[c]
           k == ChunkKey(c, Size(cs))
           w == ViewOf(o, s)
           m == LatestOf(o)
<1>0. N \in 1..MaxFiles /\ F \subseteq 1..N /\ ObjsOK(o) /\ HasTop(o) /\ s \in Shippers
  BY DEF Inv
<1>1. c \in 1..MaxFiles /\ c \in Nat /\ F \subseteq 1..MaxFiles
  BY <1>0, NamesBelow
<1>2. /\ w \in Views /\ w.wals = s.wals /\ w.snap = s.snap /\ w.graph = s.graph
      /\ CopyInv(o, w, F, N) /\ LatestInv(o, w, N) /\ PcInv(o, s, F, N)
  BY <1>0, <1>1, ViewIs DEF Inv
<1>3. cs \in Seq(ChunkRef) /\ Good(cs) /\ Size(cs) \in Nat
  BY <1>0, <1>1, <1>2, SizeIs DEF CopyInv, Shippers
<1>4. k \in ChunkKeys
  BY <1>0, <1>1, <1>3 DEF ChunkKeys
<1>5. /\ ObjsOK(e) /\ GensOf(e) = GensOf(o) /\ KeptOf(e) = KeptOf(o)
      /\ LatestOf(e) = m /\ HasTop(e)
      /\ LatestKey \in DOMAIN e <=> LatestKey \in DOMAIN o
      /\ LatestKey \in DOMAIN o => e[LatestKey] = o[LatestKey]
      /\ \A g \in GensOf(o) : e[ManifestKey(g)] = o[ManifestKey(g)]
  BY <1>0, <1>1, <1>4, PutOther
<1>6. DOMAIN e = DOMAIN o \cup {k} /\ \A x \in DOMAIN o \ {k} : e[x] = o[x]
  BY DEF Extended
<1>7. ViewOf(e, s) = w
  BY <1>5 DEF ViewOf
<1>8. CopyInv(e, w, F, N)
  <2>1. FilesIn(e, w)
    BY <1>2, <1>6 DEF CopyInv, FilesIn
  <2>2. ASSUME NEW n \in F PROVE Stored(e, n, w.wals[n])
    <3>1. Stored(o, n, s.wals[n]) /\ s.wals[n] \in Seq(ChunkRef) /\ Good(s.wals[n])
      BY <1>0, <1>1, <1>2 DEF CopyInv, Shippers
    <3>2. ASSUME NEW j \in DOMAIN s.wals[n] PROVE ChunkKey(n, s.wals[n][j].offset) # k
      <4>1. s.wals[n][j].offset < Size(s.wals[n]) /\ s.wals[n][j].offset \in Nat
        BY <3>1, OffsetsBelow
      <4> QED
        BY <1>3, <4>1, KeysDiffer
    <3> QED
      BY <1>2, <1>6, <3>1, <3>2 DEF Stored
  <2> QED
    BY <1>2, <2>1, <2>2 DEF CopyInv
<1>9. ASSUME m # NoManifest PROVE m \in Manifests /\ Whole(o, m) /\ Whole(e, m)
  <2>1. m \in Manifests
    BY <1>0, <1>1, <1>9, LatestIs
  <2>2. Whole(o, m) /\ (c \in DOMAIN m.wals => Begins(m.wals[c], cs))
    BY <1>2, <1>9 DEF LatestInv
  <2>3. Whole(e, m)
    BY <1>3, <2>1, <2>2, ChunkBehind
  <2> QED
    BY <2>1, <2>2, <2>3
<1>10. LatestInv(e, w, N)
  BY <1>2, <1>5, <1>6, <1>9 DEF LatestInv
<1>11. PcInv(e, s, F, N)
  BY <1>2 DEF PcInv
<1>12. ASSUME HistoryInv(o, Growing(s, F), N) PROVE HistoryInv(e, Growing(s, F), N)
  <2> SUFFICES ASSUME NEW g \in KeptOf(e), g <= LatestOf(e).gen
               PROVE  Older(e, e[ManifestKey(g)], Growing(s, F), N)
    BY DEF HistoryInv
  <2> DEFINE q == o[ManifestKey(g)]
  <2>1. g \in GensOf(o) /\ e[ManifestKey(g)] = q /\ q \in Manifests
    BY <1>0, <1>1, <1>5, GensAre DEF KeptOf, ObjsOK
  <2>2. Older(o, q, Growing(s, F), N)
    BY <1>5, <1>12 DEF HistoryInv
  <2>3. ASSUME c \in DOMAIN q.wals PROVE Begins(q.wals[c], cs)
    <3>1. c \in DOMAIN m.wals /\ Begins(q.wals[c], m.wals[c])
      BY <2>2, <2>3 DEF Older
    <3>2. m # NoManifest
      BY <3>1, EmptySeq DEF NoManifest
    <3>3. Begins(m.wals[c], cs)
      BY <1>2, <3>1, <3>2 DEF LatestInv
    <3>4. q.wals[c] \in Seq(ChunkRef) /\ m.wals[c] \in Seq(ChunkRef)
      BY <1>9, <2>1, <2>3, <3>1, <3>2, ManifestIs
    <3> QED
      BY <1>3, <3>1, <3>3, <3>4, BeginsTransitive
  <2>4. Whole(e, q)
    BY <1>3, <2>1, <2>2, <2>3, ChunkBehind DEF Older
  <2> QED
    BY <1>5, <2>1, <2>2, <2>4 DEF Older
<1>13. GenInv(e, s, f)
  BY <1>5 DEF Inv, GenInv
<1> QED
  BY <1>0, <1>1, <1>5, <1>7, <1>8, <1>10, <1>11, <1>12, <1>13 DEF Inv

\* The chunk that was put is recorded.
LEMMA GrowStep ==
    ASSUME NEW o, NEW s, NEW F, NEW N, NEW f, Inv(o, s, F, N, f),
           s.loaded, s.pc \in {"wals", "chunks"}, NEW c \in 1..N, c \in Growing(s, F),
           NEW ref \in ChunkRef, ref.offset = Size(s.wals[c]), ref.size > 0,
           ChunkKey(c, ref.offset) \in DOMAIN o, Len(o[ChunkKey(c, ref.offset)]) = ref.size,
           NEW s2 \in Shippers, s2.loaded, s2.gen = s.gen, s2.snap = s.snap, s2.graph = s.graph,
           s2.wals = [s.wals EXCEPT ![c] = Append(@, ref)],
           s2.todo \subseteq 1..N,
           \/ s2.pc = "wals"
           \/ /\ s2.pc = "chunks" /\ s2.todo # {} /\ Min(s2.todo) = c
              /\ Size(s2.wals[c]) < Len(s2.open)
    PROVE  Inv(o, s2, F, N, f)
<1> DEFINE cs == s.wals[c]
           ds == s2.wals[c]
           w == ViewOf(o, s)
           v == ViewOf(o, s2)
           m == LatestOf(o)
<1>0. N \in 1..MaxFiles /\ F \subseteq 1..N /\ ObjsOK(o) /\ HasTop(o) /\ s \in Shippers
  BY DEF Inv
<1>1. c \in 1..MaxFiles /\ c \in Nat /\ F \subseteq 1..MaxFiles
  BY <1>0, NamesBelow
<1>2. /\ w.wals = s.wals /\ w.snap = s.snap /\ w.graph = s.graph
      /\ v.wals = s2.wals /\ v.snap = s.snap /\ v.graph = s.graph
      /\ CopyInv(o, w, F, N) /\ LatestInv(o, w, N) /\ PcInv(o, s, F, N)
  BY <1>0, <1>1, ViewIs DEF Inv
<1>3. /\ s.wals \in [1..MaxFiles -> Seq(ChunkRef)] /\ cs \in Seq(ChunkRef) /\ Good(cs)
      /\ ds = Append(cs, ref)
      /\ \A n \in 1..MaxFiles \ {c} : s2.wals[n] = s.wals[n]
  <2>1. s.wals \in [1..MaxFiles -> Seq(ChunkRef)]
    BY <1>0 DEF Shippers
  <2>2. cs \in Seq(ChunkRef) /\ Good(cs)
    BY <1>1, <1>2, <2>1 DEF CopyInv
  <2> QED
    BY <1>1, <2>1, <2>2
<1>4. /\ ds \in Seq(ChunkRef) /\ Good(ds) /\ Begins(cs, ds)
      /\ DOMAIN ds = DOMAIN cs \cup {Len(cs) + 1}
      /\ ds[Len(cs) + 1] = ref
  <2>1. cs \in Seq(ChunkRef)
    BY <1>3
  <2>2. Good(cs)
    BY <1>3
  <2>3. ref.offset = Size(cs) /\ ref.size > 0 /\ ref \in ChunkRef
    OBVIOUS
  <2>4. ds = Append(cs, ref)
    BY <1>3
  <2> HIDE DEF cs, ds
  <2> QED
    BY <2>1, <2>2, <2>3, <2>4, GoodAppend, Zenon
<1>5. CopyInv(o, v, F, N)
  <2>1. \A n \in 1..MaxFiles : Good(v.wals[n]) /\ (n > N => v.wals[n] = <<>>)
    BY <1>0, <1>1, <1>2, <1>3, <1>4 DEF CopyInv
  <2>2. ASSUME NEW n \in F PROVE Stored(o, n, v.wals[n])
    <3>1. Stored(o, n, s.wals[n]) /\ n \in 1..MaxFiles
      BY <1>0, <1>1, <1>2 DEF CopyInv
    <3>2. CASE n # c
      BY <1>2, <1>3, <3>1, <3>2
    <3>3. CASE n = c
      <4>1. \A j \in DOMAIN cs : ds[j] = cs[j]
        BY <1>4 DEF Begins
      <4> QED
        BY <1>2, <1>4, <3>1, <3>3, <4>1 DEF Stored
    <3> QED
      BY <3>2, <3>3
  <2>3. FilesIn(o, v)
    BY <1>2 DEF CopyInv, FilesIn
  <2> QED
    BY <2>1, <2>2, <2>3 DEF CopyInv
<1>6. LatestInv(o, v, N)
  <2> SUFFICES ASSUME m # NoManifest, NEW n \in DOMAIN m.wals PROVE Begins(m.wals[n], v.wals[n])
    BY <1>2 DEF LatestInv
  <2>1. Begins(m.wals[n], s.wals[n]) /\ m.wals[n] \in Seq(ChunkRef) /\ n \in 1..MaxFiles
    BY <1>0, <1>1, <1>2, LatestIs, ManifestIs DEF LatestInv
  <2>2. CASE n # c
    BY <1>2, <1>3, <2>1, <2>2
  <2>3. CASE n = c
    <3>1. Begins(m.wals[n], cs)
      BY <2>1, <2>3
    <3>2. Begins(m.wals[n], ds)
      BY <1>3, <1>4, <2>1, <3>1, BeginsTransitive
    <3> QED
      BY <1>2, <2>3, <3>2
  <2> QED
    BY <2>2, <2>3
<1>7. PcInv(o, s2, F, N)
  BY DEF PcInv
<1>8. ASSUME HistoryInv(o, Growing(s, F), N) PROVE HistoryInv(o, Growing(s2, F), N)
  <2>1. Growing(s2, F) \subseteq Growing(s, F)
    BY DEF Growing
  <2> QED
    BY <1>8, <2>1 DEF HistoryInv, Older
<1>9. GenInv(o, s2, f)
  BY DEF Inv, GenInv
<1> QED
  BY <1>0, <1>1, <1>5, <1>6, <1>7, <1>8, <1>9 DEF Inv

\* Nothing that was in store o is gone from e or is another but for key k, which is no
\* chunk's.
LEMMA CopyPut ==
    ASSUME NEW o, NEW w, NEW F, NEW N, CopyInv(o, w, F, N), NEW k,
           \A n, offset : k # ChunkKey(n, offset), NEW d, NEW e, e = Extended(o, k, d)
    PROVE  CopyInv(e, w, F, N) /\ \A m : Whole(o, m) => Whole(e, m)
<1>1. DOMAIN e = DOMAIN o \cup {k} /\ \A x \in DOMAIN o \ {k} : e[x] = o[x]
  BY DEF Extended
<1>2. \A n \in F : Stored(e, n, w.wals[n])
  BY <1>1 DEF CopyInv, Stored
<1>3. FilesIn(e, w)
  BY <1>1 DEF CopyInv, FilesIn
<1>4. ASSUME NEW m, Whole(o, m) PROVE Whole(e, m)
  BY <1>4, WholePut
<1> QED
  BY <1>2, <1>3, <1>4 DEF CopyInv

\* snapshot.wal or graph_leveled.bin is put.
LEMMA PutFileStep ==
    ASSUME NEW o, NEW s, NEW F, NEW N, NEW f, Inv(o, s, F, N, f), s.pc \in {"wals", "graph"},
           NEW k \in FileKeys, NEW d, NEW e, e = Extended(o, k, d)
    PROVE  Inv(e, s, F, N, f)
<1>1. ObjsOK(o) /\ HasTop(o)
  BY DEF Inv
<1>2. /\ ObjsOK(e) /\ GensOf(e) = GensOf(o) /\ KeptOf(e) = KeptOf(o)
      /\ LatestOf(e) = LatestOf(o) /\ HasTop(e)
      /\ LatestKey \in DOMAIN e <=> LatestKey \in DOMAIN o
      /\ LatestKey \in DOMAIN o => e[LatestKey] = o[LatestKey]
      /\ \A g \in GensOf(o) : e[ManifestKey(g)] = o[ManifestKey(g)]
  BY <1>1, PutOther
<1>3. \A n, offset : k # ChunkKey(n, offset)
  BY KeysDiffer
<1>4. ViewOf(e, s) = ViewOf(o, s)
  BY <1>2 DEF ViewOf
<1>5. CopyInv(e, ViewOf(o, s), F, N) /\ \A m : Whole(o, m) => Whole(e, m)
  BY <1>3, CopyPut DEF Inv
<1>6. DOMAIN o \subseteq DOMAIN e
  BY DEF Extended
<1>7. LatestInv(e, ViewOf(o, s), N)
  BY <1>2, <1>5, <1>6 DEF Inv, LatestInv
<1>8. PcInv(e, s, F, N)
  BY DEF Inv, PcInv
<1>9. GenInv(e, s, f)
  BY <1>2 DEF Inv, GenInv
<1>10. ASSUME HistoryInv(o, Growing(s, F), N) PROVE HistoryInv(e, Growing(s, F), N)
  <2>1. \A g \in KeptOf(o) : e[ManifestKey(g)] = o[ManifestKey(g)]
    BY <1>2 DEF KeptOf
  <2> QED
    BY <1>2, <1>5, <1>10, <2>1 DEF HistoryInv, Older
<1> QED
  BY <1>2, <1>4, <1>5, <1>7, <1>8, <1>9, <1>10 DEF Inv

\* Its fingerprint is recorded.
LEMMA FileStep ==
    ASSUME NEW o, NEW s, NEW F, NEW N, NEW f, Inv(o, s, F, N, f), s.pc \in {"wals", "graph"},
           NEW s2 \in Shippers, s2.loaded, s2.gen = s.gen, s2.wals = s.wals, FilesIn(o, s2),
           s2.pc \in {"graph", "build"}, s2.todo \subseteq 1..N
    PROVE  Inv(o, s2, F, N, f)
<1>0. ObjsOK(o) /\ HasTop(o) /\ s \in Shippers /\ s.loaded
  BY DEF Inv, PcInv
<1>1. /\ ViewOf(o, s).wals = s.wals /\ ViewOf(o, s2).wals = s.wals
      /\ ViewOf(o, s2).snap = s2.snap /\ ViewOf(o, s2).graph = s2.graph
  BY <1>0, ViewIs
<1>2. CopyInv(o, ViewOf(o, s2), F, N)
  BY <1>1 DEF Inv, CopyInv, FilesIn
<1>3. LatestInv(o, ViewOf(o, s2), N)
  BY <1>1 DEF Inv, LatestInv
<1>4. PcInv(o, s2, F, N)
  BY DEF PcInv
<1>5. GenInv(o, s2, f)
  BY <1>0 DEF Inv, GenInv
<1>6. Growing(s2, F) = Growing(s, F)
  BY DEF Growing
<1> QED
  BY <1>0, <1>2, <1>3, <1>4, <1>5, <1>6 DEF Inv

\* The manifest of what the shipper knows is put under its generation.
Builds(m, s, F) ==
    /\ m \in Manifests /\ m.gen = s.gen + 1 /\ m.snap = s.snap /\ m.graph = s.graph
    /\ DOMAIN m.wals = F /\ \A n \in F : m.wals[n] = s.wals[n]

LEMMA PutGenStep ==
    ASSUME NEW o, NEW s, NEW F, NEW N, NEW f, Inv(o, s, F, N, f), s.pc = "build",
           NEW m, Builds(m, s, F), NEW e, e = Extended(o, ManifestKey(m.gen), m)
    PROVE  /\ Inv(e, s, F, N, f) /\ Whole(e, m)
           /\ m.gen \in GensOf(e) /\ e[ManifestKey(m.gen)] = m
<1> DEFINE w == ViewOf(o, s)
           l == LatestOf(o)
<1>1. /\ ObjsOK(o) /\ HasTop(o) /\ s \in Shippers /\ s.loaded /\ s.gen \in Nat
      /\ N \in 1..MaxFiles /\ F \subseteq 1..N /\ f \in Nat
      /\ GenInv(o, s, f) /\ CopyInv(o, w, F, N) /\ LatestInv(o, w, N)
      /\ f = 0 => HistoryInv(o, Growing(s, F), N)
  BY DEF Inv, PcInv, Shippers
<1>2. /\ w.wals = s.wals /\ w.snap = s.snap /\ w.graph = s.graph
      /\ s.wals \in [1..MaxFiles -> Seq(ChunkRef)] /\ N \in Nat /\ 1..N \subseteq 1..MaxFiles
  <2>1. N \in Nat /\ 1..N \subseteq 1..MaxFiles
    BY <1>1, NamesBelow
  <2>2. s.wals \in [1..MaxFiles -> Seq(ChunkRef)]
    BY <1>1 DEF Shippers
  <2> QED
    BY <1>1, <2>1, <2>2, ViewIs
<1>3. \A h \in GensOf(o) : h <= m.gen /\ h \in Nat
  BY <1>1, GensAre DEF GenInv, Builds
<1>4. /\ ObjsOK(e) /\ HasTop(e) /\ GensOf(e) = GensOf(o) \cup {m.gen}
      /\ LatestOf(e) = IF LatestKey \in DOMAIN o THEN l ELSE m
      /\ LatestKey \in DOMAIN e <=> LatestKey \in DOMAIN o
      /\ LatestKey \in DOMAIN o => e[LatestKey] = o[LatestKey]
      /\ ManifestKey(m.gen) \in DOMAIN e /\ e[ManifestKey(m.gen)] = m
      /\ \A g \in GensOf(o) \ {m.gen} : e[ManifestKey(g)] = o[ManifestKey(g)]
      /\ KeptOf(e) \subseteq KeptOf(o) \cup {m.gen}
  BY <1>1, <1>3, PutGen DEF Builds
<1>5. \A n, offset : ManifestKey(m.gen) # ChunkKey(n, offset)
  BY KeyTags
<1>6. CopyInv(e, w, F, N) /\ \A q : Whole(o, q) => Whole(e, q)
  BY <1>1, <1>5, CopyPut
<1>7. Whole(o, m)
  BY <1>1, <1>2 DEF CopyInv, Whole, FilesIn, Builds
<1>8. Whole(e, m)
  BY <1>6, <1>7
<1>9. \A n \in F : m.wals[n] \in Seq(ChunkRef) /\ Begins(m.wals[n], s.wals[n]) /\ n <= N
  <2>1. ASSUME NEW n \in F PROVE n \in 1..MaxFiles /\ n <= N /\ m.wals[n] = s.wals[n]
    BY <1>1, <1>2 DEF Builds
  <2>2. \A n \in F : s.wals[n] \in Seq(ChunkRef)
    BY <1>2, <2>1
  <2> QED
    BY <2>1, <2>2, BeginsItself
<1>10. DOMAIN o \subseteq DOMAIN e
  BY DEF Extended
<1>11. LatestInv(e, w, N)
  <2>1. CASE LatestKey \in DOMAIN o
    BY <1>1, <1>4, <1>6, <1>10, <2>1 DEF LatestInv
  <2>2. CASE LatestKey \notin DOMAIN o
    BY <1>2, <1>4, <1>8, <1>9, <2>2 DEF LatestInv, Builds
  <2> QED
    BY <2>1, <2>2
<1>12. GenInv(e, s, f)
  <2>1. LatestKey \in DOMAIN o =>
          o[LatestKey].gen \in Nat /\ s.gen <= o[LatestKey].gen /\ m.gen <= o[LatestKey].gen + 1
    BY <1>1, ManifestIs DEF GenInv, ObjsOK, Builds
  <2> QED
    BY <1>1, <1>4, <2>1 DEF GenInv, Builds
<1>13. PcInv(e, s, F, N)
  BY DEF PcInv, Inv
<1>14. ASSUME f = 0 PROVE HistoryInv(e, Growing(s, F), N)
  <2>0. Growing(s, F) = F /\ HistoryInv(o, F, N)
    BY <1>1, <1>14 DEF Growing
  <2> SUFFICES ASSUME NEW g \in KeptOf(e), g <= LatestOf(e).gen
               PROVE  Older(e, e[ManifestKey(g)], F, N)
    BY <2>0 DEF HistoryInv
  <2>1. CASE g = m.gen
    <3>1. LatestKey \notin DOMAIN o
      <4>1. LatestKey \in DOMAIN o => LatestOf(e).gen = s.gen
        BY <1>1, <1>4, <1>14 DEF GenInv, LatestOf
      <4> QED
        BY <1>1, <2>1, <4>1 DEF Builds
    <3>2. LatestOf(e) = m
      BY <1>4, <3>1
    <3>3. \A n \in F : Begins(m.wals[n], m.wals[n])
      BY <1>9, BeginsItself
    <3> QED
      BY <1>4, <1>8, <1>9, <2>1, <3>2, <3>3 DEF Older, Builds
  <2>2. CASE g # m.gen
    <3> DEFINE q == o[ManifestKey(g)]
    <3>1. g \in KeptOf(o) /\ g \in GensOf(o) /\ e[ManifestKey(g)] = q /\ q \in Manifests
      BY <1>1, <1>4, <2>2, GensAre DEF KeptOf, ObjsOK
    <3>2. g <= l.gen /\ l \in Manifests
      BY <1>1, <1>4, <3>1, LatestIs
    <3>3. Older(o, q, F, N)
      BY <2>0, <3>1, <3>2 DEF HistoryInv
    <3>4. ASSUME NEW n \in DOMAIN q.wals, n \in F
          PROVE  n \in DOMAIN LatestOf(e).wals /\ Begins(q.wals[n], LatestOf(e).wals[n])
      <4>1. n \in DOMAIN l.wals /\ Begins(q.wals[n], l.wals[n])
        BY <3>3, <3>4 DEF Older
      <4>2. CASE LatestKey \in DOMAIN o
        BY <1>4, <4>1, <4>2
      <4>3. CASE LatestKey \notin DOMAIN o
        <5>1. Begins(l.wals[n], s.wals[n])
          BY <1>1, <1>2, <3>2, <4>1, LatestIs DEF LatestInv
        <5>2. /\ q.wals[n] \in Seq(ChunkRef) /\ l.wals[n] \in Seq(ChunkRef)
              /\ s.wals[n] \in Seq(ChunkRef)
          BY <1>1, <1>2, <3>1, <3>2, <3>4, <4>1, ManifestIs
        <5>3. Begins(q.wals[n], s.wals[n])
          BY <4>1, <5>1, <5>2, BeginsTransitive
        <5> QED
          BY <1>4, <3>4, <4>3, <5>3 DEF Builds
      <4> QED
        BY <4>2, <4>3
    <3>5. Whole(e, q)
      BY <1>6, <3>3 DEF Older
    <3> QED
      BY <3>1, <3>3, <3>4, <3>5 DEF Older
  <2> QED
    BY <2>1, <2>2
<1>15. ViewOf(e, s) = w
  BY <1>1 DEF ViewOf
<1> QED
  BY <1>1, <1>4, <1>6, <1>8, <1>11, <1>12, <1>13, <1>14, <1>15 DEF Inv

\* The shipper goes on to MANIFEST.json.
LEMMA BuiltStep ==
    ASSUME NEW o, NEW s, NEW F, NEW N, NEW f, Inv(o, s, F, N, f), s.pc = "build",
           NEW m, Builds(m, s, F), Whole(o, m), m.gen \in GensOf(o), o[ManifestKey(m.gen)] = m,
           NEW s2 \in Shippers, s2.loaded, s2.gen = s.gen, s2.snap = s.snap, s2.graph = s.graph,
           s2.wals = s.wals, s2.pc = "latest", s2.manifest = m, s2.todo \subseteq 1..N
    PROVE  Inv(o, s2, F, N, f)
<1>1. s.loaded /\ N \in 1..MaxFiles /\ F \subseteq 1..N
  BY DEF Inv, PcInv
<1>2. ViewOf(o, s2) = ViewOf(o, s)
  BY <1>1 DEF ViewOf
<1>3. BuiltInv(o, s2, F, N)
  <2>1. \A n \in F : n <= N
    BY <1>1, NamesBelow
  <2> QED
    BY <2>1 DEF BuiltInv, Builds
<1>4. PcInv(o, s2, F, N)
  BY <1>3 DEF PcInv, Builds
<1>5. GenInv(o, s2, f)
  BY <1>1 DEF Inv, GenInv
<1>6. Growing(s2, F) = Growing(s, F)
  BY DEF Growing
<1> QED
  BY <1>2, <1>4, <1>5, <1>6 DEF Inv

\* MANIFEST.json is put: what then holds of the store, with or without an answer.
LEMMA PutTopStep ==
    ASSUME NEW o, NEW s, NEW F, NEW N, NEW f, Inv(o, s, F, N, f), s.pc = "latest",
           NEW m, m = s.manifest, NEW e, e = Extended(o, LatestKey, m)
    PROVE  /\ ObjsOK(e) /\ HasTop(e) /\ GensOf(e) = GensOf(o)
           /\ LatestKey \in DOMAIN e /\ e[LatestKey] = m
           /\ CopyInv(e, ViewOf(o, s), F, N) /\ LatestInv(e, ViewOf(o, s), N)
           /\ BuiltInv(e, s, F, N) /\ e[ManifestKey(m.gen)] = m
           /\ f = 0 => HistoryInv(e, F, N)
<1> DEFINE w == ViewOf(o, s)
           l == LatestOf(o)
<1>1. /\ ObjsOK(o) /\ HasTop(o) /\ s \in Shippers /\ s.loaded /\ s.gen \in Nat
      /\ N \in 1..MaxFiles /\ F \subseteq 1..N /\ f \in Nat
      /\ GenInv(o, s, f) /\ CopyInv(o, w, F, N) /\ LatestInv(o, w, N)
      /\ f = 0 => HistoryInv(o, Growing(s, F), N)
  BY DEF Inv, PcInv, Shippers
<1>2. /\ m \in Manifests /\ m.gen = s.gen + 1 /\ m.gen \in GensOf(o)
      /\ o[ManifestKey(m.gen)] = m /\ BuiltInv(o, s, F, N)
  BY DEF Inv, PcInv, BuiltInv
<1>3. w.wals = s.wals
  BY <1>1, ViewIs
<1>4. /\ ObjsOK(e) /\ HasTop(e) /\ GensOf(e) = GensOf(o) /\ KeptOf(e) = KeptOf(o)
      /\ LatestOf(e) = m /\ LatestKey \in DOMAIN e /\ e[LatestKey] = m
      /\ \A g : ManifestKey(g) \in DOMAIN e <=> ManifestKey(g) \in DOMAIN o
      /\ \A g \in GensOf(o) : e[ManifestKey(g)] = o[ManifestKey(g)]
  BY <1>1, <1>2, PutTop
<1>5. \A n, offset : LatestKey # ChunkKey(n, offset)
  BY KeyTags
<1>6. CopyInv(e, w, F, N) /\ \A q : Whole(o, q) => Whole(e, q)
  BY <1>1, <1>5, CopyPut
<1>7. BuiltInv(e, s, F, N)
  BY <1>2, <1>4, <1>6 DEF BuiltInv
<1>8. \A n \in DOMAIN m.wals :
        /\ m.wals[n] = s.wals[n] /\ m.wals[n] \in Seq(ChunkRef) /\ n <= N
        /\ Begins(m.wals[n], m.wals[n])
  BY <1>2, ManifestIs, BeginsItself DEF BuiltInv
<1>9. LatestInv(e, w, N)
  <2>1. ManifestKey(m.gen) \in DOMAIN e
    BY <1>1, <1>2, <1>4, GensAre
  <2> QED
    BY <1>3, <1>4, <1>7, <1>8, <2>1 DEF LatestInv, BuiltInv
<1>10. ASSUME f = 0 PROVE HistoryInv(e, F, N)
  <2>0. Growing(s, F) = F /\ HistoryInv(o, F, N)
    BY <1>1, <1>10 DEF Growing
  <2> SUFFICES ASSUME NEW g \in KeptOf(e), g <= m.gen
               PROVE  Older(e, e[ManifestKey(g)], F, N)
    BY <1>4 DEF HistoryInv
  <2>1. CASE g = m.gen
    BY <1>2, <1>4, <1>7, <1>8, <2>1 DEF Older, BuiltInv
  <2>2. CASE g # m.gen
    <3> DEFINE q == o[ManifestKey(g)]
    <3>1. g \in KeptOf(o) /\ g \in GensOf(o) /\ e[ManifestKey(g)] = q /\ q \in Manifests /\ g \in Nat
      BY <1>1, <1>4, GensAre DEF KeptOf, ObjsOK
    <3>2. g <= l.gen /\ l \in Manifests
      <4>1. CASE LatestKey \in DOMAIN o
        BY <1>1, <1>2, <1>10, <2>2, <3>1, <4>1 DEF GenInv, LatestOf, ObjsOK
      <4>2. CASE LatestKey \notin DOMAIN o
        BY <1>1, <3>1, <4>2, LatestIs
      <4> QED
        BY <4>1, <4>2
    <3>3. Older(o, q, F, N)
      BY <2>0, <3>1, <3>2 DEF HistoryInv
    <3>4. ASSUME NEW n \in DOMAIN q.wals, n \in F
          PROVE  n \in DOMAIN m.wals /\ Begins(q.wals[n], m.wals[n])
      <4>1. n \in DOMAIN l.wals /\ Begins(q.wals[n], l.wals[n])
        BY <3>3, <3>4 DEF Older
      <4>2. n \in DOMAIN m.wals
        BY <1>2, <3>4, <4>1 DEF BuiltInv
      <4>3. Begins(l.wals[n], m.wals[n])
        BY <1>1, <1>3, <1>8, <3>2, <4>1, <4>2, LatestIs DEF LatestInv
      <4>4. q.wals[n] \in Seq(ChunkRef) /\ l.wals[n] \in Seq(ChunkRef) /\ m.wals[n] \in Seq(ChunkRef)
        BY <1>8, <3>1, <3>2, <3>4, <4>1, <4>2, ManifestIs
      <4>5. Begins(q.wals[n], m.wals[n])
        BY <4>1, <4>3, <4>4, BeginsTransitive
      <4> QED
        BY <4>2, <4>5
    <3>5. Whole(e, q)
      BY <1>6, <3>3 DEF Older
    <3> QED
      BY <1>4, <3>1, <3>3, <3>4, <3>5 DEF Older
  <2> QED
    BY <2>1, <2>2
<1> QED
  BY <1>2, <1>4, <1>6, <1>7, <1>9, <1>10

\* It is put, and the call says that it failed.
LEMMA TopFails ==
    ASSUME NEW o, NEW s, NEW F, NEW N, NEW f, Inv(o, s, F, N, f), s.pc = "latest",
           NEW e, e = Extended(o, LatestKey, s.manifest),
           NEW s2 \in Shippers, s2.loaded = s.loaded, s2.gen = s.gen, s2.snap = s.snap,
           s2.graph = s.graph, s2.wals = s.wals, s2.pc = "idle", s2.todo \subseteq 1..N,
           NEW f2 \in Nat \ {0}
    PROVE  Inv(e, s2, F, N, f2)
<1>1. /\ ObjsOK(e) /\ HasTop(e) /\ GensOf(e) = GensOf(o)
      /\ LatestKey \in DOMAIN e /\ e[LatestKey] = s.manifest
      /\ CopyInv(e, ViewOf(o, s), F, N) /\ LatestInv(e, ViewOf(o, s), N)
  BY PutTopStep
<1>2. s.loaded /\ s.manifest.gen = s.gen + 1 /\ s.gen \in Nat
  BY DEF Inv, PcInv, Shippers
<1>3. ViewOf(e, s2) = ViewOf(o, s)
  BY <1>2 DEF ViewOf
<1>4. \A g \in GensOf(o) : g <= s.gen + 1 /\ g \in Nat
  BY <1>2, GensAre DEF Inv, GenInv
<1>5. GenInv(e, s2, f2)
  BY <1>1, <1>2, <1>4 DEF GenInv
<1>6. PcInv(e, s2, F, N)
  BY <1>2 DEF PcInv
<1> QED
  BY <1>1, <1>3, <1>5, <1>6 DEF Inv

\* It is put, and the shipper goes on to retention or ends the tick.
LEMMA TopStep ==
    ASSUME NEW o, NEW s, NEW F, NEW N, NEW f, Inv(o, s, F, N, f), s.pc = "latest",
           NEW e, e = Extended(o, LatestKey, s.manifest),
           NEW s2 \in Shippers, s2.loaded, s2.gen = s.gen + 1, s2.snap = s.snap,
           s2.graph = s.graph, s2.wals = s.wals, s2.todo \subseteq 1..N,
           s2.pc = "idle" \/ (s2.pc = "retention" /\ s2.manifest = s.manifest)
    PROVE  Inv(e, s2, F, N, f)
<1>1. /\ ObjsOK(e) /\ HasTop(e) /\ GensOf(e) = GensOf(o)
      /\ LatestKey \in DOMAIN e /\ e[LatestKey] = s.manifest
      /\ CopyInv(e, ViewOf(o, s), F, N) /\ LatestInv(e, ViewOf(o, s), N)
      /\ BuiltInv(e, s, F, N) /\ e[ManifestKey(s.manifest.gen)] = s.manifest
      /\ f = 0 => HistoryInv(e, F, N)
  BY PutTopStep
<1>2. /\ s.loaded /\ s.manifest.gen = s.gen + 1 /\ s.gen \in Nat /\ s.manifest.gen \in GensOf(o)
      /\ ObjsOK(o) /\ HasTop(o) /\ s \in Shippers
  BY DEF Inv, PcInv, Shippers
<1>3. /\ ViewOf(e, s2).wals = ViewOf(o, s).wals /\ ViewOf(e, s2).snap = ViewOf(o, s).snap
      /\ ViewOf(e, s2).graph = ViewOf(o, s).graph
  BY <1>1, <1>2, ViewIs
<1>4. \A g \in GensOf(o) : g <= s2.gen /\ g \in Nat
  BY <1>2, GensAre DEF Inv, GenInv
<1>5. GenInv(e, s2, f)
  BY <1>1, <1>2, <1>4 DEF GenInv
<1>6. PcInv(e, s2, F, N)
  <2>1. s2.pc = "retention" => BuiltInv(e, s2, F, N)
    BY <1>1 DEF BuiltInv
  <2>2. s2.pc = "retention" => PublishedInv(e, s2)
    BY <1>1, <1>2, <1>4 DEF PublishedInv
  <2> QED
    BY <1>1, <1>2, <2>1, <2>2 DEF PcInv
<1>7. Growing(s2, F) = F
  BY DEF Growing
<1>8. CopyInv(e, ViewOf(e, s2), F, N) /\ LatestInv(e, ViewOf(e, s2), N)
  BY <1>1, <1>3 DEF CopyInv, LatestInv, FilesIn
<1> QED
  BY <1>1, <1>5, <1>6, <1>7, <1>8 DEF Inv

LiveOf(o) == {LatestKey} \cup UNION {LiveObjects(o[ManifestKey(g)]) : g \in KeptOf(o)}

LEMMA ManifestLive == ASSUME NEW m PROVE ManifestKey(m.gen) \in LiveObjects(m)
BY DEF LiveObjects

\* While retention runs, the last manifest is the one that the shipper has published.
LEMMA PublishedIs ==
    ASSUME NEW o, NEW s, NEW F, NEW N, NEW f, Inv(o, s, F, N, f), s.pc \in {"retention", "delete"}
    PROVE  /\ s.loaded /\ s \in Shippers /\ ObjsOK(o) /\ HasTop(o)
           /\ s.manifest \in Manifests /\ LatestOf(o) = s.manifest /\ s.manifest # NoManifest
           /\ s.manifest.gen = s.gen /\ s.gen \in Nat
           /\ LatestKey \in DOMAIN o /\ o[LatestKey] = s.manifest
           /\ s.gen \in KeptOf(o) /\ s.gen \in GensOf(o) /\ \A g \in GensOf(o) : g <= s.gen
           /\ IsFiniteSet(GensOf(o))
           /\ BuiltInv(o, s, F, N)
<1>1. /\ s.loaded /\ s \in Shippers /\ ObjsOK(o) /\ HasTop(o) /\ BuiltInv(o, s, F, N)
      /\ PublishedInv(o, s) /\ s.gen \in Nat
  BY DEF Inv, PcInv, Shippers
<1>2. s.manifest \in Manifests /\ LatestOf(o) = s.manifest /\ s.manifest # NoManifest
  BY <1>1, LatestIs DEF BuiltInv, PublishedInv, LatestOf
<1>3. s.gen \in KeptOf(o)
  BY <1>1, TopKept DEF PublishedInv
<1>4. IsFiniteSet(GensOf(o))
  BY <1>1, GensFinite DEF PublishedInv
<1> QED
  BY <1>1, <1>2, <1>3, <1>4 DEF PublishedInv

\* Retention is to delete what no manifest that is kept has.
LEMMA RetentionStep ==
    ASSUME NEW o, NEW s, NEW F, NEW N, NEW f, Inv(o, s, F, N, f), s.pc \in {"retention", "delete"},
           NEW s2 \in Shippers, s2.loaded, s2.gen = s.gen, s2.snap = s.snap, s2.graph = s.graph,
           s2.wals = s.wals, s2.manifest = s.manifest, s2.pc = "delete", s2.todo \subseteq 1..N,
           \/ s.pc = "retention" /\ s2.kill \cap LiveOf(o) = {}
           \/ s.pc = "delete" /\ s2.kill \subseteq s.kill
    PROVE  Inv(o, s2, F, N, f)
<1>1. s.loaded /\ s.gen \in KeptOf(o)
  BY PublishedIs
<1>2. ViewOf(o, s2) = ViewOf(o, s)
  BY <1>1 DEF ViewOf
<1>3. /\ s2.kill \cap (LiveObjects(s.manifest) \cup {LatestKey}) = {}
      /\ \A g \in KeptOf(o) : s2.kill \cap LiveObjects(o[ManifestKey(g)]) = {}
  <2>1. CASE s.pc = "retention"
    <3>1. o[ManifestKey(s.gen)] = s.manifest
      BY <2>1 DEF Inv, PcInv
    <3>2. /\ LatestKey \in LiveOf(o)
          /\ \A g \in KeptOf(o) : LiveObjects(o[ManifestKey(g)]) \subseteq LiveOf(o)
      BY DEF LiveOf
    <3> QED
      BY <1>1, <2>1, <3>1, <3>2
  <2>2. CASE s.pc = "delete"
    BY <2>2 DEF Inv, PcInv
  <2> QED
    BY <2>1, <2>2
<1>4. BuiltInv(o, s2, F, N) /\ PublishedInv(o, s2)
  BY DEF Inv, PcInv, BuiltInv, PublishedInv
<1>5. PcInv(o, s2, F, N)
  BY <1>3, <1>4 DEF PcInv
<1>6. GenInv(o, s2, f)
  BY <1>1 DEF Inv, GenInv
<1>7. Growing(s2, F) = Growing(s, F)
  BY DEF Growing
<1> QED
  BY <1>2, <1>5, <1>6, <1>7 DEF Inv

\* An object is deleted.
LEMMA DeleteStep ==
    ASSUME NEW o, NEW s, NEW F, NEW N, NEW f, Inv(o, s, F, N, f), s.pc = "delete",
           NEW k \in s.kill, NEW e, e = Except(o, {k})
    PROVE  /\ Inv(e, s, F, N, f)
           /\ LiveObjects(s.manifest) \subseteq DOMAIN e
<1> DEFINE m == s.manifest
           w == ViewOf(o, s)
<1>1. /\ s.loaded /\ s \in Shippers /\ ObjsOK(o) /\ HasTop(o)
      /\ m \in Manifests /\ LatestOf(o) = m /\ m # NoManifest
      /\ m.gen = s.gen /\ s.gen \in Nat /\ LatestKey \in DOMAIN o /\ o[LatestKey] = m
      /\ s.gen \in KeptOf(o) /\ s.gen \in GensOf(o) /\ \A g \in GensOf(o) : g <= s.gen
      /\ IsFiniteSet(GensOf(o)) /\ BuiltInv(o, s, F, N)
  BY PublishedIs
<1>2. /\ k \notin LiveObjects(m) /\ k # LatestKey
      /\ \A g \in KeptOf(o) : k \notin LiveObjects(o[ManifestKey(g)])
  BY DEF Inv, PcInv
<1>3. \A g \in KeptOf(o) : g \in GensOf(o) /\ o[ManifestKey(g)] \in Manifests /\ o[ManifestKey(g)].gen = g
  BY <1>1, GensAre DEF KeptOf, ObjsOK
<1>4. \A g \in KeptOf(o) : k # ManifestKey(g)
  BY <1>2, <1>3, ManifestLive
<1>5. /\ ObjsOK(e) /\ HasTop(e) /\ GensOf(e) \subseteq GensOf(o) /\ KeptOf(e) \subseteq KeptOf(o)
      /\ LatestOf(e) = m /\ LatestKey \in DOMAIN e /\ e[LatestKey] = m
      /\ \A g \in GensOf(e) : e[ManifestKey(g)] = o[ManifestKey(g)]
  <2>1. /\ ObjsOK(e) /\ HasTop(e) /\ GensOf(e) \subseteq GensOf(o) /\ KeptOf(e) \subseteq KeptOf(o)
        /\ LatestOf(e) = LatestOf(o) /\ LatestKey \in DOMAIN e /\ e[LatestKey] = o[LatestKey]
        /\ \A g \in GensOf(e) : e[ManifestKey(g)] = o[ManifestKey(g)]
    <3>1. k \notin KeptKeys(o)
      BY <1>4 DEF KeptKeys
    <3> QED
      BY <1>1, <1>2, <3>1, Deleted
  <2> QED
    BY <1>1, <2>1
<1>6. DOMAIN e = DOMAIN o \ {k}
  BY DEF Except
<1>7. ManifestKey(s.gen) \in DOMAIN e /\ s.gen \in GensOf(e)
  BY <1>1, <1>4, <1>5, <1>6, GensAre
<1>8. Whole(o, m) /\ Whole(e, m)
  BY <1>1, <1>2, WholeDelete DEF BuiltInv
<1>9. /\ w.wals = s.wals /\ w.snap = s.snap /\ w.graph = s.graph
      /\ CopyInv(o, w, F, N) /\ LatestInv(o, w, N)
  BY <1>1, ViewIs DEF Inv
<1>10. CopyInv(e, w, F, N)
  <2>1. FilesIn(e, w)
    BY <1>1, <1>8, <1>9 DEF Whole, FilesIn, BuiltInv
  <2>2. ASSUME NEW n \in F PROVE Stored(e, n, w.wals[n])
    <3>1. CASE n \in DOMAIN m.wals
      BY <1>1, <1>8, <1>9, <3>1 DEF Whole, BuiltInv
    <3>2. CASE n \notin DOMAIN m.wals
      <4>1. w.wals[n] = <<>>
        BY <1>1, <1>9, <3>2 DEF BuiltInv
      <4> QED
        BY <4>1, EmptySeq DEF Stored
    <3> QED
      BY <3>1, <3>2
  <2> QED
    BY <1>9, <2>1, <2>2 DEF CopyInv
<1>11. LatestInv(e, w, N)
  BY <1>1, <1>5, <1>7, <1>8, <1>9 DEF LatestInv
<1>12. BuiltInv(e, s, F, N) /\ PublishedInv(e, s)
  BY <1>1, <1>5, <1>7, <1>8 DEF BuiltInv, PublishedInv
<1>13. PcInv(e, s, F, N)
  <2>1. \A g \in KeptOf(e) : s.kill \cap LiveObjects(e[ManifestKey(g)]) = {}
    BY <1>5 DEF Inv, PcInv, KeptOf
  <2> QED
    BY <1>12, <2>1 DEF Inv, PcInv
<1>14. GenInv(e, s, f)
  BY <1>1, <1>5 DEF Inv, GenInv
<1>15. ASSUME HistoryInv(o, Growing(s, F), N) PROVE HistoryInv(e, Growing(s, F), N)
  <2> SUFFICES ASSUME NEW g \in KeptOf(e), g <= LatestOf(e).gen
               PROVE  Older(e, e[ManifestKey(g)], Growing(s, F), N)
    BY DEF HistoryInv
  <2>1. g \in KeptOf(o) /\ e[ManifestKey(g)] = o[ManifestKey(g)]
    BY <1>5 DEF KeptOf
  <2>2. Older(o, o[ManifestKey(g)], Growing(s, F), N)
    BY <1>1, <1>5, <1>15, <2>1 DEF HistoryInv
  <2>3. Whole(e, o[ManifestKey(g)])
    BY <1>2, <1>3, <2>1, <2>2, WholeDelete DEF Older
  <2> QED
    BY <1>1, <1>5, <2>1, <2>2, <2>3 DEF Older
<1>16. ViewOf(e, s) = w
  BY <1>1 DEF ViewOf
<1>17. LiveObjects(m) \subseteq DOMAIN e
  BY <1>1, <1>7, <1>8, WholeLive
<1> QED
  BY <1>5, <1>10, <1>11, <1>13, <1>14, <1>15, <1>16, <1>17 DEF Inv

\* The tick ends, and files of which the last manifest has no chunks are forgotten.
LEMMA ForgetStep ==
    ASSUME NEW o, NEW s, NEW F, NEW N, NEW f, Inv(o, s, F, N, f), s.pc \in {"retention", "delete"},
           NEW s2 \in Shippers, s2.loaded, s2.gen = s.gen, s2.snap = s.snap, s2.graph = s.graph,
           s2.pc = "idle", s2.todo \subseteq 1..N, NEW gone,
           \A n \in 1..MaxFiles : s2.wals[n] = IF n \in gone THEN <<>> ELSE s.wals[n],
           \A n \in DOMAIN s.manifest.wals : n \in gone => s.wals[n] = <<>>
    PROVE  Inv(o, s2, F, N, f)
<1>1. /\ s.loaded /\ s \in Shippers /\ ObjsOK(o) /\ HasTop(o)
      /\ s.manifest \in Manifests /\ LatestOf(o) = s.manifest /\ BuiltInv(o, s, F, N)
      /\ N \in 1..MaxFiles /\ F \subseteq 1..N
  BY PublishedIs DEF Inv
<1>2. /\ ViewOf(o, s).wals = s.wals /\ ViewOf(o, s).snap = s.snap /\ ViewOf(o, s).graph = s.graph
      /\ ViewOf(o, s2).wals = s2.wals /\ ViewOf(o, s2).snap = s.snap
      /\ ViewOf(o, s2).graph = s.graph
      /\ CopyInv(o, ViewOf(o, s), F, N) /\ LatestInv(o, ViewOf(o, s), N)
  BY <1>1, ViewIs DEF Inv
<1>3. CopyInv(o, ViewOf(o, s2), F, N)
  <2>1. \A n \in 1..MaxFiles : Good(s2.wals[n]) /\ (n > N => s2.wals[n] = <<>>)
    BY <1>2, NoChunksGood DEF CopyInv
  <2>2. ASSUME NEW n \in F PROVE Stored(o, n, s2.wals[n])
    <3>1. n \in 1..MaxFiles
      BY <1>1, NamesBelow
    <3>2. Stored(o, n, <<>>)
      BY EmptySeq DEF Stored
    <3> QED
      BY <1>2, <3>1, <3>2 DEF CopyInv
  <2> QED
    BY <1>2, <2>1, <2>2 DEF CopyInv, FilesIn
<1>4. LatestInv(o, ViewOf(o, s2), N)
  <2>1. ASSUME NEW n \in DOMAIN s.manifest.wals PROVE Begins(s.manifest.wals[n], s2.wals[n])
    <3>1. n \in 1..MaxFiles /\ s.manifest.wals[n] = s.wals[n] /\ s.manifest.wals[n] \in Seq(ChunkRef)
      BY <1>1, ManifestIs DEF BuiltInv
    <3>2. s2.wals[n] = s.wals[n]
      BY <3>1
    <3> QED
      BY <3>1, <3>2, BeginsItself
  <2> QED
    BY <1>1, <1>2, <2>1 DEF LatestInv
<1>5. PcInv(o, s2, F, N)
  BY DEF PcInv
<1>6. GenInv(o, s2, f)
  BY <1>1 DEF Inv, GenInv
<1>7. Growing(s2, F) = Growing(s, F)
  BY DEF Growing
<1> QED
  BY <1>3, <1>4, <1>5, <1>6, <1>7 DEF Inv

\* The process starts again.
LEMMA NewShipperIs ==
    /\ NewShipper \in Shippers /\ ~NewShipper.loaded /\ NewShipper.pc = "idle"
    /\ NewShipper.gen = 0 /\ NewShipper.snap = 0 /\ NewShipper.graph = 0
    /\ NewShipper.wals = NoChunks /\ NewShipper.todo = {}
<1>1. NoChunks \in [1..MaxFiles -> Seq(ChunkRef)] /\ <<>> \in Seq(Rec)
  BY EmptySeq DEF NoChunks
<1> QED
  BY <1>1 DEF NewShipper, Shippers

LEMMA RestartStep ==
    ASSUME NEW o, NEW s, NEW F, NEW N, NEW f, Inv(o, s, F, N, f)
    PROVE  Inv(o, NewShipper, F, N, f)
<1> DEFINE m == LatestOf(o)
           v == ViewOf(o, NewShipper)
<1>1. /\ ObjsOK(o) /\ HasTop(o) /\ N \in 1..MaxFiles /\ F \subseteq 1..N
      /\ LatestInv(o, ViewOf(o, s), N)
      /\ N \in Nat /\ 1..N \subseteq 1..MaxFiles
  BY NamesBelow DEF Inv
<1>2. /\ v.snap = m.snap /\ v.graph = m.graph
      /\ \A n \in 1..MaxFiles : v.wals[n] = IF n \in DOMAIN m.wals THEN m.wals[n] ELSE <<>>
  BY <1>1, NewShipperIs, ViewIs
<1>3. CASE m = NoManifest
  <2>1. m.snap = 0 /\ m.graph = 0 /\ DOMAIN m.wals = {}
    BY <1>3, EmptySeq DEF NoManifest
  <2>2. \A n \in 1..MaxFiles : v.wals[n] = <<>>
    BY <1>2, <2>1
  <2>3. \A n : Stored(o, n, <<>>)
    BY EmptySeq DEF Stored
  <2>4. CopyInv(o, v, F, N)
    BY <1>1, <1>2, <2>1, <2>2, <2>3, NoChunksGood DEF CopyInv, FilesIn
  <2>5. LatestInv(o, v, N)
    BY <1>3 DEF LatestInv
  <2> QED
    BY <2>4, <2>5, NewShipperIs DEF Inv, GenInv, PcInv, HistoryInv, Older, Growing
<1>4. CASE m # NoManifest
  <2>1. m \in Manifests
    BY <1>1, <1>4, LatestIs
  <2>2. /\ ManifestKey(m.gen) \in DOMAIN o /\ Whole(o, m)
        /\ \A n \in DOMAIN m.wals : n <= N /\ n \in 1..MaxFiles /\ m.wals[n] \in Seq(ChunkRef)
    BY <1>1, <1>4, <2>1, ManifestIs DEF LatestInv
  <2>3. \A n : Stored(o, n, <<>>)
    BY EmptySeq DEF Stored
  <2>4. FilesIn(o, v)
    BY <1>2, <2>2 DEF Whole, FilesIn
  <2>5. \A n \in F : Stored(o, n, v.wals[n])
    BY <1>1, <1>2, <2>2, <2>3 DEF Whole
  <2>6. \A n \in 1..MaxFiles : Good(v.wals[n]) /\ (n > N => v.wals[n] = <<>>)
    <3> TAKE n \in 1..MaxFiles
    <3>1. CASE n \in DOMAIN m.wals
      BY <1>1, <1>2, <2>2, <3>1 DEF Whole
    <3>2. CASE n \notin DOMAIN m.wals
      BY <1>2, <3>2, NoChunksGood
    <3> QED
      BY <3>1, <3>2
  <2>7. CopyInv(o, v, F, N)
    BY <2>4, <2>5, <2>6 DEF CopyInv
  <2>8. LatestInv(o, v, N)
    BY <1>2, <2>2, BeginsItself DEF LatestInv
  <2> QED
    BY <2>7, <2>8, NewShipperIs DEF Inv, GenInv, PcInv, HistoryInv, Older, Growing
<1> QED
  BY <1>3, <1>4

LEMMA InvInit == Inv([x \in {} |-> 0], NewShipper, {1}, 1, 0)
<1> DEFINE o == [x \in {} |-> 0]
<1>1. DOMAIN o = {}
  OBVIOUS
<1>2. ObjsOK(o)
  BY <1>1 DEF ObjsOK
<1>3. GensOf(o) = {} /\ KeptOf(o) = {}
  BY <1>1 DEF GensOf, KeptOf
<1>4. LatestOf(o) = NoManifest
  BY <1>1, <1>3 DEF LatestOf
<1>5. HasTop(o)
  BY <1>3 DEF HasTop
<1>6. /\ ViewOf(o, NewShipper).snap = 0 /\ ViewOf(o, NewShipper).graph = 0
      /\ \A n \in 1..MaxFiles : ViewOf(o, NewShipper).wals[n] = <<>>
  <2>1. NoManifest.snap = 0 /\ NoManifest.graph = 0 /\ DOMAIN NoManifest.wals = {}
    BY EmptySeq DEF NoManifest
  <2> HIDE DEF o
  <2> QED
    BY <1>2, <1>4, <1>5, <2>1, ViewIs, NewShipperIs
<1>7. 1 \in 1..MaxFiles
  BY ShipAssumption
<1>8. \A n : Stored(o, n, <<>>)
  BY EmptySeq DEF Stored
<1> HIDE DEF o
<1>9. CopyInv(o, ViewOf(o, NewShipper), {1}, 1)
  BY <1>6, <1>7, <1>8, NoChunksGood DEF CopyInv, FilesIn
<1>10. LatestInv(o, ViewOf(o, NewShipper), 1)
  BY <1>4 DEF LatestInv
<1>11. Inv(o, NewShipper, {1}, 1, 0)
  BY <1>1, <1>2, <1>3, <1>5, <1>7, <1>9, <1>10, NewShipperIs DEF Inv, GenInv, PcInv, HistoryInv
<1> QED
  BY <1>11 DEF o

(***************************************************************************)
(* Numbers                                                                 *)
(***************************************************************************)
LEMMA SmallestIs ==
    ASSUME NEW T \in SUBSET Nat, T # {}
    PROVE  Min(T) \in T /\ \A y \in T : Min(T) <= y
<1>1. PICK x \in T : \A y \in T : ~(<<y, x>> \in OpToRel(<, Nat))
  BY WFMin, NatLessThanWellFounded
<1>2. \A y \in T : ~(y < x)
  BY <1>1 DEF OpToRel
<1>3. \E z \in T : \A y \in T : z <= y
  BY <1>2
<1> QED
  BY ONLY <1>3 DEF Min

\* The length of the next chunk.
LEMMA ChunkIs ==
    ASSUME NEW recs \in Seq(Rec), NEW from \in Nat, from < Len(recs), NEW chunk,
           chunk = SubSeq(recs, from + 1, Min({Len(recs), from + MaxChunk}))
    PROVE  /\ Len(chunk) \in Nat \ {0} /\ from + Len(chunk) <= Len(recs)
<1> DEFINE top == Min({Len(recs), from + MaxChunk})
<1>1. MaxChunk \in Nat \ {0} /\ Len(recs) \in Nat
  BY ShipAssumption, LenProperties
<1>2. top \in {Len(recs), from + MaxChunk} /\ top <= Len(recs)
  <2>1. {Len(recs), from + MaxChunk} \in SUBSET Nat
    BY <1>1
  <2> QED
    BY <2>1, SmallestIs
<1>3. top \in Nat /\ from < top /\ from + 1 \in Nat
  BY <1>1, <1>2
<1>4. \A i \in (from + 1)..top : recs[i] \in Rec
  BY <1>1, <1>2, <1>3, ElementOfSeq
<1>5. Len(SubSeq(recs, from + 1, top)) = IF from + 1 <= top THEN top - (from + 1) + 1 ELSE 0
  <2> HIDE DEF top
  <2> QED
    BY <1>3, <1>4, SubSeqProperties
<1>6. Len(chunk) = top - from
  BY <1>3, <1>5
<1> QED
  BY <1>1, <1>2, <1>3, <1>6

(***************************************************************************)
(* The steps of the specification                                          *)
(***************************************************************************)
FilesInv ==
    /\ \A n \in DOMAIN files : files[n] \in Seq(Rec)
    /\ stamp \in Nat /\ snap.fp \in Nat /\ graph.fp \in Nat

ObjsInv == Inv(objs, ship, DOMAIN files, names, faults)

IInv == FilesInv /\ ObjsInv

LEMMA Facts ==
    ASSUME ObjsInv
    PROVE  /\ ObjsOK(objs) /\ HasTop(objs) /\ ship \in Shippers
           /\ names \in 1..MaxFiles /\ names \in Nat /\ 1..names \subseteq 1..MaxFiles
           /\ DOMAIN files \subseteq 1..names /\ faults \in Nat /\ MaxFiles \in Nat
           /\ ship.todo \subseteq 1..names /\ ship.gen \in Nat
           /\ ship.todo # {} => Current \in ship.todo /\ Current \in 1..names
           /\ ship.pc # "idle" => ship.loaded
           /\ LatestManifest = LatestOf(objs)
<1>1. /\ ObjsOK(objs) /\ HasTop(objs) /\ ship \in Shippers /\ names \in 1..MaxFiles
      /\ DOMAIN files \subseteq 1..names /\ faults \in Nat /\ ship.todo \subseteq 1..names
      /\ ship.pc # "idle" => ship.loaded
  BY DEF ObjsInv, Inv, PcInv
<1>2. names \in Nat /\ 1..names \subseteq 1..MaxFiles /\ MaxFiles \in Nat
  BY <1>1, NamesBelow, ShipAssumption
<1>3. ship.todo # {} => Current \in ship.todo
  <2>1. ship.todo \in SUBSET Nat
    BY <1>1
  <2> QED
    BY <2>1, SmallestIs DEF Current
<1>4. LatestManifest = LatestOf(objs)
  BY DEF LatestManifest, LatestOf, Has, Gens, GensOf
<1>5. ship.gen \in Nat
  BY <1>1 DEF Shippers
<1> QED
  BY <1>1, <1>2, <1>3, <1>4, <1>5

\* Steps of the engine.
LEMMA EngineStep ==
    ASSUME ObjsInv, UNCHANGED <<objs, ship, faults>>,
           \/ names' = names /\ DOMAIN files' \subseteq DOMAIN files
           \/ /\ names' = names + 1 /\ names < MaxFiles
              /\ DOMAIN files' \subseteq DOMAIN files \cup {names + 1}
    PROVE  ObjsInv'
<1>1. names' \in 1..MaxFiles
  BY Facts
<1> QED
  BY <1>1, FilesStep DEF ObjsInv

LEMMA FilesWrite ==
    ASSUME IInv, NEW s \in Stores, Write(s)
    PROVE  IInv'
<1>1. /\ stamp' = stamp + 1 /\ files' = [files EXCEPT ![names] = Append(@, [store |-> s, id |-> stamp'])]
      /\ UNCHANGED <<snap, graph, names, objs, ship, faults>>
  BY DEF Write
<1>2. [store |-> s, id |-> stamp'] \in Rec /\ stamp' \in Nat
  BY <1>1 DEF IInv, FilesInv, Rec
<1>3. DOMAIN files' = DOMAIN files /\ \A n \in DOMAIN files : files'[n] \in Seq(Rec)
  <2>1. \A n \in DOMAIN files : files[n] \in Seq(Rec)
    BY DEF IInv, FilesInv
  <2>2. names \in DOMAIN files => Append(files[names], [store |-> s, id |-> stamp']) \in Seq(Rec)
    BY <1>2, <2>1, AppendProperties
  <2> QED
    BY <1>1, <2>1, <2>2
<1>4. FilesInv'
  BY <1>1, <1>2, <1>3 DEF IInv, FilesInv
<1>5. ObjsInv'
  BY <1>1, <1>3, EngineStep DEF IInv
<1> QED
  BY <1>4, <1>5 DEF IInv

LEMMA FilesCompact ==
    ASSUME IInv, Sync \/ Rotate \/ CleanupOldWALs \/ \E n \in 0..MaxRecords : RenameSnapshot(n) \/ RenameGraph(n)
    PROVE  IInv'
<1>0. FilesInv /\ ObjsInv /\ names \in Nat
  BY Facts DEF IInv
<1>1. CASE Sync
  <2>1. UNCHANGED <<files, names, objs, ship, faults, stamp, snap, graph>>
    BY <1>1 DEF Sync
  <2> QED
    BY <1>0, <2>1, EngineStep DEF IInv, FilesInv
<1>2. CASE Rotate
  <2>1. /\ names < MaxFiles /\ names' = names + 1 /\ files' = WithNewFile(files)
        /\ UNCHANGED <<objs, ship, faults, stamp, snap, graph>>
    BY <1>2 DEF Rotate
  <2>2. /\ DOMAIN files' = DOMAIN files \cup {names + 1}
        /\ \A n \in DOMAIN files' : files'[n] = IF n = names + 1 THEN <<>> ELSE files[n]
    BY <2>1 DEF WithNewFile, Extended
  <2>3. FilesInv'
    BY <1>0, <2>1, <2>2, EmptySeq DEF FilesInv
  <2> QED
    BY <1>0, <2>1, <2>2, <2>3, EngineStep DEF IInv
<1>3. CASE CleanupOldWALs
  <2>1. files' = Except(files, comp.old) /\ UNCHANGED <<names, objs, ship, faults, stamp, snap, graph>>
    BY <1>3 DEF CleanupOldWALs
  <2>2. DOMAIN files' \subseteq DOMAIN files /\ \A n \in DOMAIN files' : files'[n] = files[n]
    BY <2>1 DEF Except
  <2> QED
    BY <1>0, <2>1, <2>2, EngineStep DEF IInv, FilesInv
<1>4. ASSUME NEW n \in 0..MaxRecords, RenameSnapshot(n) \/ RenameGraph(n) PROVE IInv'
  <2>1. UNCHANGED <<files, names, objs, ship, faults, stamp>>
    BY <1>4 DEF RenameSnapshot, RenameGraph
  <2>2. snap'.fp \in Nat /\ graph'.fp \in Nat
    BY <1>0, <1>4 DEF RenameSnapshot, RenameGraph, FilesInv
  <2> QED
    BY <1>0, <2>1, <2>2, EngineStep DEF IInv, FilesInv
<1> QED
  BY <1>1, <1>2, <1>3, <1>4

LEMMA FilesRestart ==
    ASSUME IInv, NEW kept, NEW gone, Restart(kept, gone),
           names \in DOMAIN files => kept \in Seq(Rec)
    PROVE  IInv'
<1>0. FilesInv /\ ObjsInv /\ names \in Nat /\ DOMAIN files \subseteq 1..names
  BY Facts DEF IInv
<1>1. /\ names < MaxFiles /\ names' = names + 1
      /\ files' = WithNewFile([files EXCEPT ![names] = kept])
      /\ ship' = NewShipper /\ UNCHANGED <<stamp, snap, graph, objs, faults>>
  BY DEF Restart
<1>2. /\ DOMAIN files' = DOMAIN files \cup {names + 1}
      /\ \A n \in DOMAIN files' : files'[n] =
           IF n = names + 1 THEN <<>> ELSE IF n = names THEN kept ELSE files[n]
  BY <1>0, <1>1 DEF WithNewFile, Extended
<1>3. FilesInv'
  BY <1>0, <1>1, <1>2, EmptySeq DEF FilesInv
<1>4. Inv(objs, NewShipper, DOMAIN files, names, faults)
  BY <1>0, RestartStep DEF ObjsInv
<1>5. names + 1 \in 1..MaxFiles
  BY <1>0, <1>1, Facts
<1>6. Inv(objs, NewShipper, DOMAIN files', names + 1, faults)
  BY <1>2, <1>4, <1>5, FilesStep
<1> QED
  BY <1>1, <1>3, <1>6 DEF IInv, ObjsInv

LEMMA FilesDie ==
    ASSUME IInv, Kill \/ \E n \in 0..MaxRecords : PowerLoss(n)
    PROVE  IInv'
<1>0. \A n \in DOMAIN files : files[n] \in Seq(Rec)
  BY DEF IInv, FilesInv
<1>1. CASE Kill
  <2>1. Restart(files[names], {})
    BY <1>1 DEF Kill
  <2> QED
    BY <1>0, <2>1, FilesRestart
<1>2. ASSUME NEW n \in 0..MaxRecords, PowerLoss(n) PROVE IInv'
  <2>1. \E gone : Restart(SubSeq(files[names], 1, n), gone)
    BY <1>2 DEF PowerLoss
  <2>2. n <= Len(files[names]) - 1
    BY <1>2 DEF PowerLoss
  <2>3. names \in DOMAIN files => SubSeq(files[names], 1, n) \in Seq(Rec)
    <3> SUFFICES ASSUME names \in DOMAIN files PROVE SubSeq(files[names], 1, n) \in Seq(Rec)
      OBVIOUS
    <3>1. files[names] \in Seq(Rec)
      BY <1>0
    <3>2. Len(files[names]) \in Nat /\ n \in Nat
      BY <3>1, ShipAssumption, LenProperties
    <3>3. \A i \in 1..n : files[names][i] \in Rec
      BY <2>2, <3>1, <3>2, ElementOfSeq
    <3> QED
      BY <3>2, <3>3, SubSeqProperties
  <2> QED
    BY <2>1, <2>3, FilesRestart
<1> QED
  BY <1>1, <1>2

\* Steps of the shipper.
LEMMA IdleIs ==
    ASSUME NEW s \in Shippers, NEW s2, s2 = Idle(s)
    PROVE  /\ s2 \in Shippers /\ s2.pc = "idle" /\ s2.todo = {}
           /\ s2.loaded = s.loaded /\ s2.gen = s.gen /\ s2.snap = s.snap /\ s2.graph = s.graph
           /\ s2.wals = s.wals /\ s2.known = s.known
<1>1. <<>> \in Seq(Rec)
  BY EmptySeq
<1> QED
  BY <1>1 DEF Idle, Shippers

LEMMA ClosedIs ==
    ASSUME NEW s \in Shippers, NEW s2, s2 = Closed(s)
    PROVE  /\ s2 \in Shippers /\ s2.pc = "wals" /\ s2.todo \subseteq s.todo
           /\ s2.loaded = s.loaded /\ s2.gen = s.gen /\ s2.snap = s.snap /\ s2.graph = s.graph
           /\ s2.wals = s.wals
<1>1. <<>> \in Seq(Rec)
  BY EmptySeq
<1> QED
  BY <1>1 DEF Closed, Shippers

\* The tick ends, with the store as it was or with an object that does no harm.
LEMMA TickEnds ==
    ASSUME ObjsInv, NEW f2 \in Nat, f2 = 0 => faults = 0, NEW e,
           Inv(e, ship, DOMAIN files, names, faults)
    PROVE  Inv(e, Idle(ship), DOMAIN files, names, f2)
<1>1. /\ Idle(ship) \in Shippers /\ Idle(ship).pc = "idle" /\ Idle(ship).todo = {}
      /\ Idle(ship).loaded = ship.loaded /\ Idle(ship).gen = ship.gen
      /\ Idle(ship).snap = ship.snap /\ Idle(ship).graph = ship.graph
      /\ Idle(ship).wals = ship.wals
  BY Facts, IdleIs
<1> QED
  BY <1>1, QuietStep

LEMMA FaultsNext == ASSUME ObjsInv, Fails PROVE faults' \in Nat \ {0}
BY Facts DEF Fails

\* A Put of an object that does no harm.
LEMMA PutInv ==
    ASSUME ObjsInv, UNCHANGED <<files, names>>, NEW k, NEW d, NEW s2, Put(k, d, s2),
           Inv(With(k, d), ship, DOMAIN files, names, faults),
           Inv(With(k, d), s2, DOMAIN files, names, faults)
    PROVE  ObjsInv'
<1>1. CASE objs' = With(k, d) /\ ship' = s2 /\ UNCHANGED faults
  BY <1>1 DEF ObjsInv
<1>2. CASE objs' \in {objs, With(k, d)} /\ ship' = Idle(ship) /\ Fails
  <2>1. faults' \in Nat \ {0}
    BY <1>2, FaultsNext
  <2>2. Inv(objs', ship, DOMAIN files, names, faults)
    BY <1>2 DEF ObjsInv
  <2>3. Inv(objs', Idle(ship), DOMAIN files, names, faults')
    BY <2>1, <2>2, TickEnds
  <2> QED
    BY <1>2, <2>3 DEF ObjsInv
<1> QED
  BY <1>1, <1>2 DEF Put

LEMMA UnreachableInv ==
    ASSUME ObjsInv, UNCHANGED <<files, names>>, Unreachable
    PROVE  ObjsInv'
<1>1. faults' \in Nat \ {0} /\ ship' = Idle(ship) /\ objs' = objs
  BY FaultsNext DEF Unreachable
<1>2. Inv(objs, Idle(ship), DOMAIN files, names, faults')
  BY <1>1, TickEnds DEF ObjsInv
<1> QED
  BY <1>1, <1>2 DEF ObjsInv

LEMMA LoadedIs ==
    ASSUME ObjsInv, ship.pc = "idle"
    PROVE  /\ Loaded \in Shippers
           /\ Loaded.gen = ViewOf(objs, ship).gen /\ Loaded.snap = ViewOf(objs, ship).snap
           /\ Loaded.graph = ViewOf(objs, ship).graph /\ Loaded.wals = ViewOf(objs, ship).wals
<1> DEFINE m == LatestOf(objs)
<1>1. /\ ObjsOK(objs) /\ HasTop(objs) /\ ship \in Shippers /\ LatestManifest = m
  BY Facts
<1>2. CASE ship.loaded
  BY <1>1, <1>2, ViewIs DEF Loaded
<1>3. CASE ~ship.loaded /\ m = NoManifest
  <2>1. ship.gen = 0 /\ ship.snap = 0 /\ ship.graph = 0 /\ ship.wals = NoChunks
    BY <1>3 DEF ObjsInv, Inv, PcInv
  <2>2. ViewOf(objs, ship) = [gen |-> 0, snap |-> 0, graph |-> 0, wals |-> NoChunks]
    <3>1. /\ m.gen = 0 /\ m.snap = 0 /\ m.graph = 0 /\ DOMAIN m.wals = {}
      BY <1>3, EmptySeq DEF NoManifest
    <3> QED
      BY <1>3, <3>1 DEF ViewOf, NoChunks
  <2>3. Loaded = ship
    BY <1>1, <1>3 DEF Loaded, LoadState
  <2> QED
    BY <1>1, <2>1, <2>2, <2>3
<1>4. CASE ~ship.loaded /\ m # NoManifest
  <2>1. m \in Manifests
    BY <1>1, <1>4, LatestIs
  <2>2. DOMAIN m.wals \in SUBSET (1..MaxFiles) /\ ViewOf(objs, ship) \in Views
    BY <1>1, <2>1, ManifestIs, ViewIs
  <2>3. ViewOf(objs, ship) =
          [gen |-> m.gen, snap |-> m.snap, graph |-> m.graph,
           wals |-> [n \in 1..MaxFiles |-> IF n \in DOMAIN m.wals THEN m.wals[n] ELSE <<>>]]
    BY <1>4 DEF ViewOf
  <2>4. Loaded = [ship EXCEPT !.gen = m.gen, !.snap = m.snap, !.graph = m.graph,
                     !.published = TRUE, !.known = DOMAIN m.wals,
                     !.wals = [n \in 1..MaxFiles |-> IF n \in DOMAIN m.wals THEN m.wals[n] ELSE <<>>]]
    BY <1>1, <1>4 DEF Loaded, LoadState
  <2>5. /\ Loaded.gen = ViewOf(objs, ship).gen /\ Loaded.snap = ViewOf(objs, ship).snap
        /\ Loaded.graph = ViewOf(objs, ship).graph /\ Loaded.wals = ViewOf(objs, ship).wals
    BY <1>1, <2>3, <2>4 DEF Shippers
  <2>6. Loaded \in Shippers
    <3> DEFINE v == ViewOf(objs, ship)
               u == [n \in 1..MaxFiles |-> IF n \in DOMAIN m.wals THEN m.wals[n] ELSE <<>>]
    <3>1. u \in [1..MaxFiles -> Seq(ChunkRef)]
      BY <2>2, <2>3 DEF Views
    <3>2. m.gen \in Nat /\ m.snap \in Nat /\ m.graph \in Nat
      BY <2>1, ManifestIs
    <3>3. Loaded = [ship EXCEPT !.gen = m.gen, !.snap = m.snap, !.graph = m.graph,
                     !.published = TRUE, !.known = DOMAIN m.wals, !.wals = u]
      BY <2>4
    <3> HIDE DEF m, u
    <3> QED
      BY <1>1, <2>2, <3>1, <3>2, <3>3 DEF Shippers
  <2> QED
    BY <2>5, <2>6
<1> QED
  BY <1>2, <1>3, <1>4

LEMMA TickBeginInv == ASSUME ObjsInv, stamp \in Nat, TickBegin, UNCHANGED <<files, names>> PROVE ObjsInv'
<1>1. /\ ship \in Shippers /\ names \in Nat /\ 1..names \subseteq 1..MaxFiles
      /\ DOMAIN files \subseteq 1..names /\ ship.pc = "idle"
  BY Facts DEF TickBegin
<1>2. CASE ~ship.loaded /\ Unreachable
  BY <1>2, UnreachableInv
<1>3. ASSUME UNCHANGED <<objs, faults>>,
             ship' = [Loaded EXCEPT !.pc = "wals", !.loaded = TRUE, !.before = DOMAIN files,
                                    !.todo = DOMAIN files, !.covered = stamp]
      PROVE  ObjsInv'
  <2>1. /\ Loaded \in Shippers
        /\ Loaded.gen = ViewOf(objs, ship).gen /\ Loaded.snap = ViewOf(objs, ship).snap
        /\ Loaded.graph = ViewOf(objs, ship).graph /\ Loaded.wals = ViewOf(objs, ship).wals
    BY <1>1, LoadedIs
  <2>2. DOMAIN files \in SUBSET (1..MaxFiles)
    BY <1>1
  <2>3. /\ ship' \in Shippers /\ ship'.loaded /\ ship'.pc = "wals" /\ ship'.todo = DOMAIN files
        /\ ship'.gen = Loaded.gen /\ ship'.snap = Loaded.snap /\ ship'.graph = Loaded.graph
        /\ ship'.wals = Loaded.wals
    BY <1>3, <2>1, <2>2 DEF Shippers
  <2>4. CASE ship.loaded
    <3>1. Loaded = ship
      BY <2>4 DEF Loaded
    <3>2. Inv(objs, ship', DOMAIN files, names, faults)
      BY <1>1, <2>3, <2>4, <3>1, Facts, QuietStep DEF ObjsInv
    <3> QED
      BY <1>3, <3>2 DEF ObjsInv
  <2>5. CASE ~ship.loaded
    <3>1. Inv(objs, ship', DOMAIN files, names, faults)
      BY <1>1, <2>1, <2>3, <2>5, LoadStep DEF ObjsInv
    <3> QED
      BY <1>3, <3>1 DEF ObjsInv
  <2> QED
    BY <2>4, <2>5
<1> QED
  BY <1>2, <1>3 DEF TickBegin

LEMMA PutChunkInv ==
    ASSUME ObjsInv, UNCHANGED <<files, names>>, ship.pc \in {"wals", "chunks"},
           ship.todo # {}, Current \in Growing(ship, DOMAIN files),
           NEW recs \in Seq(Rec), Shipped(Current) < Len(recs), PutChunk(recs)
    PROVE  ObjsInv'
<1> DEFINE F == DOMAIN files
<1>1. PICK c : c = Current
  OBVIOUS
<1>2. PICK next : next = [offset |-> Shipped(c), size |-> Len(Chunk(recs))]
  OBVIOUS
<1>3. PICK s : s = [ship EXCEPT !.known = @ \cup {c}, !.changed = TRUE, !.wals[c] = Append(@, next)]
  OBVIOUS
<1>4. PICK s2 : s2 = IF Size(s.wals[c]) = Len(recs) THEN Closed(s)
                     ELSE [s EXCEPT !.pc = "chunks", !.open = recs]
  OBVIOUS
<1>5. Put(ChunkKey(c, next.offset), Chunk(recs), s2)
  BY <1>1, <1>2, <1>3, <1>4 DEF PutChunk
<1>6. /\ ship \in Shippers /\ ship.loaded /\ c \in 1..names /\ c \in 1..MaxFiles /\ c \in ship.todo
      /\ ship.todo \subseteq 1..names /\ c \in Growing(ship, F)
  BY <1>1, Facts
<1>7. /\ ship.wals \in [1..MaxFiles -> Seq(ChunkRef)] /\ ship.wals[c] \in Seq(ChunkRef)
      /\ Size(ship.wals[c]) \in Nat /\ Good(ship.wals[c])
  <2>1. ship.wals \in [1..MaxFiles -> Seq(ChunkRef)]
    BY <1>6 DEF Shippers
  <2>2. Good(ship.wals[c])
    BY <1>6, ViewIs, Facts DEF ObjsInv, Inv, CopyInv
  <2> QED
    BY <1>6, <2>1, <2>2, SizeIs
<1>8. /\ Len(Chunk(recs)) \in Nat \ {0}
      /\ Size(ship.wals[c]) + Len(Chunk(recs)) <= Len(recs) /\ Len(recs) \in Nat
  <2>1. Chunk(recs) = SubSeq(recs, Size(ship.wals[c]) + 1, Min({Len(recs), Size(ship.wals[c]) + MaxChunk}))
    BY <1>1 DEF Chunk, Shipped
  <2>2. Size(ship.wals[c]) < Len(recs)
    BY <1>1 DEF Shipped
  <2> QED
    BY <1>7, <2>1, <2>2, ChunkIs, LenProperties
<1>9. /\ next \in ChunkRef /\ next.offset = Size(ship.wals[c]) /\ next.size = Len(Chunk(recs))
      /\ next.size > 0
  BY <1>2, <1>7, <1>8 DEF Shipped, ChunkRef
<1>10. PICK ds : ds = Append(ship.wals[c], next)
  OBVIOUS
<1>11. ds \in Seq(ChunkRef) /\ Size(ds) = Size(ship.wals[c]) + next.size
  <2>1. next.offset = Size(ship.wals[c]) /\ next.size > 0 /\ next \in ChunkRef
    BY <1>9
  <2>2. ship.wals[c] \in Seq(ChunkRef) /\ Good(ship.wals[c])
    BY <1>7
  <2> QED
    BY <1>10, <2>1, <2>2, GoodAppend, ZenonT(60)
<1>12. /\ s \in Shippers /\ s.loaded /\ s.gen = ship.gen /\ s.snap = ship.snap
       /\ s.graph = ship.graph /\ s.todo = ship.todo
       /\ s.wals = [ship.wals EXCEPT ![c] = Append(@, next)] /\ s.wals[c] = ds
  <2>1. s = [ship EXCEPT !.known = @ \cup {c}, !.changed = TRUE,
                         !.wals = [ship.wals EXCEPT ![c] = Append(@, next)]]
    BY <1>3, <1>6 DEF Shippers
  <2>2. [ship.wals EXCEPT ![c] = Append(@, next)] \in [1..MaxFiles -> Seq(ChunkRef)]
    BY <1>7, <1>10, <1>11
  <2>3. s \in Shippers
    BY <1>6, <2>1, <2>2 DEF Shippers
  <2>4. /\ s.loaded /\ s.gen = ship.gen /\ s.snap = ship.snap
        /\ s.graph = ship.graph /\ s.todo = ship.todo
        /\ s.wals = [ship.wals EXCEPT ![c] = Append(@, next)]
    BY <1>6, <2>1 DEF Shippers
  <2> QED
    BY <1>6, <1>7, <1>10, <2>3, <2>4
<1>13. /\ s2 \in Shippers /\ s2.loaded /\ s2.gen = ship.gen /\ s2.snap = ship.snap
       /\ s2.graph = ship.graph /\ s2.wals = [ship.wals EXCEPT ![c] = Append(@, next)]
       /\ s2.todo \subseteq 1..names
       /\ \/ s2.pc = "wals"
          \/ /\ s2.pc = "chunks" /\ s2.todo # {} /\ Min(s2.todo) = c
             /\ Size(s2.wals[c]) < Len(s2.open)
  <2>1. CASE Size(s.wals[c]) = Len(recs)
    <3>1. s2 = Closed(s)
      BY <1>4, <2>1
    <3> QED
      BY <1>6, <1>12, <3>1, ClosedIs
  <2>2. CASE Size(s.wals[c]) # Len(recs)
    <3>1. s2 = [s EXCEPT !.pc = "chunks", !.open = recs]
      BY <1>4, <2>2
    <3>2. Size(s.wals[c]) < Len(recs)
      <4>1. Size(s.wals[c]) = Size(ship.wals[c]) + Len(Chunk(recs))
        BY <1>9, <1>11, <1>12
      <4>2. Size(ship.wals[c]) \in Nat
        BY <1>7
      <4> QED
        BY ONLY <1>8, <2>2, <4>1, <4>2
    <3>3. /\ s2 \in Shippers /\ s2.loaded /\ s2.gen = s.gen /\ s2.snap = s.snap
          /\ s2.graph = s.graph /\ s2.wals = s.wals /\ s2.todo = s.todo
          /\ s2.pc = "chunks" /\ s2.open = recs
      BY <1>12, <3>1 DEF Shippers
    <3>4. s2.todo # {} /\ Min(s2.todo) = c
      BY <1>1, <1>6, <1>12, <3>3 DEF Current
    <3> QED
      BY <1>6, <1>12, <3>2, <3>3, <3>4
  <2> QED
    BY <2>1, <2>2
<1>14. PICK e : e = With(ChunkKey(c, next.offset), Chunk(recs))
  OBVIOUS
<1>15. /\ e = Extended(objs, ChunkKey(c, Size(ship.wals[c])), Chunk(recs))
       /\ ChunkKey(c, next.offset) \in DOMAIN e /\ e[ChunkKey(c, next.offset)] = Chunk(recs)
  <2>1. e = Extended(objs, ChunkKey(c, Size(ship.wals[c])), Chunk(recs))
    BY <1>9, <1>14 DEF With
  <2> QED
    BY <1>9, <2>1 DEF Extended
<1>16. Inv(e, ship, F, names, faults)
  <2>1. Inv(objs, ship, F, names, faults)
    BY DEF ObjsInv
  <2> QED
    BY <1>6, <1>15, <2>1, PutChunkStep
<1>17. Inv(e, s2, F, names, faults)
  <2>1. Len(e[ChunkKey(c, next.offset)]) = next.size
    BY <1>9, <1>15
  <2> QED
    BY <1>6, <1>9, <1>13, <1>15, <1>16, <2>1, GrowStep
<1> QED
  BY <1>5, <1>14, <1>16, <1>17, PutInv

LEMMA OpenWALInv == ASSUME IInv, OpenWAL, UNCHANGED <<files, names>> PROVE ObjsInv'
<1>1. ObjsInv /\ \A n \in DOMAIN files : files[n] \in Seq(Rec)
  BY DEF IInv, FilesInv
<1>2. /\ ship \in Shippers /\ ship.pc = "wals" /\ ship.loaded /\ ship.todo # {} /\ faults \in Nat
      /\ Current \in 1..names /\ Current \in 1..MaxFiles /\ ship.todo \subseteq 1..names
  BY <1>1, Facts DEF OpenWAL
<1>3. PICK s : s = [ship EXCEPT !.known = @ \cup {Current}]
  OBVIOUS
<1>4. /\ s \in Shippers /\ s.loaded = ship.loaded /\ s.gen = ship.gen /\ s.snap = ship.snap
      /\ s.graph = ship.graph /\ s.wals = ship.wals /\ s.todo = ship.todo
  BY <1>2, <1>3 DEF Shippers
<1>5. \/ (ship' = Closed(ship) \/ ship' = Idle(s) \/ ship' = Closed(s)) /\ UNCHANGED <<objs, faults>>
      \/ /\ Current \in DOMAIN files /\ Shipped(Current) < Len(files[Current])
         /\ PutChunk(files[Current])
  <2>1. Current \in DOMAIN files => Len(files[Current]) \in Nat /\ Shipped(Current) \in Nat
    BY <1>1, <1>2, LenProperties, SizeIs DEF Shippers, Shipped
  <2> QED
    BY <1>3, <2>1 DEF OpenWAL
<1>6. CASE (ship' = Closed(ship) \/ ship' = Idle(s) \/ ship' = Closed(s)) /\ UNCHANGED <<objs, faults>>
  <2>1. /\ ship' \in Shippers /\ ship'.pc \in {"wals", "idle"} /\ ship'.todo \subseteq 1..names
        /\ ship'.loaded = ship.loaded /\ ship'.gen = ship.gen /\ ship'.snap = ship.snap
        /\ ship'.graph = ship.graph /\ ship'.wals = ship.wals
    <3>1. CASE ship' = Closed(ship)
      BY <1>2, <3>1, ClosedIs
    <3>2. CASE ship' = Idle(s)
      BY <1>4, <3>2, IdleIs
    <3>3. CASE ship' = Closed(s)
      BY <1>2, <1>4, <3>3, ClosedIs
    <3> QED
      BY <1>6, <3>1, <3>2, <3>3
  <2>2. Inv(objs, ship', DOMAIN files, names, faults)
    BY <1>1, <1>2, <2>1, QuietStep DEF ObjsInv
  <2> QED
    BY <1>6, <2>2 DEF ObjsInv
<1>7. CASE /\ Current \in DOMAIN files /\ Shipped(Current) < Len(files[Current])
           /\ PutChunk(files[Current])
  <2>1. files[Current] \in Seq(Rec) /\ Current \in Growing(ship, DOMAIN files)
    BY <1>1, <1>7 DEF Growing
  <2> QED
    BY <1>1, <1>2, <1>7, <2>1, PutChunkInv
<1> QED
  BY <1>5, <1>6, <1>7

LEMMA NextChunkInv == ASSUME ObjsInv, NextChunk, UNCHANGED <<files, names>> PROVE ObjsInv'
<1>1. ship.pc = "chunks" /\ ship \in Shippers /\ PutChunk(ship.open)
  BY Facts DEF NextChunk
<1>2. ship.todo # {} /\ Shipped(Current) < Len(ship.open)
  BY <1>1 DEF ObjsInv, Inv, PcInv, Shipped, Current
<1>3. Current \in Growing(ship, DOMAIN files) /\ ship.open \in Seq(Rec)
  BY <1>1 DEF Growing, Current, Shippers
<1> QED
  BY <1>1, <1>2, <1>3, PutChunkInv

LEMMA ShipSnapshotInv == ASSUME IInv, ShipSnapshot, UNCHANGED <<files, names>> PROVE ObjsInv'
<1>1. /\ ObjsInv /\ ship.pc = "wals" /\ ship.loaded /\ ship \in Shippers /\ snap.fp \in Nat
      /\ ship.todo \subseteq 1..names
  BY Facts DEF ShipSnapshot, IInv, FilesInv
<1>2. CASE ship' = [ship EXCEPT !.pc = "graph"] /\ UNCHANGED <<objs, faults>>
  <2>1. /\ ship' \in Shippers /\ ship'.pc = "graph" /\ ship'.todo = ship.todo
        /\ ship'.loaded = ship.loaded /\ ship'.gen = ship.gen /\ ship'.snap = ship.snap
        /\ ship'.graph = ship.graph /\ ship'.wals = ship.wals
    BY <1>1, <1>2 DEF Shippers
  <2>2. Inv(objs, ship', DOMAIN files, names, faults)
    BY <1>1, <2>1, Facts, QuietStep DEF ObjsInv
  <2> QED
    BY <1>2, <2>2 DEF ObjsInv
<1>3. PICK s2 : s2 = [ship EXCEPT !.pc = "graph", !["snap"] = snap.fp, !.changed = TRUE, !.refs = TRUE]
  OBVIOUS
<1>4. CASE Put(FileKey("snap", snap.fp), snap, s2)
  <2>1. /\ s2 \in Shippers /\ s2.pc = "graph" /\ s2.todo = ship.todo
        /\ s2.loaded = ship.loaded /\ s2.gen = ship.gen /\ s2.snap = snap.fp
        /\ s2.graph = ship.graph /\ s2.wals = ship.wals
    BY <1>1, <1>3 DEF Shippers
  <2>2. PICK e : e = With(FileKey("snap", snap.fp), snap)
    OBVIOUS
  <2>3. FileKey("snap", snap.fp) \in FileKeys /\ e = Extended(objs, FileKey("snap", snap.fp), snap)
    BY <1>1, <2>2 DEF FileKeys, With
  <2>4. Inv(e, ship, DOMAIN files, names, faults)
    BY <1>1, <2>3, PutFileStep DEF ObjsInv
  <2>5. FilesIn(e, s2)
    <3>1. FilesIn(objs, ship)
      <4>1. ViewOf(objs, ship).snap = ship.snap /\ ViewOf(objs, ship).graph = ship.graph
        BY <1>1, Facts, ViewIs
      <4> QED
        BY <1>1, <4>1 DEF ObjsInv, Inv, CopyInv, FilesIn
    <3>2. DOMAIN e = DOMAIN objs \cup {FileKey("snap", snap.fp)}
      BY <2>3 DEF Extended
    <3> QED
      BY <2>1, <3>1, <3>2 DEF FilesIn
  <2>6. Inv(e, s2, DOMAIN files, names, faults)
    BY <1>1, <2>1, <2>4, <2>5, FileStep
  <2> QED
    BY <1>1, <1>4, <2>2, <2>4, <2>6, PutInv
<1> QED
  BY <1>2, <1>3, <1>4 DEF ShipSnapshot, ShipFile

LEMMA ShipGraphInv == ASSUME IInv, ShipGraph, UNCHANGED <<files, names>> PROVE ObjsInv'
<1>1. /\ ObjsInv /\ ship.pc = "graph" /\ ship.loaded /\ ship \in Shippers /\ graph.fp \in Nat
      /\ ship.todo \subseteq 1..names
  BY Facts DEF ShipGraph, IInv, FilesInv
<1>2. CASE ship' = [ship EXCEPT !.pc = "build"] /\ UNCHANGED <<objs, faults>>
  <2>1. /\ ship' \in Shippers /\ ship'.pc = "build" /\ ship'.todo = ship.todo
        /\ ship'.loaded = ship.loaded /\ ship'.gen = ship.gen /\ ship'.snap = ship.snap
        /\ ship'.graph = ship.graph /\ ship'.wals = ship.wals
    BY <1>1, <1>2 DEF Shippers
  <2>2. Inv(objs, ship', DOMAIN files, names, faults)
    BY <1>1, <2>1, Facts, QuietStep DEF ObjsInv
  <2> QED
    BY <1>2, <2>2 DEF ObjsInv
<1>3. PICK s2 : s2 = [ship EXCEPT !.pc = "build", !["graph"] = graph.fp, !.changed = TRUE, !.refs = TRUE]
  OBVIOUS
<1>4. CASE Put(FileKey("graph", graph.fp), graph, s2)
  <2>1. /\ s2 \in Shippers /\ s2.pc = "build" /\ s2.todo = ship.todo
        /\ s2.loaded = ship.loaded /\ s2.gen = ship.gen /\ s2.snap = ship.snap
        /\ s2.graph = graph.fp /\ s2.wals = ship.wals
    BY <1>1, <1>3 DEF Shippers
  <2>2. PICK e : e = With(FileKey("graph", graph.fp), graph)
    OBVIOUS
  <2>3. FileKey("graph", graph.fp) \in FileKeys /\ e = Extended(objs, FileKey("graph", graph.fp), graph)
    BY <1>1, <2>2 DEF FileKeys, With
  <2>4. Inv(e, ship, DOMAIN files, names, faults)
    BY <1>1, <2>3, PutFileStep DEF ObjsInv
  <2>5. FilesIn(e, s2)
    <3>1. FilesIn(objs, ship)
      <4>1. ViewOf(objs, ship).snap = ship.snap /\ ViewOf(objs, ship).graph = ship.graph
        BY <1>1, Facts, ViewIs
      <4> QED
        BY <1>1, <4>1 DEF ObjsInv, Inv, CopyInv, FilesIn
    <3>2. DOMAIN e = DOMAIN objs \cup {FileKey("graph", graph.fp)}
      BY <2>3 DEF Extended
    <3> QED
      BY <2>1, <3>1, <3>2 DEF FilesIn
  <2>6. Inv(e, s2, DOMAIN files, names, faults)
    BY <1>1, <2>1, <2>4, <2>5, FileStep
  <2> QED
    BY <1>1, <1>4, <2>2, <2>4, <2>6, PutInv
<1> QED
  BY <1>2, <1>3, <1>4 DEF ShipGraph, ShipFile

LEMMA PutManifestInv == ASSUME ObjsInv, PutManifest, UNCHANGED <<files, names>> PROVE ObjsInv'
<1>1. /\ ship.pc = "build" /\ ship.loaded /\ ship \in Shippers /\ faults \in Nat /\ ship.gen \in Nat
      /\ ship.todo \subseteq 1..names /\ DOMAIN files \subseteq 1..MaxFiles
  BY Facts DEF PutManifest
<1>2. CASE ship' = Idle(ship) /\ UNCHANGED <<objs, faults>>
  <2>1. Inv(objs, Idle(ship), DOMAIN files, names, faults)
    BY <1>1, TickEnds DEF ObjsInv
  <2> QED
    BY <1>2, <2>1 DEF ObjsInv
<1>3. CASE Put(ManifestKey(ship.gen + 1), Manifest, [ship EXCEPT !.pc = "latest", !.manifest = Manifest])
  <2>1. PICK m : m = Manifest
    OBVIOUS
  <2>2. Builds(m, ship, DOMAIN files)
    <3>1. /\ m.gen = ship.gen + 1 /\ m.snap = ship.snap /\ m.graph = ship.graph
          /\ m.wals = [n \in DOMAIN files |-> ship.wals[n]]
          /\ m = [gen |-> m.gen, snap |-> m.snap, graph |-> m.graph, wals |-> m.wals]
      BY <2>1 DEF Manifest
    <3>2. ship.wals \in [1..MaxFiles -> Seq(ChunkRef)] /\ ship.snap \in Nat /\ ship.graph \in Nat
      BY <1>1 DEF Shippers
    <3>3. m.wals \in [DOMAIN files -> Seq(ChunkRef)]
      BY <1>1, <3>1, <3>2
    <3>4. m.wals \in Wals
      BY <1>1, <3>3 DEF Wals
    <3>5. m.gen \in Nat \ {0}
      BY <1>1, <3>1
    <3>6. m \in Manifests
      BY <3>1, <3>2, <3>4, <3>5 DEF Manifests
    <3> QED
      BY <3>1, <3>6 DEF Builds
  <2>3. PICK s2 : s2 = [ship EXCEPT !.pc = "latest", !.manifest = m]
    OBVIOUS
  <2>4. PICK e : e = With(ManifestKey(ship.gen + 1), m)
    OBVIOUS
  <2>5. e = Extended(objs, ManifestKey(m.gen), m) /\ m \in Manifests
    BY <2>2, <2>4 DEF With, Builds
  <2>6. /\ s2 \in Shippers /\ s2.pc = "latest" /\ s2.manifest = m /\ s2.todo = ship.todo
        /\ s2.loaded = ship.loaded /\ s2.gen = ship.gen /\ s2.snap = ship.snap
        /\ s2.graph = ship.graph /\ s2.wals = ship.wals
    BY <1>1, <2>3, <2>5 DEF Shippers
  <2>7. /\ Inv(e, ship, DOMAIN files, names, faults) /\ Whole(e, m)
        /\ m.gen \in GensOf(e) /\ e[ManifestKey(m.gen)] = m
    BY <1>1, <2>2, <2>5, PutGenStep DEF ObjsInv
  <2>8. Inv(e, s2, DOMAIN files, names, faults)
    BY <1>1, <2>2, <2>6, <2>7, BuiltStep
  <2> QED
    BY <1>3, <2>1, <2>3, <2>4, <2>7, <2>8, PutInv
<1> QED
  BY <1>2, <1>3 DEF PutManifest

LEMMA PutLatestInv == ASSUME ObjsInv, PutLatest, UNCHANGED <<files, names>> PROVE ObjsInv'
<1>1. /\ ship.pc = "latest" /\ ship.loaded /\ ship \in Shippers /\ faults \in Nat /\ ship.gen \in Nat
      /\ ship.todo \subseteq 1..names
  BY Facts DEF PutLatest
<1>2. PICK s : s = [ship EXCEPT !.gen = @ + 1, !.published = TRUE]
  OBVIOUS
<1>3. PICK s2 : s2 = IF ship.refs THEN [s EXCEPT !.pc = "retention"] ELSE Idle(s)
  OBVIOUS
<1>4. PICK e : e = With(LatestKey, ship.manifest)
  OBVIOUS
<1>5. e = Extended(objs, LatestKey, ship.manifest)
  BY <1>4 DEF With
<1>6. Put(LatestKey, ship.manifest, s2)
  BY <1>2, <1>3 DEF PutLatest
<1>7. /\ s \in Shippers /\ s.manifest = ship.manifest /\ s.todo = ship.todo
      /\ s.loaded = ship.loaded /\ s.gen = ship.gen + 1 /\ s.snap = ship.snap
      /\ s.graph = ship.graph /\ s.wals = ship.wals
  <2>1. s = [ship EXCEPT !.gen = ship.gen + 1, !.published = TRUE] /\ ship.gen + 1 \in Nat
    BY <1>1, <1>2 DEF Shippers
  <2>2. s \in Shippers
    BY <1>1, <2>1 DEF Shippers
  <2> QED
    BY <1>1, <2>1, <2>2 DEF Shippers
<1>8. /\ s2 \in Shippers /\ s2.todo \subseteq 1..names
      /\ s2.loaded /\ s2.gen = ship.gen + 1 /\ s2.snap = ship.snap
      /\ s2.graph = ship.graph /\ s2.wals = ship.wals
      /\ s2.pc = "idle" \/ (s2.pc = "retention" /\ s2.manifest = ship.manifest)
  <2>1. CASE ship.refs
    <3>1. s2 = [s EXCEPT !.pc = "retention"]
      BY <1>3, <2>1
    <3> QED
      BY <1>1, <1>7, <3>1 DEF Shippers
  <2>2. CASE ~ship.refs
    <3>1. s2 = Idle(s)
      BY <1>3, <2>2
    <3>2. /\ s2 \in Shippers /\ s2.pc = "idle" /\ s2.todo = {}
          /\ s2.loaded = s.loaded /\ s2.gen = s.gen /\ s2.snap = s.snap
          /\ s2.graph = s.graph /\ s2.wals = s.wals
      BY <1>7, <3>1, IdleIs
    <3> QED
      BY <1>1, <1>7, <3>2
  <2> QED
    BY <2>1, <2>2
<1>9. CASE objs' = e /\ ship' = s2 /\ UNCHANGED faults
  <2>1. Inv(e, s2, DOMAIN files, names, faults)
    BY <1>1, <1>5, <1>8, TopStep DEF ObjsInv
  <2> QED
    BY <1>9, <2>1 DEF ObjsInv
<1>10. CASE objs' \in {objs, e} /\ ship' = Idle(ship) /\ Fails
  <2>1. faults' \in Nat \ {0}
    BY <1>10, FaultsNext
  <2>2. Inv(objs, Idle(ship), DOMAIN files, names, faults')
    BY <2>1, TickEnds DEF ObjsInv
  <2>3. /\ Idle(ship) \in Shippers /\ Idle(ship).pc = "idle" /\ Idle(ship).todo = {}
        /\ Idle(ship).loaded = ship.loaded /\ Idle(ship).gen = ship.gen
        /\ Idle(ship).snap = ship.snap /\ Idle(ship).graph = ship.graph
        /\ Idle(ship).wals = ship.wals
    BY <1>1, IdleIs
  <2>4. Inv(e, Idle(ship), DOMAIN files, names, faults')
    BY <1>1, <1>5, <2>1, <2>3, TopFails DEF ObjsInv
  <2> QED
    BY <1>10, <2>2, <2>4 DEF ObjsInv
<1> QED
  BY <1>4, <1>6, <1>9, <1>10 DEF Put

LEMMA ForgetInv ==
    ASSUME NEW o, NEW s, NEW F, NEW N, NEW f, Inv(o, s, F, N, f), s.pc \in {"retention", "delete"},
           NEW live, LiveObjects(s.manifest) \subseteq live
    PROVE  Inv(o, Idle(Forgotten(s, live)), F, N, f)
<1>1. /\ s.loaded /\ s \in Shippers /\ s.manifest \in Manifests /\ BuiltInv(o, s, F, N)
  BY PublishedIs
<1>2. PICK gone : gone = {n \in s.known : s.wals[n] # <<>> /\ ChunkKey(n, 0) \notin live}
  OBVIOUS
<1>3. PICK u : u = [n \in 1..MaxFiles |-> IF n \in gone THEN <<>> ELSE s.wals[n]]
  OBVIOUS
<1>4. PICK t : t = [s EXCEPT !.known = @ \ gone, !.wals = u]
  OBVIOUS
<1>5. t = Forgotten(s, live)
  BY <1>2, <1>3, <1>4 DEF Forgotten
<1>6. u \in [1..MaxFiles -> Seq(ChunkRef)]
  <2>1. s.wals \in [1..MaxFiles -> Seq(ChunkRef)] /\ <<>> \in Seq(ChunkRef)
    BY <1>1, EmptySeq DEF Shippers
  <2> QED
    BY <1>3, <2>1
<1>7. /\ t \in Shippers /\ t.loaded = s.loaded /\ t.gen = s.gen /\ t.snap = s.snap
      /\ t.graph = s.graph /\ t.wals = u
  BY <1>1, <1>4, <1>6 DEF Shippers
<1>8. PICK s2 : s2 = Idle(t)
  OBVIOUS
<1>9. /\ s2 \in Shippers /\ s2.pc = "idle" /\ s2.todo = {} /\ s2.loaded /\ s2.gen = s.gen
      /\ s2.snap = s.snap /\ s2.graph = s.graph /\ s2.wals = u
  BY <1>1, <1>7, <1>8, IdleIs
<1>10. ASSUME NEW n \in DOMAIN s.manifest.wals, n \in gone PROVE s.wals[n] = <<>>
  <2> SUFFICES ASSUME s.wals[n] # <<>> PROVE FALSE
    OBVIOUS
  <2>1. s.manifest.wals[n] = s.wals[n] /\ s.wals[n] \in Seq(ChunkRef) /\ Good(s.wals[n])
    BY <1>1, ManifestIs DEF BuiltInv, Whole
  <2>2. 1 \in DOMAIN s.manifest.wals[n] /\ s.manifest.wals[n][1].offset = 0
    BY <2>1, FirstOffset
  <2>3. ChunkKey(n, s.manifest.wals[n][1].offset) \in LiveObjects(s.manifest)
    BY <2>2 DEF LiveObjects
  <2> QED
    BY <1>2, <1>10, <2>2, <2>3
<1>11. \A n \in 1..MaxFiles : s2.wals[n] = IF n \in gone THEN <<>> ELSE s.wals[n]
  BY <1>3, <1>9
<1>12. Inv(o, s2, F, N, f)
  BY <1>9, <1>10, <1>11, ForgetStep, ZenonT(60)
<1> QED
  BY <1>5, <1>8, <1>12

LEMMA RetentionInv == ASSUME ObjsInv, Retention, UNCHANGED <<files, names>> PROVE ObjsInv'
<1>1. /\ ship.pc = "retention" /\ ship.loaded /\ ship \in Shippers /\ ObjsOK(objs)
      /\ ship.todo \subseteq 1..names
  BY Facts DEF Retention
<1>2. Live = LiveOf(objs)
  BY DEF Live, LiveOf, Kept, KeptOf, Gens, GensOf
<1>3. CASE Unreachable
  BY <1>3, UnreachableInv
<1>4. CASE ship' = Idle(Forgotten(ship, Live)) /\ UNCHANGED <<objs, faults>>
  <2>1. LiveObjects(ship.manifest) \subseteq Live
    <3>1. objs[ManifestKey(ship.gen)] = ship.manifest /\ ship.gen \in KeptOf(objs)
      BY <1>1, PublishedIs DEF ObjsInv, Inv, PcInv
    <3> QED
      BY <1>2, <3>1 DEF LiveOf
  <2>2. Inv(objs, Idle(Forgotten(ship, Live)), DOMAIN files, names, faults)
    BY <1>1, <2>1, ForgetInv DEF ObjsInv
  <2> QED
    BY <1>4, <2>2 DEF ObjsInv
<1>5. CASE /\ ship' = [ship EXCEPT !.pc = "delete", !.kill = DOMAIN objs \ Live]
           /\ UNCHANGED <<objs, faults>>
  <2>1. DOMAIN objs \ Live \in SUBSET Keys
    BY <1>1 DEF ObjsOK
  <2>2. /\ ship' \in Shippers /\ ship'.pc = "delete" /\ ship'.todo = ship.todo
        /\ ship'.loaded = ship.loaded /\ ship'.gen = ship.gen /\ ship'.snap = ship.snap
        /\ ship'.graph = ship.graph /\ ship'.wals = ship.wals
        /\ ship'.manifest = ship.manifest /\ ship'.kill = DOMAIN objs \ Live
    <3> HIDE DEF Live
    <3> QED
      BY <1>1, <1>5, <2>1 DEF Shippers
  <2>3. ship'.kill \cap LiveOf(objs) = {}
    BY <1>2, <2>2
  <2>4. Inv(objs, ship', DOMAIN files, names, faults)
    BY <1>1, <2>2, <2>3, RetentionStep DEF ObjsInv
  <2> QED
    BY <1>5, <2>4 DEF ObjsInv
<1> QED
  BY <1>3, <1>4, <1>5 DEF Retention

LEMMA DeleteInv ==
    ASSUME ObjsInv, NEW key \in ship.kill, Delete(key), UNCHANGED <<files, names>>
    PROVE  ObjsInv'
<1>1. /\ ship.pc = "delete" /\ ship.loaded /\ ship \in Shippers /\ ship.todo \subseteq 1..names
  BY Facts DEF Delete
<1>2. PICK e : e = Without(key)
  OBVIOUS
<1>3. Inv(e, ship, DOMAIN files, names, faults) /\ LiveObjects(ship.manifest) \subseteq DOMAIN e
  <2>1. e = Except(objs, {key})
    BY <1>2 DEF Without
  <2> QED
    BY <1>1, <2>1, DeleteStep DEF ObjsInv
<1>4. CASE objs' = e /\ ship' = Idle(Forgotten(ship, DOMAIN e)) /\ UNCHANGED faults
  <2>1. Inv(e, Idle(Forgotten(ship, DOMAIN e)), DOMAIN files, names, faults)
    BY <1>1, <1>3, ForgetInv
  <2> QED
    BY <1>4, <2>1 DEF ObjsInv
<1>5. CASE objs' = e /\ ship' = [ship EXCEPT !.kill = @ \ {key}] /\ UNCHANGED faults
  <2>1. /\ ship' \in Shippers /\ ship'.pc = "delete" /\ ship'.todo = ship.todo
        /\ ship'.loaded = ship.loaded /\ ship'.gen = ship.gen /\ ship'.snap = ship.snap
        /\ ship'.graph = ship.graph /\ ship'.wals = ship.wals
        /\ ship'.manifest = ship.manifest /\ ship'.kill = ship.kill \ {key}
    BY <1>1, <1>5 DEF Shippers
  <2>2. Inv(e, ship', DOMAIN files, names, faults)
    BY <1>1, <1>3, <2>1, RetentionStep
  <2> QED
    BY <1>5, <2>2 DEF ObjsInv
<1>6. CASE objs' \in {objs, e} /\ Fails /\ ship' = Idle(ship)
  <2>1. faults' \in Nat \ {0} /\ Inv(objs', ship, DOMAIN files, names, faults)
    BY <1>3, <1>6, FaultsNext DEF ObjsInv
  <2>2. Inv(objs', Idle(ship), DOMAIN files, names, faults')
    BY <2>1, TickEnds
  <2> QED
    BY <1>6, <2>2 DEF ObjsInv
<1> QED
  BY <1>2, <1>4, <1>5, <1>6 DEF Delete

(***************************************************************************)
(* The theorems                                                            *)
(***************************************************************************)
LEMMA InitInv == Init => IInv
<1> SUFFICES ASSUME Init PROVE IInv
  OBVIOUS
<1>1. FilesInv
  BY EmptySeq DEF Init, FilesInv, NoFile
<1>2. /\ objs = [x \in {} |-> 0] /\ ship = NewShipper /\ DOMAIN files = {1} /\ names = 1 /\ faults = 0
  BY DEF Init
<1>3. ObjsInv
  BY <1>2, InvInit DEF ObjsInv
<1> QED
  BY <1>1, <1>3 DEF IInv

LEMMA NextInv == IInv /\ [Next]_vars => IInv'
<1> SUFFICES ASSUME IInv, [Next]_vars PROVE IInv'
  OBVIOUS
<1>1. ASSUME NEW s \in Stores, Write(s) PROVE IInv'
  BY <1>1, FilesWrite
<1>2. CASE Sync \/ Rotate \/ CleanupOldWALs
  BY <1>2, FilesCompact
<1>3. CASE \E n \in 0..MaxRecords : RenameSnapshot(n) \/ RenameGraph(n)
  BY <1>3, FilesCompact
<1>4. CASE Kill \/ \E n \in 0..MaxRecords : PowerLoss(n)
  BY <1>4, FilesDie
<1>5. CASE Tick
  <2>1. UNCHANGED local
    BY <1>5 DEF Tick, TickBegin, OpenWAL, NextChunk, ShipSnapshot, ShipGraph, PutManifest,
                PutLatest, Retention, Delete
  <2>2. FilesInv' /\ UNCHANGED <<files, names>> /\ ObjsInv /\ stamp \in Nat
    BY <2>1 DEF local, IInv, FilesInv
  <2>3. ObjsInv'
    BY <1>5, <2>2, TickBeginInv, OpenWALInv, NextChunkInv, ShipSnapshotInv, ShipGraphInv,
       PutManifestInv, PutLatestInv, RetentionInv, DeleteInv DEF Tick
  <2> QED
    BY <2>2, <2>3 DEF IInv
<1>6. CASE UNCHANGED vars
  BY <1>6 DEF vars, local, IInv, FilesInv, ObjsInv
<1> QED
  BY <1>1, <1>2, <1>3, <1>4, <1>5, <1>6 DEF Next

LEMMA WholeRestorable ==
    ASSUME NEW m, Whole(objs, m), ManifestKey(m.gen) \in DOMAIN objs
    PROVE  Restorable(m)
<1>1. \A key \in LiveObjects(m) : Has(key)
  BY WholeLive DEF Has
<1>2. ASSUME NEW n \in DOMAIN m.wals, NEW j \in DOMAIN m.wals[n]
      PROVE  /\ Len(objs[ChunkKey(n, m.wals[n][j].offset)]) = m.wals[n][j].size
             /\ m.wals[n][j].offset = Size(SubSeq(m.wals[n], 1, j - 1))
  BY DEF Whole, Good, Stored
<1> QED
  BY <1>1, <1>2 DEF Restorable

LEMMA InvRestorable == IInv => ManifestsRestorable
<1> SUFFICES ASSUME IInv PROVE ManifestsRestorable
  OBVIOUS
<1>1. /\ ObjsOK(objs) /\ HasTop(objs) /\ LatestManifest = LatestOf(objs)
      /\ LatestInv(objs, ViewOf(objs, ship), names)
      /\ faults = 0 => HistoryInv(objs, Growing(ship, DOMAIN files), names)
  BY Facts DEF IInv, ObjsInv, Inv
<1>2. LatestIsRestorable
  BY <1>1, WholeRestorable DEF LatestIsRestorable, LatestInv
<1>3. ASSUME Has(LatestKey), faults = 0, NEW g \in Kept, g <= objs[LatestKey].gen
      PROVE  Restorable(objs[ManifestKey(g)])
  <2>1. g \in KeptOf(objs) /\ LatestOf(objs) = objs[LatestKey]
    BY <1>3 DEF Kept, KeptOf, Gens, GensOf, LatestOf, Has
  <2>2. Whole(objs, objs[ManifestKey(g)])
    BY <1>1, <1>3, <2>1 DEF HistoryInv, Older
  <2>3. objs[ManifestKey(g)].gen = g /\ ManifestKey(g) \in DOMAIN objs
    BY <1>1, <2>1, GensAre DEF KeptOf, ObjsOK
  <2> QED
    BY <2>2, <2>3, WholeRestorable
<1> QED
  BY <1>2, <1>3 DEF ManifestsRestorable, HistoryIsRestorable

\* The chunks, snapshots and manifests of internal/ship stay as the induction needs them,
\* in whatever order ticks, failures, compactions, deletions and restarts come.
THEOREM ShipInvariant == Spec => []IInv
<1> QED
  BY InitInv, NextInv, PTL DEF Spec

\* The manifest that a restore takes leads to objects that are all there, chunk behind
\* chunk, at every moment of publishManifest, retention, a crash or a failed call; and so
\* do those that retention keeps, as long as no call has failed.
THEOREM ShipRestorable == Spec => []ManifestsRestorable
<1> QED
  BY ShipInvariant, InvRestorable, PTL
=============================================================================
