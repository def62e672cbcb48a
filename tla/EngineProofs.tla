---------------------------- MODULE EngineProofs ----------------------------
(***************************************************************************)
(* Proofs about the engines for single files: what a modlock claims of the *)
(* files it rolls up (Modlock), what the record tools keep of the script   *)
(* data and of the numbers of occurrences (RecordFields), that a copy of   *)
(* the files that are used needs no other (AssetClosure), what the calls   *)
(* on a Morrowind plugin do to its count and its masters (Tes3Plugin), and *)
(* that the stream of fields of the older engine reads back                *)
(* (LegacyFields).                                                         *)
(***************************************************************************)
EXTENDS Modlock, RecordFields, AssetClosure, Tes3Plugin, LegacyFields,
        SequenceTheorems, OrderLemmas

-----------------------------------------------------------------------------
(* Where files are found.                                                  *)

MlDisk == [MlDirs -> [MlPaths -> MlContents \cup {NoFile}]]

\* A file that some directory has is taken from one that has it.
LEMMA ResolvedHolds ==
  ASSUME NEW disk, NEW dirs \in Seq(MlDirs), NEW p, Holders(disk, dirs, p) # {}
  PROVE  /\ Max(Holders(disk, dirs, p)) \in Holders(disk, dirs, p)
         /\ \A k \in Holders(disk, dirs, p) : k <= Max(Holders(disk, dirs, p))
<1> DEFINE H == Holders(disk, dirs, p)
<1>1. H \subseteq 0 .. Len(dirs) /\ Len(dirs) \in Nat
  BY DEF Holders
<1> HIDE DEF H
<1>2. H # {}
  BY DEF H
<1>3. \E m \in H : \A k \in H : k <= m
  BY <1>1, <1>2, GreatestNatural
<1>4. \E m \in H : \A k \in H : m >= k
  BY <1>1, <1>3
<1>5. Max(H) \in H /\ \A k \in H : Max(H) >= k
  BY <1>4 DEF Max
<1>6. \A k \in H : k <= Max(H)
  BY <1>1, <1>5
<1> QED
  BY <1>5, <1>6 DEF H

LEMMA HashIsFound ==
  ASSUME NEW disk, NEW dirs \in Seq(MlDirs), NEW p
  PROVE  HashFile(disk, dirs, p) # NoFile <=> Holders(disk, dirs, p) # {}
<1>1. ASSUME Holders(disk, dirs, p) # {} PROVE HashFile(disk, dirs, p) # NoFile
  <2> DEFINE m == Max(Holders(disk, dirs, p))
  <2>1. m \in Holders(disk, dirs, p)
    BY <1>1, ResolvedHolds
  <2>2. disk[dirs[m]][p] # NoFile
    BY <2>1 DEF Holders
  <2> QED
    BY <1>1, <2>2 DEF HashFile, ResolveAcross
<1> QED
  BY <1>1 DEF HashFile

\* What is found of a path is what the directories have of that path.
LEMMA SameFound ==
  ASSUME NEW disk, NEW disk2, NEW dirs \in Seq(MlDirs), NEW p,
         \A d \in MlDirs : disk2[d][p] = disk[d][p]
  PROVE  /\ Holders(disk2, dirs, p) = Holders(disk, dirs, p)
         /\ HashFile(disk2, dirs, p) = HashFile(disk, dirs, p)
<1>1. Holders(disk2, dirs, p) = Holders(disk, dirs, p)
  BY DEF Holders
<1>2. CASE Holders(disk, dirs, p) = {}
  BY <1>1, <1>2 DEF HashFile
<1>3. CASE Holders(disk, dirs, p) # {}
  <2> DEFINE m == Max(Holders(disk, dirs, p))
  <2>1. m \in Holders(disk, dirs, p)
    BY <1>3, ResolvedHolds
  <2>2. dirs[m] \in MlDirs
    BY <2>1 DEF Holders
  <2> QED
    BY <1>1, <1>3, <2>2 DEF HashFile, ResolveAcross
<1> QED
  BY <1>1, <1>2, <1>3

-----------------------------------------------------------------------------
(* What the zip has.                                                       *)

\* A path with no other spelling in the directories is not shadowed.
LEMMA OnlySpelling ==
  ASSUME NEW disk, NEW dirs \in Seq(MlDirs), NEW p \in MlPaths,
         \A q \in MlPaths \ {p} : MlFold[q] = MlFold[p] => Holders(disk, dirs, q) = {}
  PROVE  ZipFiles(disk, dirs)[p] = HashFile(disk, dirs, p)
<1>1. ~ Shadowed(disk, dirs, p)
  BY DEF Shadowed, Holders
<1> QED
  BY <1>1 DEF ZipFiles

\* Of a finite set of numbered things one has the greatest number.
LEMMA GreatestNumber ==
  ASSUME NEW S, IsFiniteSet(S), S # {}, NEW f, \A x \in S : f[x] \in Nat
  PROVE  \E x \in S : \A y \in S : f[y] <= f[x]
<1> DEFINE Topped(T) == \E x \in T : \A y \in T : f[y] <= f[x]
           Bad == {T \in SUBSET S : T # {} /\ ~ Topped(T)}
           Sizes == {n \in Nat : \E T \in Bad : Cardinality(T) = n}
<1>1. \A T \in SUBSET S : IsFiniteSet(T) /\ Cardinality(T) \in Nat
  BY FS_Subset, FS_CardinalityType
<1>2. ASSUME Bad # {} PROVE FALSE
  <2>1. Sizes # {} /\ Sizes \subseteq Nat
    BY <1>1, <1>2
  <2>2. PICK n \in Sizes : \A m \in Sizes : n <= m
    <3> HIDE DEF Sizes
    <3> QED
      BY <2>1, LeastNatural
  <2>3. PICK T \in Bad : Cardinality(T) = n
    OBVIOUS
  <2>4. PICK x \in T : TRUE
    OBVIOUS
  <2> DEFINE U == T \ {x}
  <2>5. U \in SUBSET S /\ x \in S
    OBVIOUS
  <2>6. Cardinality(U) = n - 1
    BY <1>1, <2>3, <2>4, FS_RemoveElement
  <2>7. n \in Nat /\ Cardinality(U) \in Nat
    BY <1>1, <2>5
  <2>8. U \notin Bad
    <3>1. U \in Bad => Cardinality(U) \in Sizes
      BY <2>7
    <3>2. ~ (n <= Cardinality(U))
      BY <2>6, <2>7
    <3> QED
      BY <2>2, <3>1, <3>2
  <2>9. CASE U = {}
    <3>1. T = {x} /\ f[x] <= f[x]
      BY <2>5, <2>9, <2>4
    <3>2. Topped(T)
      BY <3>1
    <3> QED
      BY <2>3, <3>2
  <2>10. CASE U # {}
    <3>1. PICK y \in U : \A z \in U : f[z] <= f[y]
      BY <2>5, <2>8, <2>10
    <3>2. f[x] \in Nat /\ \A z \in U : f[z] \in Nat
      BY <2>5
    <3>3. \A z \in T : z = x \/ z \in U
      OBVIOUS
    <3>4. CASE f[x] <= f[y]
      <4>1. y \in T /\ \A z \in T : f[z] <= f[y]
        BY <3>1, <3>3, <3>4
      <4>2. Topped(T)
        BY <4>1
      <4> QED
        BY <2>3, <4>2
    <3>5. CASE ~ (f[x] <= f[y])
      <4>1. \A z \in T : f[z] <= f[x]
        BY <3>1, <3>2, <3>3, <3>5
      <4>2. Topped(T)
        BY <4>1
      <4> QED
        BY <2>3, <4>2
    <3> QED
      BY <3>4, <3>5
  <2> QED
    BY <2>9, <2>10
<1>3. S \in SUBSET S
  OBVIOUS
<1> QED
  BY <1>2, <1>3

\* A path that some directory has is in the zip, under some spelling: of those
\* that shadow one another, the last is in no other's shadow.
LEMMA SomeSpelling ==
  ASSUME NEW disk, NEW dirs \in Seq(MlDirs), NEW p \in MlPaths,
         Holders(disk, dirs, p) # {}
  PROVE  \E q \in MlPaths : MlFold[q] = MlFold[p] /\ ZipFiles(disk, dirs)[q] # NoFile
<1> DEFINE Like == {q \in MlPaths : MlFold[q] = MlFold[p] /\ Holders(disk, dirs, q) # {}}
           last == [q \in MlPaths |-> Max(Holders(disk, dirs, q))]
<1>1. \A q \in Like : /\ last[q] \in Holders(disk, dirs, q)
                      /\ \A k \in Holders(disk, dirs, q) : k <= last[q]
  BY ResolvedHolds
<1>2. \A q \in MlPaths : Holders(disk, dirs, q) \subseteq Nat
  BY DEF Holders
<1>3. \A q \in Like : last[q] \in Nat
  BY <1>1, <1>2
<1>4. IsFiniteSet(Like) /\ Like # {}
  BY ModlockAssumption, FS_Subset
<1>5. PICK q1 \in Like : \A q \in Like : last[q] <= last[q1]
  <2> HIDE DEF Like, last
  <2> QED
    BY <1>3, <1>4, GreatestNumber
<1> DEFINE Late == {q \in Like : last[q] = last[q1]}
<1>6. IsFiniteSet(Late) /\ Late # {}
  BY <1>4, FS_Subset
<1>7. \A q \in Late : MlWalk[q] \in Nat
  BY ModlockAssumption
<1>8. PICK q2 \in Late : \A q \in Late : MlWalk[q] <= MlWalk[q2]
  <2> HIDE DEF Late
  <2> QED
    BY <1>6, <1>7, GreatestNumber
<1>9. ~ Shadowed(disk, dirs, q2)
  <2> SUFFICES ASSUME NEW q \in MlPaths, NEW k \in DOMAIN dirs,
                      q # q2, MlFold[q] = MlFold[q2], disk[dirs[k]][q] # NoFile,
                      \A j \in Holders(disk, dirs, q2) :
                        j < k \/ (j = k /\ MlWalk[q2] < MlWalk[q])
               PROVE  FALSE
    BY DEF Shadowed
  <2>1. k \in Holders(disk, dirs, q)
    BY DEF Holders
  <2>2. q \in Like
    BY <2>1
  <2>3. k <= last[q] /\ last[q] <= last[q2]
    BY <1>1, <1>5, <2>1, <2>2
  <2>4. last[q2] < k \/ (last[q2] = k /\ MlWalk[q2] < MlWalk[q])
    BY <1>1
  <2>5. k \in Nat /\ last[q] \in Nat /\ last[q2] \in Nat
    BY <1>2, <1>3, <2>1, <2>2
  <2>6. last[q] = last[q2] /\ MlWalk[q2] < MlWalk[q]
    BY <2>3, <2>4, <2>5
  <2>7. q \in Late
    BY <2>2, <2>6
  <2> QED
    BY <1>7, <1>8, <2>6, <2>7
<1>10. ZipFiles(disk, dirs)[q2] = HashFile(disk, dirs, q2)
  BY <1>9 DEF ZipFiles
<1> QED
  BY <1>10, HashIsFound

-----------------------------------------------------------------------------
(* What a roll has done at each stage.                                     *)

\* The shape of the files and of what the roll builds.
MlShape ==
  /\ mlSetup \in MlSetups
  /\ mlDisk \in MlDisk
  /\ mlLock = [crcs |-> mlLock.crcs, files |-> mlLock.files]
  /\ mlOut = [lock |-> mlOut.lock, required |-> mlOut.required, zip |-> mlOut.zip]

\* The server's list accepts the checksums of the manifest.
Accepted ==
  mlStage \in {"zip", "check", "done"} /\ mlEnforce =>
    \A p \in Content : mlLock.crcs[p] \in mlOut.required[p]

\* Past the check of the roll every plugin is in a bundle directory, and later
\* in the zip, unless somebody deleted it.
Bundled ==
  mlStage \in {"lock", "required", "zip"} =>
    \A p \in Content : \/ IsVanilla(p) \/ p \in mlDeleted
                       \/ Holders(mlDisk, mlSetup.bundles, p) # {}

Zipped ==
  mlStage \in {"check", "done"} =>
    \A p \in Content : \/ IsVanilla(p) \/ p \in mlDeleted
                       \/ \E q \in MlPaths : MlFold[q] = MlFold[p] /\ mlOut.zip[q] # NoFile

Checked == mlStage = "done" => BadInZip = {}

RollInv == Accepted /\ Bundled /\ Zipped /\ Checked

Alike(p) == {q \in MlPaths : MlFold[q] = MlFold[p]}

\* The manifest lists what the bundle has, but for the files that change, and
\* so does the zip, but for those that have another spelling.
Listed ==
  mlStage \in {"sane", "lock", "required", "zip"} =>
    \A p \in MlPaths : \/ p \in mlTouched
                       \/ mlLock.files[p] = HashFile(mlDisk, mlSetup.bundles, p)

Shipped ==
  mlStage \in {"check", "done"} =>
    \A p \in MlPaths : \/ Alike(p) \cap mlTouched # {}
                       \/ \E q \in Alike(p) \ {p} : mlLock.files[q] # NoFile
                       \/ mlOut.zip[p] = mlLock.files[p]

Written ==
  mlStage \in {"required", "zip", "check", "done"} => mlOut.lock = mlLock

ClientInv == Listed /\ Shipped /\ Written

\* The directories and paths of a roll are those of the model.
LEMMA SetupFacts ==
  ASSUME MlShape
  PROVE  /\ Content \subseteq MlPaths
         /\ mlSetup.bundles \in Seq(MlDirs) /\ mlSetup.dataDirs \in Seq(MlDirs)
<1>1. mlSetup.content \in Seq(MlPaths)
  BY ModlockAssumption DEF MlShape
<1> QED
  BY <1>1, ModlockAssumption DEF MlShape, Content, ToSet

LEMMA InitRoll == MlInit => MlShape /\ RollInv /\ ClientInv
<1> SUFFICES ASSUME NEW start \in MlStarts, MlInitFrom(start)
             PROVE  MlShape /\ RollInv /\ ClientInv
  BY DEF MlInit
<1>1. mlStage = "idle"
  BY DEF MlInitFrom
<1>2. RollInv /\ ClientInv
  BY <1>1 DEF RollInv, ClientInv, Accepted, Bundled, Zipped, Checked, Listed, Shipped, Written
<1>3. MlShape
  BY ModlockAssumption DEF MlInitFrom, MlStarts, MlShape, MlDisk, NoLock
<1> QED
  BY <1>2, <1>3

LEMMA StepShape ==
  ASSUME MlShape, [MlNext]_mlVars
  PROVE  MlShape'
<1> USE DEF MlShape
<1>1. ASSUME NEW base, NEW enforce, ModExport(base, enforce) PROVE MlShape'
  BY <1>1 DEF ModExport, NoLock
<1>2. CASE HashContent
  BY <1>2 DEF HashContent, FilesStay, Goes
<1>3. CASE HashFiles
  BY <1>3 DEF HashFiles, FilesStay
<1>4. CASE AssertRollSane
  BY <1>4 DEF AssertRollSane, FilesStay
<1>5. CASE WriteLock
  BY <1>5 DEF WriteLock, FilesStay
<1>6. CASE WriteRequired
  BY <1>6 DEF WriteRequired, FilesStay
<1>7. CASE WriteBundleZip
  BY <1>7 DEF WriteBundleZip, FilesStay
<1>8. CASE VerifyZipCrc
  BY <1>8 DEF VerifyZipCrc, FilesStay
<1>9. ASSUME NEW dir \in MlDirs, NEW p \in MlPaths, NEW c \in MlContents \cup {NoFile},
             FileChanges(dir, p, c)
      PROVE  MlShape'
  <2>1. mlDisk' \in MlDisk
    BY <1>9 DEF FileChanges, MlDisk
  <2> QED
    BY <1>9, <2>1 DEF FileChanges
<1>10. CASE UNCHANGED mlVars
  BY <1>10 DEF mlVars
<1> QED
  BY <1>1, <1>2, <1>3, <1>4, <1>5, <1>6, <1>7, <1>8, <1>9, <1>10 DEF MlNext

\* A change to one file leaves the others, and leaves that one where it was if
\* it does not delete it.
LEMMA ChangeFacts ==
  ASSUME MlShape, NEW dir \in MlDirs, NEW p \in MlPaths,
         NEW c \in MlContents \cup {NoFile}, FileChanges(dir, p, c)
  PROVE  /\ \A q \in MlPaths \ {p} : \A d \in MlDirs : mlDisk'[d][q] = mlDisk[d][q]
         /\ c # NoFile => \A d \in MlDirs : mlDisk[d][p] # NoFile => mlDisk'[d][p] # NoFile
<1>1. mlDisk' = [mlDisk EXCEPT ![dir][p] = c] /\ mlDisk \in MlDisk
  BY DEF FileChanges, MlShape
<1>2. \A d \in MlDirs : \A q \in MlPaths :
        mlDisk'[d][q] = IF d = dir /\ q = p THEN c ELSE mlDisk[d][q]
  BY <1>1 DEF MlDisk
<1> QED
  BY <1>2

LEMMA ChangeKeepsRoll ==
  ASSUME MlShape, RollInv, NEW dir \in MlDirs, NEW p \in MlPaths,
         NEW c \in MlContents \cup {NoFile}, FileChanges(dir, p, c)
  PROVE  RollInv'
<1>0. UNCHANGED <<mlSetup, mlStage, mlLock, mlEnforce, mlOut, mlRolls>>
  BY DEF FileChanges
<1>1. mlDeleted \subseteq mlDeleted'
  BY DEF FileChanges
<1>2. Content' = Content
  BY <1>0 DEF Content
<1>3. Accepted' /\ Checked' /\ Zipped'
  BY <1>0, <1>1, <1>2 DEF RollInv, Accepted, Checked, Zipped, BadInZip, IsVanilla
<1>4. Bundled'
  <2> SUFFICES ASSUME mlStage \in {"lock", "required", "zip"}, NEW q \in Content,
                      ~ IsVanilla(q), q \notin mlDeleted'
               PROVE  Holders(mlDisk', mlSetup.bundles, q) # {}
    BY <1>0, <1>2 DEF Bundled, IsVanilla
  <2>1. q \in MlPaths /\ mlSetup.bundles \in Seq(MlDirs)
    BY SetupFacts
  <2>2. PICK k \in Holders(mlDisk, mlSetup.bundles, q) : TRUE
    BY <1>1 DEF RollInv, Bundled
  <2>3. mlSetup.bundles[k] \in MlDirs /\ mlDisk[mlSetup.bundles[k]][q] # NoFile
    BY <2>1, <2>2 DEF Holders
  <2>4. q = p => c # NoFile
    BY DEF FileChanges, InRoll
  <2>5. mlDisk'[mlSetup.bundles[k]][q] # NoFile
    BY <2>1, <2>3, <2>4, ChangeFacts
  <2> QED
    BY <2>2, <2>5 DEF Holders
<1> QED
  BY <1>3, <1>4 DEF RollInv

LEMMA StepRoll ==
  ASSUME MlShape, RollInv, [MlNext]_mlVars
  PROVE  RollInv'
<1> USE DEF RollInv
<1>1. ASSUME NEW base, NEW enforce, ModExport(base, enforce) PROVE RollInv'
  BY <1>1 DEF ModExport, Goes, Accepted, Bundled, Zipped, Checked
<1>2. CASE HashContent
  BY <1>2 DEF HashContent, Goes, Accepted, Bundled, Zipped, Checked
<1>3. CASE HashFiles
  BY <1>3 DEF HashFiles, Goes, Accepted, Bundled, Zipped, Checked
<1>4. CASE AssertRollSane
  <2>1. Accepted' /\ Zipped' /\ Checked'
    BY <1>4 DEF AssertRollSane, Goes, Accepted, Zipped, Checked
  <2>2. mlStage' = "lock" => RollSane
    BY <1>4 DEF AssertRollSane, Goes
  <2>3. ASSUME RollSane, NEW p \in Content, ~ IsVanilla(p)
        PROVE  Holders(mlDisk, mlSetup.bundles, p) # {}
    <3> DEFINE m == Max(Holders(mlDisk, mlSetup.dataDirs, p))
    <3>1. /\ Holders(mlDisk, mlSetup.dataDirs, p) # {}
          /\ mlSetup.dataDirs[m] \in ToSet(mlSetup.bundles)
      BY <2>3 DEF RollSane, ResolveAcross
    <3>2. m \in Holders(mlDisk, mlSetup.dataDirs, p)
      BY <3>1, SetupFacts, ResolvedHolds
    <3>3. mlDisk[mlSetup.dataDirs[m]][p] # NoFile
      BY <3>2 DEF Holders
    <3> QED
      BY <3>1, <3>3 DEF ToSet, Holders
  <2>4. UNCHANGED <<mlSetup, mlDisk, mlDeleted>> /\ mlStage' \in {"lock", "failed"}
    BY <1>4 DEF AssertRollSane, FilesStay, Goes
  <2>5. Content' = Content
    BY <2>4 DEF Content
  <2>6. Bundled'
    BY <2>2, <2>3, <2>4, <2>5 DEF Bundled, IsVanilla
  <2> QED
    BY <2>1, <2>6
<1>5. CASE WriteLock
  <2>1. UNCHANGED <<mlSetup, mlDisk, mlDeleted>> /\ mlStage = "lock" /\ mlStage' = "required"
    BY <1>5 DEF WriteLock, FilesStay, Goes
  <2>2. Content' = Content
    BY <2>1 DEF Content
  <2> QED
    BY <2>1, <2>2 DEF Accepted, Bundled, Zipped, Checked, IsVanilla
<1>6. CASE WriteRequired
  <2>1. /\ UNCHANGED <<mlSetup, mlDisk, mlDeleted, mlLock, mlEnforce>>
        /\ mlStage = "required" /\ mlStage' = "zip"
    BY <1>6 DEF WriteRequired, FilesStay, Goes
  <2>2. Content' = Content
    BY <2>1 DEF Content
  <2>3. mlOut'.required = RequiredDataFiles(mlLock.crcs, mlEnforce)
    BY <1>6 DEF WriteRequired, MlShape
  <2>4. Accepted'
    BY <2>1, <2>2, <2>3 DEF Accepted, RequiredDataFiles
  <2> QED
    BY <2>1, <2>2, <2>4 DEF Bundled, Zipped, Checked, IsVanilla
<1>7. CASE WriteBundleZip
  <2>1. /\ UNCHANGED <<mlSetup, mlDisk, mlDeleted, mlLock, mlEnforce>>
        /\ mlStage = "zip" /\ mlStage' = "check"
    BY <1>7 DEF WriteBundleZip, FilesStay, Goes
  <2>2. Content' = Content
    BY <2>1 DEF Content
  <2>3. /\ mlOut'.zip = ZipFiles(mlDisk, mlSetup.bundles)
        /\ mlOut'.required = mlOut.required
    BY <1>7 DEF WriteBundleZip, MlShape
  <2>4. Accepted'
    BY <2>1, <2>2, <2>3 DEF Accepted
  <2>5. Zipped'
    BY <2>1, <2>2, <2>3, SomeSpelling, SetupFacts DEF Zipped, Bundled, IsVanilla
  <2> QED
    BY <2>1, <2>4, <2>5 DEF Bundled, Checked
<1>8. CASE VerifyZipCrc
  <2>1. /\ UNCHANGED <<mlSetup, mlDisk, mlDeleted, mlLock, mlEnforce, mlOut>>
        /\ mlStage = "check" /\ mlStage' = IF BadInZip = {} THEN "done" ELSE "failed"
    BY <1>8 DEF VerifyZipCrc, FilesStay, Goes
  <2>2. Content' = Content /\ BadInZip' = BadInZip
    BY <2>1 DEF Content, BadInZip
  <2> QED
    BY <2>1, <2>2 DEF Accepted, Bundled, Zipped, Checked, IsVanilla
<1>9. ASSUME NEW dir \in MlDirs, NEW p \in MlPaths, NEW c \in MlContents \cup {NoFile},
             FileChanges(dir, p, c)
      PROVE  RollInv'
  BY <1>9, ChangeKeepsRoll
<1>10. CASE UNCHANGED mlVars
  BY <1>10 DEF mlVars, Accepted, Bundled, Zipped, Checked, Content, IsVanilla, BadInZip
<1> QED
  BY <1>1, <1>2, <1>3, <1>4, <1>5, <1>6, <1>7, <1>8, <1>9, <1>10 DEF MlNext

\* What a roll ships is what the server enforces: for any load order, any
\* directories and spellings, and whatever files change between its three
\* readings of them.
THEOREM ShipsEnforced == MlSpec => []RollShipsEnforced
<1>1. MlShape /\ RollInv /\ [MlNext]_mlVars => MlShape' /\ RollInv'
  BY StepShape, StepRoll
<1>2. RollInv => RollShipsEnforced
  <2> SUFFICES ASSUME RollInv, mlStage = "done", mlEnforce, NEW p \in Content,
                      ~ IsVanilla(p), p \notin mlDeleted,
                      \A q \in MlPaths \ {p} :
                        ~ (MlFold[q] = MlFold[p] /\ mlOut.zip[q] # NoFile)
               PROVE  mlOut.zip[p] # NoFile /\ mlOut.zip[p] \in mlOut.required[p]
    BY DEF RollShipsEnforced
  <2>1. mlOut.zip[p] # NoFile
    BY DEF RollInv, Zipped
  <2>2. mlOut.zip[p] = mlLock.crcs[p]
    BY <2>1 DEF RollInv, Checked, BadInZip
  <2> QED
    BY <2>1, <2>2 DEF RollInv, Accepted
<1> QED
  BY <1>1, <1>2, InitRoll, PTL DEF MlSpec

LEMMA ChangeKeepsClient ==
  ASSUME MlShape, ClientInv, NEW dir \in MlDirs, NEW p \in MlPaths,
         NEW c \in MlContents \cup {NoFile}, FileChanges(dir, p, c)
  PROVE  ClientInv'
<1>0. UNCHANGED <<mlSetup, mlStage, mlLock, mlEnforce, mlOut, mlRolls>>
  BY DEF FileChanges
<1>1. mlTouched \subseteq mlTouched'
  BY DEF FileChanges
<1>2. Written' /\ Shipped'
  BY <1>0, <1>1 DEF ClientInv, Written, Shipped
<1>3. Listed'
  <2> SUFFICES ASSUME mlStage \in {"sane", "lock", "required", "zip"},
                      NEW q \in MlPaths, q \notin mlTouched'
               PROVE  mlLock.files[q] = HashFile(mlDisk', mlSetup.bundles, q)
    BY <1>0 DEF Listed
  <2>1. q # p
    BY DEF FileChanges, InRoll
  <2>2. \A d \in MlDirs : mlDisk'[d][q] = mlDisk[d][q]
    BY <2>1, ChangeFacts
  <2> DEFINE disk2 == mlDisk'
  <2>3. \A d \in MlDirs : disk2[d][q] = mlDisk[d][q]
    BY <2>2
  <2> HIDE DEF disk2
  <2>4. HashFile(disk2, mlSetup.bundles, q) = HashFile(mlDisk, mlSetup.bundles, q)
    BY <2>3, SetupFacts, SameFound
  <2>5. mlLock.files[q] = HashFile(disk2, mlSetup.bundles, q)
    BY <1>1, <2>4 DEF ClientInv, Listed
  <2> QED
    BY <2>5 DEF disk2
<1> QED
  BY <1>2, <1>3 DEF ClientInv

\* Of the directories that the manifest lists, the zip has the same, but for
\* what changed in between and for paths with another spelling.
LEMMA ZipIsListed ==
  ASSUME MlShape, mlStage = "zip", Listed, NEW p \in MlPaths,
         Alike(p) \cap mlTouched = {}, \A q \in Alike(p) \ {p} : mlLock.files[q] = NoFile
  PROVE  ZipFiles(mlDisk, mlSetup.bundles)[p] = mlLock.files[p]
<1>1. mlSetup.bundles \in Seq(MlDirs)
  BY SetupFacts
<1>2. \A q \in Alike(p) : mlLock.files[q] = HashFile(mlDisk, mlSetup.bundles, q)
  BY DEF Listed, Alike
<1>3. ASSUME NEW q \in MlPaths \ {p}, MlFold[q] = MlFold[p]
      PROVE  Holders(mlDisk, mlSetup.bundles, q) = {}
  <2>1. q \in Alike(p) \ {p}
    BY <1>3 DEF Alike
  <2>2. HashFile(mlDisk, mlSetup.bundles, q) = NoFile
    BY <1>2, <2>1
  <2> QED
    BY <1>1, <2>2, HashIsFound
<1>4. p \in Alike(p)
  BY DEF Alike
<1> QED
  BY <1>1, <1>2, <1>3, <1>4, OnlySpelling

LEMMA StepClient ==
  ASSUME MlShape, ClientInv, [MlNext]_mlVars
  PROVE  ClientInv'
<1> USE DEF ClientInv
<1>1. ASSUME NEW base, NEW enforce, ModExport(base, enforce) PROVE ClientInv'
  BY <1>1 DEF ModExport, Goes, Listed, Shipped, Written
<1>2. CASE HashContent
  BY <1>2 DEF HashContent, Goes, Listed, Shipped, Written
<1>3. CASE HashFiles
  <2>1. /\ UNCHANGED <<mlSetup, mlDisk, mlTouched>> /\ mlStage' = "sane"
        /\ mlLock'.files = BundleFiles(mlDisk, mlSetup.bundles)
    BY <1>3 DEF HashFiles, FilesStay, Goes, MlShape
  <2>2. Listed'
    BY <2>1 DEF Listed, BundleFiles
  <2> QED
    BY <2>1, <2>2 DEF Shipped, Written
<1>4. CASE AssertRollSane
  <2>1. /\ UNCHANGED <<mlSetup, mlDisk, mlTouched, mlLock>> /\ mlStage = "sane"
        /\ mlStage' \in {"lock", "failed"}
    BY <1>4 DEF AssertRollSane, FilesStay, Goes
  <2> QED
    BY <2>1 DEF Listed, Shipped, Written
<1>5. CASE WriteLock
  <2>1. /\ UNCHANGED <<mlSetup, mlDisk, mlTouched, mlLock>> /\ mlStage = "lock"
        /\ mlStage' = "required" /\ mlOut'.lock = mlLock
    BY <1>5 DEF WriteLock, FilesStay, Goes, MlShape
  <2> QED
    BY <2>1 DEF Listed, Shipped, Written
<1>6. CASE WriteRequired
  <2>1. /\ UNCHANGED <<mlSetup, mlDisk, mlTouched, mlLock>> /\ mlStage = "required"
        /\ mlStage' = "zip" /\ mlOut'.lock = mlOut.lock
    BY <1>6 DEF WriteRequired, FilesStay, Goes, MlShape
  <2> QED
    BY <2>1 DEF Listed, Shipped, Written
<1>7. CASE WriteBundleZip
  <2>1. /\ UNCHANGED <<mlSetup, mlDisk, mlTouched, mlLock>> /\ mlStage = "zip"
        /\ mlStage' = "check" /\ mlOut'.lock = mlOut.lock
        /\ mlOut'.zip = ZipFiles(mlDisk, mlSetup.bundles)
    BY <1>7 DEF WriteBundleZip, FilesStay, Goes, MlShape
  <2>2. Shipped'
    BY <2>1, ZipIsListed DEF Shipped
  <2> QED
    BY <2>1, <2>2 DEF Listed, Written
<1>8. CASE VerifyZipCrc
  <2>1. /\ UNCHANGED <<mlSetup, mlDisk, mlTouched, mlLock, mlOut>> /\ mlStage = "check"
        /\ mlStage' \in {"done", "failed"}
    BY <1>8 DEF VerifyZipCrc, FilesStay, Goes
  <2> QED
    BY <2>1 DEF Listed, Shipped, Written
<1>9. ASSUME NEW dir \in MlDirs, NEW p \in MlPaths, NEW c \in MlContents \cup {NoFile},
             FileChanges(dir, p, c)
      PROVE  ClientInv'
  BY <1>9, ChangeKeepsClient
<1>10. CASE UNCHANGED mlVars
  BY <1>10 DEF mlVars, Listed, Shipped, Written
<1> QED
  BY <1>1, <1>2, <1>3, <1>4, <1>5, <1>6, <1>7, <1>8, <1>9, <1>10 DEF MlNext

\* What a client unpacks is what the manifest says, but for the documents, for
\* files whose content or spelling changed while the roll ran, and for paths in
\* two spellings.
THEOREM ClientHasWhatIsListed == MlSpec => []ClientMatchesLock
<1>1. MlShape /\ ClientInv /\ [MlNext]_mlVars => MlShape' /\ ClientInv'
  BY StepShape, StepClient
<1>2. ClientInv => ClientMatchesLock
  <2> SUFFICES ASSUME ClientInv, mlStage = "done"
               PROVE  ClientMatchesLock
    BY DEF ClientMatchesLock
  <2> DEFINE unpacked == [p \in MlPaths |-> IF p \in BundleDocs THEN Doc ELSE mlOut.zip[p]]
             report == Verify(mlOut.lock, unpacked)
  <2>1. ASSUME NEW p \in report.mismatched \cup report.missing \cup report.extra
        PROVE  p \in MlPaths /\ unpacked[p] # mlOut.lock.files[p]
    BY <2>1 DEF Verify
  <2>2. ASSUME NEW p \in report.mismatched \cup report.missing \cup report.extra,
               p \notin BundleDocs, Alike(p) \cap mlTouched = {}
        PROVE  \E q \in Alike(p) \ {p} : mlOut.lock.files[q] # NoFile
    <3>1. p \in MlPaths /\ mlOut.zip[p] # mlOut.lock.files[p]
      BY <2>1, <2>2
    <3> QED
      BY <2>2, <3>1 DEF ClientInv, Shipped, Written
  <2> QED
    BY <2>2 DEF ClientMatchesLock, Alike
<1> QED
  BY <1>1, <1>2, InitRoll, PTL DEF MlSpec

-----------------------------------------------------------------------------
(* Lists with one entry more, or less.                                     *)

Inserted(t, s, i, e) ==
  /\ DOMAIN t = 1 .. (Len(s) + 1)
  /\ \A l \in 1 .. (i - 1) : t[l] = s[l]
  /\ t[i] = e
  /\ \A l \in i .. Len(s) : t[l + 1] = s[l]

Removed(t, s, i) ==
  /\ DOMAIN t = 1 .. (Len(s) - 1)
  /\ \A l \in 1 .. (i - 1) : t[l] = s[l]
  /\ \A l \in (i + 1) .. Len(s) : t[l - 1] = s[l]

LEMMA InsertAtFacts ==
  ASSUME NEW X, NEW s \in Seq(X), NEW i \in 1 .. (Len(s) + 1), NEW e \in X
  PROVE  InsertAt(s, i, e) \in Seq(X) /\ Inserted(InsertAt(s, i, e), s, i, e)
<1> DEFINE left == SubSeq(s, 1, i - 1)
           right == SubSeq(s, i, Len(s))
           mid == left \o <<e>>
           t == mid \o right
<1>0. PICK n \in Nat : n = Len(s)
  OBVIOUS
<1>1. left \in Seq(X) /\ Len(left) = i - 1
  BY <1>0, SubSeqProperties
<1>2. \A l \in 1 .. (i - 1) : left[l] = s[l]
  BY <1>0, SubSeqProperties
<1>3. right \in Seq(X) /\ Len(right) = (n - i) + 1
  BY <1>0, SubSeqProperties
<1>4. \A l \in 1 .. ((n - i) + 1) : right[l] = s[(i + l) - 1]
  BY <1>0, SubSeqProperties
<1>5. InsertAt(s, i, e) = t
  BY DEF InsertAt
<1> HIDE DEF left, right
<1>6. mid \in Seq(X)
  BY <1>1
<1>7. Len(mid) = i
  BY <1>1
<1>8. mid[i] = e
  BY <1>1
<1>9. \A l \in 1 .. (i - 1) : mid[l] = left[l]
  BY <1>1
<1> HIDE DEF mid
<1>10. t \in Seq(X)
  BY <1>3, <1>6
<1>11. Len(t) = Len(mid) + Len(right)
  BY <1>3, <1>6
<1>12. \A l \in 1 .. i : t[l] = mid[l]
  BY <1>3, <1>6, <1>7
<1>13. \A l \in 1 .. ((n - i) + 1) : t[i + l] = right[l]
  BY <1>3, <1>6, <1>7
<1> HIDE DEF t
<1>14. Len(t) = n + 1
  BY <1>0, <1>3, <1>7, <1>11
<1>15. DOMAIN t = 1 .. (Len(s) + 1)
  BY <1>0, <1>10, <1>14
<1>16. \A l \in 1 .. (i - 1) : t[l] = s[l]
  BY <1>2, <1>9, <1>12
<1>17. t[i] = e
  BY <1>0, <1>8, <1>12
<1>18. ASSUME NEW l \in i .. n PROVE t[l + 1] = s[l]
  <2>1. (l - i) + 1 \in 1 .. ((n - i) + 1) /\ i + ((l - i) + 1) = l + 1
        /\ (i + ((l - i) + 1)) - 1 = l
    BY <1>0
  <2> QED
    BY <1>4, <1>13, <2>1
<1> QED
  BY <1>0, <1>5, <1>10, <1>15, <1>16, <1>17, <1>18 DEF Inserted

LEMMA RemoveAtFacts ==
  ASSUME NEW X, NEW s \in Seq(X), NEW i \in 1 .. Len(s)
  PROVE  RemoveAt(s, i) \in Seq(X) /\ Removed(RemoveAt(s, i), s, i)
<1> DEFINE left == SubSeq(s, 1, i - 1)
           right == SubSeq(s, i + 1, Len(s))
           t == left \o right
<1>0. PICK n \in Nat : n = Len(s)
  OBVIOUS
<1>1. left \in Seq(X) /\ Len(left) = i - 1
  BY <1>0, SubSeqProperties
<1>2. \A l \in 1 .. (i - 1) : left[l] = s[l]
  BY <1>0, SubSeqProperties
<1>3. right \in Seq(X) /\ Len(right) = n - i
  BY <1>0, SubSeqProperties
<1>4. \A l \in 1 .. (n - i) : right[l] = s[i + l]
  BY <1>0, SubSeqProperties
<1>5. RemoveAt(s, i) = t
  BY DEF RemoveAt
<1> HIDE DEF left, right
<1>10. t \in Seq(X)
  BY <1>1, <1>3
<1>11. Len(t) = Len(left) + Len(right)
  <2>1. left \in Seq(X) /\ right \in Seq(X)
    BY <1>1, <1>3
  <2> QED
    BY ONLY <2>1, ConcatProperties
<1>12. \A l \in 1 .. (i - 1) : t[l] = left[l]
  <2>1. PICK a \in Nat : a = i - 1
    BY <1>0
  <2>2. \A l \in 1 .. a : t[l] = left[l]
    BY <1>1, <1>3, <2>1
  <2> QED
    BY <2>1, <2>2
<1>13. \A l \in 1 .. (n - i) : t[(i - 1) + l] = right[l]
  <2>1. PICK a \in Nat : a = i - 1
    BY <1>0
  <2>2. \A l \in 1 .. (n - i) : t[a + l] = right[l]
    BY <1>1, <1>3, <2>1, SMTT(20)
  <2> QED
    BY <2>1, <2>2
<1> HIDE DEF t
<1>14. Len(t) = n - 1
  BY <1>0, <1>1, <1>3, <1>11
<1>15. DOMAIN t = 1 .. (Len(s) - 1)
  BY <1>0, <1>10, <1>14
<1>16. \A l \in 1 .. (i - 1) : t[l] = s[l]
  BY <1>2, <1>12
<1>18. ASSUME NEW l \in (i + 1) .. n PROVE t[l - 1] = s[l]
  <2>1. l - i \in 1 .. (n - i) /\ (i - 1) + (l - i) = l - 1 /\ i + (l - i) = l
    BY <1>0
  <2> QED
    BY <1>4, <1>13, <2>1
<1> QED
  BY <1>0, <1>5, <1>10, <1>15, <1>16, <1>18 DEF Removed

-----------------------------------------------------------------------------
(* The occurrences of a signature.                                         *)

\* What the fields of a record hold: plain bytes or script data.
VmadBodies == [scripts : Scripts, fragment : Fragments \cup {NoFragment, EmptyFragment},
               aliases : Aliases \cup {NoAliases}]

FieldEntry == [id : Nat, sig : FieldSigs, len : FieldLens \cup {Max(FieldLens)},
               body : Bodies \cup VmadBodies]

\* A number that is an occurrence's names one.
LEMMA NthIsOccurrence ==
  ASSUME NEW X, NEW fields \in Seq(X), NEW sig, NEW n \in Nat, HasNth(fields, sig, n)
  PROVE  NthIndex(fields, sig, n) \in Occurrences(fields, sig)
<1> DEFINE S == Occurrences(fields, sig)
<1>0. PICK m \in Nat : m = Len(fields) /\ DOMAIN fields = 1 .. m
  OBVIOUS
<1>1. S \subseteq 1 .. m
  BY <1>0 DEF Occurrences
<1>2. \A i \in S : Occurrences(fields, fields[i].sig) = S
  BY DEF Occurrences
<1>3. n < Cardinality(S)
  BY DEF HasNth
<1> HIDE DEF S
<1>4. IsFiniteSet(S) /\ Cardinality(S) \in Nat
  BY <1>1, RankFacts
<1>5. n + 1 \in 1 .. Cardinality(S)
  BY <1>3, <1>4
<1> DEFINE k == NthOf(S, n + 1)
<1>6. k \in S /\ Rank(S, k) = n + 1
  BY <1>1, <1>5, NthFacts
<1> HIDE DEF k
<1>7. Cardinality({i \in S : i < k}) = n
  <2> DEFINE T == {i \in S : i <= k}
  <2>1. IsFiniteSet(T) /\ k \in T /\ Cardinality(T) = n + 1
    BY <1>1, <1>4, <1>6, FS_Subset DEF Rank
  <2>2. {i \in S : i < k} = T \ {k}
    <3>1. \A j \in S : j \in Nat
      BY <1>1
    <3>2. \A j \in S : j < k <=> (j <= k /\ j # k)
      BY <1>6, <3>1
    <3> QED
      BY <3>2
  <2> HIDE DEF T
  <2>3. Cardinality(T \ {k}) = Cardinality(T) - 1
    BY <2>1, FS_RemoveElement
  <2>4. Cardinality(T) - 1 = n
    BY <2>1
  <2> QED
    BY <2>2, <2>3, <2>4
<1>8. OccurrenceIndex(fields, k) = n
  BY <1>2, <1>6, <1>7 DEF OccurrenceIndex
<1>9. \E i \in S : OccurrenceIndex(fields, i) = n
  BY <1>6, <1>8
<1> QED
  BY <1>9 DEF NthIndex, S

\* The occurrence with the number 0 is the first.
IsFirst(fields, sig, i) ==
  /\ i \in DOMAIN fields
  /\ fields[i].sig = sig
  /\ \A j \in DOMAIN fields : j < i => fields[j].sig # sig

LEMMA FirstIsZero ==
  ASSUME NEW X, NEW fields \in Seq(X), NEW sig, NEW i, IsFirst(fields, sig, i)
  PROVE  NthIndex(fields, sig, 0) = i /\ HasNth(fields, sig, 0)
<1> DEFINE S == Occurrences(fields, sig)
<1>0. PICK m \in Nat : m = Len(fields) /\ DOMAIN fields = 1 .. m
  OBVIOUS
<1>1. S \subseteq 1 .. m /\ i \in S
  BY <1>0 DEF Occurrences, IsFirst
<1>2. \A k \in S : Occurrences(fields, fields[k].sig) = S
  BY DEF Occurrences
<1>3. \A k \in S : i <= k
  BY <1>0 DEF IsFirst, Occurrences
<1> HIDE DEF S
<1>4. IsFiniteSet(S) /\ Cardinality(S) \in Nat /\ Cardinality(S) # 0
  BY <1>1, RankFacts, FS_EmptySet
<1>5. \A k \in S : OccurrenceIndex(fields, k) = 0 <=> k = i
  <2> TAKE k \in S
  <2> DEFINE T == {j \in S : j < k}
  <2>1. IsFiniteSet(T)
    BY <1>4, FS_Subset
  <2>2. OccurrenceIndex(fields, k) = Cardinality(T)
    BY <1>2 DEF OccurrenceIndex
  <2>3. T = {} <=> k = i
    <3>1. \A j \in S : j \in Nat
      BY <1>1
    <3>2. i \in Nat /\ k \in Nat /\ i <= k
      BY <1>1, <1>3, <3>1
    <3>3. ASSUME k = i PROVE T = {}
      <4>1. \A j \in S : ~(j < i)
        BY <1>3, <3>1, <3>2
      <4> QED
        BY <3>3, <4>1
    <3>4. ASSUME k # i PROVE T # {}
      <4>1. i < k
        BY <3>2, <3>4
      <4>2. i \in T
        BY <1>1, <4>1
      <4> QED
        BY <4>2
    <3> QED
      BY <3>3, <3>4
  <2> HIDE DEF T
  <2> QED
    BY <2>1, <2>2, <2>3, FS_EmptySet
<1>6. NthIndex(fields, sig, 0) = i
  BY <1>1, <1>5 DEF NthIndex, S
<1> QED
  BY <1>4, <1>6 DEF HasNth, S

\* The first field of a signature stays what it is while others are written.
FirstKept(t, s, sig) ==
  \A i : IsFirst(s, sig, i) => \E j : IsFirst(t, sig, j) /\ t[j] = s[i]

LEMMA SetKeepsFirst ==
  ASSUME NEW s \in Seq(FieldEntry), NEW k \in DOMAIN s, NEW g \in FieldEntry, NEW sig,
         s[k].sig # sig, g.sig # sig
  PROVE  FirstKept([s EXCEPT ![k] = g], s, sig)
<1> DEFINE t == [s EXCEPT ![k] = g]
<1>1. DOMAIN t = DOMAIN s /\ t[k] = g /\ \A l \in DOMAIN s : l # k => t[l] = s[l]
  OBVIOUS
<1> HIDE DEF t
<1>2. ASSUME NEW i, IsFirst(s, sig, i) PROVE IsFirst(t, sig, i) /\ t[i] = s[i]
  BY <1>1, <1>2 DEF IsFirst
<1> QED
  BY <1>2 DEF FirstKept, t

LEMMA InsertKeepsFirst ==
  ASSUME NEW s \in Seq(FieldEntry), NEW t, NEW p \in 1 .. (Len(s) + 1), NEW e, NEW sig,
         Inserted(t, s, p, e), e.sig # sig
  PROVE  FirstKept(t, s, sig)
<1>0. PICK m \in Nat : m = Len(s) /\ DOMAIN s = 1 .. m
  OBVIOUS
<1>1. /\ DOMAIN t = 1 .. (m + 1)
      /\ \A l \in 1 .. (p - 1) : t[l] = s[l]
      /\ t[p] = e
      /\ \A l \in p .. m : t[l + 1] = s[l]
  BY <1>0 DEF Inserted
<1>2. ASSUME NEW i, IsFirst(s, sig, i) PROVE \E j : IsFirst(t, sig, j) /\ t[j] = s[i]
  <2>1. i \in 1 .. m /\ s[i].sig = sig
    BY <1>0, <1>2 DEF IsFirst
  <2>2. \A j \in 1 .. m : j < i => s[j].sig # sig
    BY <1>0, <1>2 DEF IsFirst
  <2>3. CASE i < p
    <3>1. i \in 1 .. (m + 1) /\ t[i] = s[i]
      BY <1>0, <1>1, <2>1, <2>3
    <3>2. ASSUME NEW j \in 1 .. (m + 1), j < i PROVE t[j].sig # sig
      <4>1. j \in 1 .. (p - 1) /\ j \in 1 .. m
        BY <1>0, <2>1, <2>3, <3>2
      <4> QED
        BY <1>1, <2>2, <3>2, <4>1
    <3> QED
      BY <1>1, <2>1, <3>1, <3>2 DEF IsFirst
  <2>4. CASE ~(i < p)
    <3>1. i + 1 \in 1 .. (m + 1) /\ i \in p .. m
      BY <1>0, <2>1, <2>4
    <3>2. t[i + 1] = s[i]
      BY <1>1, <3>1
    <3>3. ASSUME NEW j \in 1 .. (m + 1), j < i + 1 PROVE t[j].sig # sig
      <4>1. CASE j < p
        <5>1. j \in 1 .. (p - 1) /\ j \in 1 .. m /\ j < i
          BY <1>0, <2>1, <2>4, <4>1
        <5> QED
          BY <1>1, <2>2, <5>1
      <4>2. CASE j = p
        BY <1>1, <4>2
      <4>3. CASE p < j
        <5>1. PICK l \in Nat : l = j - 1
          BY <4>3
        <5>2. l \in p .. m /\ l \in 1 .. m /\ l < i /\ l + 1 = j
          BY <1>0, <2>1, <3>3, <4>3, <5>1
        <5> QED
          BY <1>1, <2>2, <5>2
      <4> QED
        BY <4>1, <4>2, <4>3
    <3> QED
      BY <1>1, <2>1, <3>1, <3>2, <3>3 DEF IsFirst
  <2> QED
    BY <2>3, <2>4
<1> QED
  BY <1>2 DEF FirstKept

LEMMA RemoveKeepsFirst ==
  ASSUME NEW s \in Seq(FieldEntry), NEW t, NEW p \in 1 .. Len(s), NEW sig,
         Removed(t, s, p), s[p].sig # sig
  PROVE  FirstKept(t, s, sig)
<1>0. PICK m \in Nat : m = Len(s) /\ DOMAIN s = 1 .. m
  OBVIOUS
<1>1. /\ DOMAIN t = 1 .. (m - 1)
      /\ \A l \in 1 .. (p - 1) : t[l] = s[l]
      /\ \A l \in (p + 1) .. m : t[l - 1] = s[l]
  BY <1>0 DEF Removed
<1>2. ASSUME NEW i, IsFirst(s, sig, i) PROVE \E j : IsFirst(t, sig, j) /\ t[j] = s[i]
  <2>1. i \in 1 .. m /\ s[i].sig = sig
    BY <1>0, <1>2 DEF IsFirst
  <2>2. \A j \in 1 .. m : j < i => s[j].sig # sig
    BY <1>0, <1>2 DEF IsFirst
  <2>3. CASE i < p
    <3>1. i \in 1 .. (m - 1) /\ t[i] = s[i]
      BY <1>0, <1>1, <2>1, <2>3
    <3>2. ASSUME NEW j \in 1 .. (m - 1), j < i PROVE t[j].sig # sig
      <4>1. j \in 1 .. (p - 1) /\ j \in 1 .. m
        BY <1>0, <2>1, <2>3, <3>2
      <4> QED
        BY <1>1, <2>2, <3>2, <4>1
    <3> QED
      BY <1>1, <2>1, <3>1, <3>2 DEF IsFirst
  <2>4. CASE i > p
    <3>1. PICK k \in Nat : k = i - 1
      BY <2>1
    <3>2. k \in 1 .. (m - 1) /\ i \in (p + 1) .. m
      BY <1>0, <2>1, <2>4, <3>1
    <3>3. t[k] = s[i]
      BY <1>1, <3>1, <3>2
    <3>4. ASSUME NEW j \in 1 .. (m - 1), j < k PROVE t[j].sig # sig
      <4>1. CASE j < p
        <5>1. j \in 1 .. (p - 1) /\ j \in 1 .. m /\ j < i
          BY <1>0, <2>1, <2>4, <4>1
        <5> QED
          BY <1>1, <2>2, <5>1
      <4>2. CASE ~(j < p)
        <5>1. PICK l \in Nat : l = j + 1
          OBVIOUS
        <5>2. l \in (p + 1) .. m /\ l \in 1 .. m /\ l < i /\ l - 1 = j
          BY <1>0, <2>1, <3>1, <3>4, <4>2, <5>1
        <5>3. t[l - 1] = s[l]
          BY <1>1, <5>2
        <5> QED
          BY <2>2, <5>2, <5>3
      <4> QED
        BY <4>1, <4>2
    <3> QED
      BY <1>1, <2>1, <3>2, <3>3, <3>4 DEF IsFirst
  <2>5. i # p
    BY <2>1
  <2> QED
    BY <1>0, <2>1, <2>3, <2>4, <2>5
<1> QED
  BY <1>2 DEF FirstKept

\* A field is inserted into the list or at one of its ends.
LEMMA PlaceFits ==
  ASSUME NEW X, NEW fields \in Seq(X), NEW where,
         where.at \in {"after", "before", "index", "end"}, HasPlace(fields, where)
  PROVE  InsertPosition(fields, where) \in 1 .. (Len(fields) + 1)
<1>0. PICK m \in Nat : m = Len(fields) /\ DOMAIN fields = 1 .. m
  OBVIOUS
<1>1. CASE where.at = "index"
  <2>1. where.pos \in 0 .. m
    BY <1>0, <1>1 DEF HasPlace
  <2>2. InsertPosition(fields, where) = where.pos + 1
    BY <1>1 DEF InsertPosition
  <2> QED
    BY <1>0, <2>1, <2>2
<1>2. CASE where.at = "end"
  BY <1>0, <1>2 DEF InsertPosition
<1>3. CASE where.at \in {"after", "before"}
  <2> DEFINE S == Occurrences(fields, where.sig)
  <2>1. S # {}
    BY <1>3 DEF HasPlace
  <2>2. S \subseteq 1 .. m
    BY <1>0 DEF Occurrences
  <2>3. InsertPosition(fields, where) \in {Max(S) + 1, Min(S)}
    BY <1>3 DEF InsertPosition
  <2> HIDE DEF S
  <2>4. Max(S) \in S
    <3>1. S \subseteq 0 .. m
      BY <2>2
    <3>2. \E k \in S : \A l \in S : l <= k
      BY <2>1, <3>1, GreatestNatural
    <3>3. \E k \in S : \A l \in S : k >= l
      BY <2>2, <3>2
    <3> QED
      BY <3>3 DEF Max
  <2>5. Min(S) \in S
    <3>1. S \subseteq Nat
      BY <2>2
    <3>2. \E k \in S : \A l \in S : k <= l
      BY <2>1, <3>1, LeastNatural
    <3> QED
      BY <3>2 DEF Min
  <2>6. Max(S) \in 1 .. m /\ Min(S) \in 1 .. m
    BY <2>2, <2>4, <2>5
  <2> QED
    BY <1>0, <2>3, <2>6
<1> QED
  BY <1>1, <1>2, <1>3

LEMMA PlaceInside ==
  ASSUME NEW fields \in Seq(FieldEntry), NEW where \in Places, HasPlace(fields, where)
  PROVE  InsertPosition(fields, where) \in 1 .. (Len(fields) + 1)
<1>1. where.at \in {"after", "before", "index", "end"}
  BY DEF Places
<1> QED
  BY <1>1, PlaceFits

-----------------------------------------------------------------------------
(* The script data that was set is in the first VMAD field.                *)

VmadShape ==
  /\ rfKind \in RecordKinds
  /\ rfFields \in Seq(FieldEntry)
  /\ rfInserted \in Nat
  /\ rfVmad \in Vmads \cup {NoVmad}

VmadHeld(d) == \E i : IsFirst(rfFields, "VMAD", i) /\ rfFields[i].body = VmadFromDict(d)

VmadInv == VmadShape /\ (rfVmad # NoVmad => VmadHeld(rfVmad))

LEMMA VmadBytesTyped ==
  ASSUME NEW d \in Vmads
  PROVE  VmadFromDict(d) \in VmadBodies
<1> DEFINE e == [d EXCEPT !.fragment =
                  IF d.aliases # NoAliases /\ @ = NoFragment THEN EmptyFragment ELSE @]
<1>1. e \in VmadBodies
  BY DEF Vmads, VmadBodies
<1>2. VmadFromDict(d) = VmadBytes(e)
  BY DEF VmadFromDict
<1> HIDE DEF e
<1> QED
  BY <1>1, <1>2 DEF VmadBytes, VmadBodies

\* A step that keeps the first VMAD field, or ends what was set.
LEMMA KeepsVmad ==
  ASSUME VmadInv, rfKind' = rfKind, rfFields' \in Seq(FieldEntry), rfInserted' \in Nat,
         \/ rfVmad' = NoVmad
         \/ rfVmad' = rfVmad /\ FirstKept(rfFields', rfFields, "VMAD")
  PROVE  VmadInv'
<1>1. VmadShape'
  BY DEF VmadInv, VmadShape
<1>2. ASSUME rfVmad' # NoVmad PROVE VmadHeld(rfVmad)'
  <2>1. rfVmad' = rfVmad /\ FirstKept(rfFields', rfFields, "VMAD")
    BY <1>2
  <2>2. PICK i : IsFirst(rfFields, "VMAD", i) /\ rfFields[i].body = VmadFromDict(rfVmad)
    BY <1>2, <2>1 DEF VmadInv, VmadHeld
  <2>3. PICK j : IsFirst(rfFields', "VMAD", j) /\ rfFields'[j] = rfFields[i]
    BY <2>1, <2>2 DEF FirstKept
  <2>4. VmadFromDict(rfVmad)' = VmadFromDict(rfVmad)
    BY <2>1 DEF VmadFromDict, VmadBytes
  <2> QED
    BY <2>2, <2>3, <2>4 DEF VmadHeld
<1> QED
  BY <1>1, <1>2 DEF VmadInv

LEMMA VmadInit == RfInit => VmadInv
<1> SUFFICES ASSUME NEW start \in RfStarts, RfInitFrom(start)
             PROVE  VmadInv
  BY DEF RfInit
<1> DEFINE f == [id |-> 1, sig |-> "DATA", len |-> Max(FieldLens), body |-> start.body]
           g == [id |-> 2, sig |-> "DATA", len |-> Max(FieldLens), body |-> start.body]
<1>1. \A i \in 1 .. 2 :
        [id |-> i, sig |-> "DATA", len |-> Max(FieldLens), body |-> start.body] \in FieldEntry
  BY RecordFieldsAssumption DEF FieldEntry, RfStarts
<1>2. rfFields \in [1 .. 2 -> FieldEntry]
  BY <1>1 DEF RfInitFrom
<1>3. rfFields \in Seq(FieldEntry)
  BY <1>2, 2 \in Nat, SeqDef
<1> QED
  BY <1>3 DEF RfInitFrom, RfStarts, VmadInv, VmadShape

\* The change of one field: its signature stays.
LEMMA SetStep ==
  ASSUME VmadInv, NEW sig, NEW n \in Nat, NEW g, HasNth(rfFields, sig, n),
         g.sig = rfFields[NthIndex(rfFields, sig, n)].sig, g \in FieldEntry,
         rfFields' = [rfFields EXCEPT ![NthIndex(rfFields, sig, n)] = g],
         rfKind' = rfKind, rfInserted' \in Nat,
         rfVmad' = IF sig = "VMAD" THEN NoVmad ELSE rfVmad
  PROVE  VmadInv'
<1> DEFINE k == NthIndex(rfFields, sig, n)
<1>1. rfFields \in Seq(FieldEntry)
  BY DEF VmadInv, VmadShape
<1>2. k \in DOMAIN rfFields /\ rfFields[k].sig = sig
  BY <1>1, NthIsOccurrence DEF Occurrences
<1>3. g.sig = sig /\ rfFields' = [rfFields EXCEPT ![k] = g]
  BY <1>2
<1> HIDE DEF k
<1>4. [rfFields EXCEPT ![k] = g] \in Seq(FieldEntry)
  BY <1>1, <1>2, ExceptSeq
<1>5. sig # "VMAD" => FirstKept([rfFields EXCEPT ![k] = g], rfFields, "VMAD")
  BY <1>1, <1>2, <1>3, SetKeepsFirst
<1> QED
  BY <1>3, <1>4, <1>5, KeepsVmad

LEMMA InsertStep ==
  ASSUME VmadInv, NEW p \in 1 .. (Len(rfFields) + 1), NEW e \in FieldEntry,
         rfFields' = InsertAt(rfFields, p, e),
         rfKind' = rfKind, rfInserted' \in Nat,
         rfVmad' = IF e.sig = "VMAD" THEN NoVmad ELSE rfVmad
  PROVE  VmadInv'
<1>1. rfFields \in Seq(FieldEntry)
  BY DEF VmadInv, VmadShape
<1>2. rfFields' \in Seq(FieldEntry) /\ Inserted(rfFields', rfFields, p, e)
  BY <1>1, InsertAtFacts
<1>3. e.sig # "VMAD" => FirstKept(rfFields', rfFields, "VMAD")
  BY <1>1, <1>2, InsertKeepsFirst
<1> QED
  BY <1>2, <1>3, KeepsVmad

LEMMA DeleteStep ==
  ASSUME VmadInv, NEW sig, NEW n \in Nat, HasNth(rfFields, sig, n),
         rfFields' = DeleteNth(rfFields, sig, n),
         rfKind' = rfKind, rfInserted' \in Nat,
         rfVmad' = IF sig = "VMAD" THEN NoVmad ELSE rfVmad
  PROVE  VmadInv'
<1> DEFINE k == NthIndex(rfFields, sig, n)
<1>1. rfFields \in Seq(FieldEntry)
  BY DEF VmadInv, VmadShape
<1>2. k \in 1 .. Len(rfFields) /\ rfFields[k].sig = sig
  BY <1>1, NthIsOccurrence DEF Occurrences
<1>3. rfFields' = RemoveAt(rfFields, k)
  BY DEF DeleteNth
<1> HIDE DEF k
<1>4. rfFields' \in Seq(FieldEntry) /\ Removed(rfFields', rfFields, k)
  BY <1>1, <1>2, <1>3, RemoveAtFacts
<1>5. sig # "VMAD" => FirstKept(rfFields', rfFields, "VMAD")
  BY <1>1, <1>2, <1>4, RemoveKeepsFirst
<1> QED
  BY <1>4, <1>5, KeepsVmad

LEMMA LengthsTyped == Max(FieldLens) \in FieldLens \cup {Max(FieldLens)}
  OBVIOUS

\* The field a number names is one of the record's.
LEMMA NthTyped ==
  ASSUME VmadInv, NEW sig, NEW n \in Nat, HasNth(rfFields, sig, n)
  PROVE  rfFields[NthIndex(rfFields, sig, n)] \in FieldEntry
<1>1. rfFields \in Seq(FieldEntry)
  BY DEF VmadInv, VmadShape
<1>2. NthIndex(rfFields, sig, n) \in DOMAIN rfFields
  BY <1>1, NthIsOccurrence DEF Occurrences
<1> QED
  BY <1>1, <1>2

LEMMA SetSubrecordStep ==
  ASSUME VmadInv, NEW sig \in FieldSigs, NEW n \in Nat, NEW len \in FieldLens,
         NEW body \in Bodies, EspSetSubrecord(sig, n, len, body)
  PROVE  VmadInv'
<1> DEFINE f == rfFields[NthIndex(rfFields, sig, n)]
           g == [f EXCEPT !.len = len, !.body = body]
<1>1. HasNth(rfFields, sig, n)
  BY DEF EspSetSubrecord
<1>2. rfFields' = [rfFields EXCEPT ![NthIndex(rfFields, sig, n)] = g]
  BY DEF EspSetSubrecord, SetNth
<1>3. f \in FieldEntry
  BY <1>1, NthTyped
<1> HIDE DEF f
<1>4. g \in FieldEntry /\ g.sig = f.sig
  BY <1>3 DEF FieldEntry
<1> HIDE DEF g
<1>5. rfKind' = rfKind /\ rfInserted' \in Nat /\ rfVmad' = IF sig = "VMAD" THEN NoVmad ELSE rfVmad
  BY DEF EspSetSubrecord, TouchesVmad, VmadInv, VmadShape
<1> QED
  BY <1>1, <1>2, <1>4, <1>5, SetStep DEF f

LEMMA PatchSubrecordStep ==
  ASSUME VmadInv, NEW sig \in FieldSigs, NEW n \in Nat, NEW end,
         NEW body \in Bodies, EspPatchSubrecord(sig, n, end, body)
  PROVE  VmadInv'
<1> DEFINE f == rfFields[NthIndex(rfFields, sig, n)]
           g == [f EXCEPT !.body = body]
<1>1. HasNth(rfFields, sig, n)
  BY DEF EspPatchSubrecord
<1>2. rfFields' = [rfFields EXCEPT ![NthIndex(rfFields, sig, n)] = g]
  BY DEF EspPatchSubrecord, SetNth
<1>3. f \in FieldEntry
  BY <1>1, NthTyped
<1> HIDE DEF f
<1>4. g \in FieldEntry /\ g.sig = f.sig
  BY <1>3 DEF FieldEntry
<1> HIDE DEF g
<1>5. rfKind' = rfKind /\ rfInserted' \in Nat /\ rfVmad' = IF sig = "VMAD" THEN NoVmad ELSE rfVmad
  BY DEF EspPatchSubrecord, TouchesVmad, VmadInv, VmadShape
<1> QED
  BY <1>1, <1>2, <1>4, <1>5, SetStep DEF f

LEMMA InsertSubrecordStep ==
  ASSUME VmadInv, NEW sig \in FieldSigs, NEW where \in Places, NEW len \in FieldLens,
         NEW body \in Bodies, EspInsertSubrecord(sig, where, len, body)
  PROVE  VmadInv'
<1> DEFINE e == [id |-> 100 + rfInserted, sig |-> sig, len |-> len, body |-> body]
           p == InsertPosition(rfFields, where)
<1>1. rfFields \in Seq(FieldEntry) /\ rfInserted \in Nat
  BY DEF VmadInv, VmadShape
<1>2. e \in FieldEntry /\ e.sig = sig
  BY <1>1 DEF FieldEntry
<1>3. p \in 1 .. (Len(rfFields) + 1)
  BY <1>1, PlaceInside DEF EspInsertSubrecord
<1>4. rfFields' = InsertAt(rfFields, p, e)
  BY DEF EspInsertSubrecord, InsertField
<1> HIDE DEF e, p
<1>5. rfKind' = rfKind /\ rfInserted' \in Nat /\ rfVmad' = IF sig = "VMAD" THEN NoVmad ELSE rfVmad
  BY <1>1 DEF EspInsertSubrecord, TouchesVmad
<1> QED
  BY <1>2, <1>3, <1>4, <1>5, InsertStep

LEMMA DeleteSubrecordStep ==
  ASSUME VmadInv, NEW sig \in FieldSigs, NEW n \in Nat, EspDeleteSubrecord(sig, n)
  PROVE  VmadInv'
<1>1. HasNth(rfFields, sig, n) /\ rfFields' = DeleteNth(rfFields, sig, n)
  BY DEF EspDeleteSubrecord
<1>2. rfKind' = rfKind /\ rfInserted' \in Nat /\ rfVmad' = IF sig = "VMAD" THEN NoVmad ELSE rfVmad
  BY DEF EspDeleteSubrecord, TouchesVmad, VmadInv, VmadShape
<1> QED
  BY <1>1, <1>2, DeleteStep

\* The payload goes to the first field of the signature.
LEMMA PutFirstFacts ==
  ASSUME VmadInv, NEW sig \in FieldSigs, NEW body \in Bodies \cup VmadBodies,
         PutFirst(sig, Max(FieldLens), body)
  PROVE  /\ rfFields' \in Seq(FieldEntry)
         /\ rfInserted' \in Nat
         /\ \A other : other # sig => FirstKept(rfFields', rfFields, other)
         /\ \E i : IsFirst(rfFields', sig, i) /\ rfFields'[i].body = body
<1>1. rfFields \in Seq(FieldEntry) /\ rfInserted \in Nat
  BY DEF VmadInv, VmadShape
<1>0. PICK m \in Nat : m = Len(rfFields) /\ DOMAIN rfFields = 1 .. m
  BY <1>1
<1>2. CASE HasNth(rfFields, sig, 0)
  <2> DEFINE S == Occurrences(rfFields, sig)
             k == NthIndex(rfFields, sig, 0)
             g == [rfFields[k] EXCEPT !.len = Max(FieldLens), !.body = body]
             t == [rfFields EXCEPT ![k] = g]
  <2>1. rfFields' = t /\ rfInserted' = rfInserted
    BY <1>2 DEF PutFirst, SetNth
  <2>2. k \in DOMAIN rfFields /\ rfFields[k].sig = sig
    BY <1>1, <1>2, NthIsOccurrence, 0 \in Nat DEF Occurrences
  <2>3. \E i \in S : \A j \in S : i <= j
    <3>1. S \subseteq Nat
      BY <1>0 DEF Occurrences
    <3>2. S # {}
      BY <2>2 DEF Occurrences
    <3> QED
      BY <3>1, <3>2, LeastNatural
  <2>4. PICK i \in S : \A j \in S : i <= j
    BY <2>3
  <2>5. IsFirst(rfFields, sig, i)
    BY <1>0, <2>4 DEF IsFirst, Occurrences
  <2>6. k = i
    BY <1>1, <2>5, FirstIsZero
  <2>7. rfFields[k] \in FieldEntry
    BY <1>1, <2>2
  <2> HIDE DEF S, k
  <2>8. g \in FieldEntry /\ g.sig = sig /\ g.body = body
    BY <2>2, <2>7 DEF FieldEntry
  <2> HIDE DEF g
  <2>9. t \in Seq(FieldEntry)
    BY <1>1, <2>2, <2>8, ExceptSeq
  <2>10. \A other : other # sig => FirstKept(t, rfFields, other)
    BY <1>1, <2>2, <2>8, SetKeepsFirst
  <2>11. IsFirst(t, sig, k) /\ t[k].body = body
    <3>1. DOMAIN t = DOMAIN rfFields /\ t[k] = g /\ \A l \in DOMAIN rfFields : l # k => t[l] = rfFields[l]
      BY <1>1, <2>2
    <3>2. IsFirst(rfFields, sig, k)
      BY <2>5, <2>6
    <3> HIDE DEF t
    <3>3. k \in DOMAIN t /\ t[k].sig = sig
      BY <2>2, <2>8, <3>1
    <3>4. ASSUME NEW j \in DOMAIN t, j < k PROVE t[j].sig # sig
      <4>1. j # k /\ j \in DOMAIN rfFields /\ rfFields[j].sig # sig
        BY <1>0, <2>2, <3>1, <3>2, <3>4 DEF IsFirst
      <4> QED
        BY <3>1, <4>1
    <3> QED
      BY <2>8, <3>1, <3>3, <3>4 DEF IsFirst
  <2> QED
    BY <1>1, <2>1, <2>9, <2>10, <2>11
<1>3. CASE ~HasNth(rfFields, sig, 0)
  <2> DEFINE e == [id |-> 100 + rfInserted, sig |-> sig, len |-> Max(FieldLens), body |-> body]
             t == Append(rfFields, e)
  <2>1. rfFields' = t /\ rfInserted' = rfInserted + 1
    BY <1>3 DEF PutFirst
  <2>2. e \in FieldEntry /\ e.sig = sig /\ e.body = body
    BY <1>1 DEF FieldEntry
  <2> HIDE DEF e
  <2>3. t \in Seq(FieldEntry)
    BY <1>1, <2>2
  <2>4. DOMAIN t = 1 .. (m + 1)
    BY <1>0, <1>1, <2>2
  <2>5. t[m + 1] = e /\ \A l \in 1 .. m : t[l] = rfFields[l]
    BY <1>0, <1>1, <2>2
  <2> HIDE DEF t
  <2>6. Inserted(t, rfFields, m + 1, e)
    BY <1>0, <2>4, <2>5 DEF Inserted
  <2>7. m + 1 \in 1 .. (Len(rfFields) + 1)
    BY <1>0
  <2>8. \A other : other # sig => FirstKept(t, rfFields, other)
    BY <1>1, <2>2, <2>6, <2>7, InsertKeepsFirst
  <2>9. Occurrences(rfFields, sig) = {}
    <3>1. Occurrences(rfFields, sig) \subseteq 1 .. m
      BY <1>0 DEF Occurrences
    <3>2. IsFiniteSet(Occurrences(rfFields, sig)) /\ Cardinality(Occurrences(rfFields, sig)) \in Nat
      BY <3>1, RankFacts
    <3>3. Cardinality(Occurrences(rfFields, sig)) = 0
      BY <1>3, <3>2 DEF HasNth
    <3> QED
      BY <3>2, <3>3, FS_EmptySet
  <2>10. IsFirst(t, sig, m + 1) /\ t[m + 1].body = body
    <3>1. \A j \in 1 .. (m + 1) : j < m + 1 => j \in 1 .. m
      OBVIOUS
    <3>2. \A j \in 1 .. m : rfFields[j].sig # sig
      BY <1>0, <2>9 DEF Occurrences
    <3> QED
      BY <2>2, <2>4, <2>5, <3>1, <3>2 DEF IsFirst
  <2> QED
    BY <1>1, <2>1, <2>3, <2>8, <2>10
<1> QED
  BY <1>2, <1>3

LEMMA VmadStep == VmadInv /\ [RfNext]_rfVars => VmadInv'
<1> SUFFICES ASSUME VmadInv, [RfNext]_rfVars
             PROVE  VmadInv'
  OBVIOUS
<1>0. 0 .. MaxFields - 1 \subseteq Nat
  BY RecordFieldsAssumption
<1>1. ASSUME rfFields' = rfFields, rfKind' = rfKind, rfInserted' = rfInserted, rfVmad' = rfVmad
      PROVE  VmadInv'
  <2>1. FirstKept(rfFields, rfFields, "VMAD")
    BY DEF FirstKept
  <2> QED
    BY <1>1, <2>1, KeepsVmad DEF VmadInv, VmadShape
<1>2. ASSUME NEW only, EspGetSubrecords(only) PROVE VmadInv'
  BY <1>1, <1>2 DEF EspGetSubrecords
<1>3. ASSUME NEW flag, NEW clear, EspSetFlag(flag, clear) PROVE VmadInv'
  BY <1>1, <1>3 DEF EspSetFlag
<1>4. CASE UNCHANGED rfVars
  BY <1>1, <1>4 DEF rfVars
<1>5. ASSUME NEW body \in Bodies, EspMoveRef(body) PROVE VmadInv'
  <2>1. PutFirst("DATA", Max(FieldLens), body) /\ rfKind' = rfKind /\ rfVmad' = rfVmad
    BY <1>5 DEF EspMoveRef
  <2>2. "DATA" \in FieldSigs /\ "VMAD" # "DATA"
    BY RecordFieldsAssumption
  <2> QED
    BY <2>1, <2>2, PutFirstFacts, KeepsVmad
<1>6. ASSUME NEW d \in Vmads, EspSetVmad(d) PROVE VmadInv'
  <2>1. PutFirst("VMAD", Max(FieldLens), VmadFromDict(d)) /\ rfKind' = rfKind /\ rfVmad' = d
    BY <1>6 DEF EspSetVmad
  <2>2. "VMAD" \in FieldSigs
    BY RecordFieldsAssumption
  <2>3. VmadFromDict(d) \in Bodies \cup VmadBodies
    BY VmadBytesTyped
  <2>4. /\ rfFields' \in Seq(FieldEntry)
        /\ rfInserted' \in Nat
        /\ \E i : IsFirst(rfFields', "VMAD", i) /\ rfFields'[i].body = VmadFromDict(d)
    BY <2>1, <2>2, <2>3, PutFirstFacts
  <2>5. VmadFromDict(rfVmad)' = VmadFromDict(d)
    BY <2>1 DEF VmadFromDict, VmadBytes
  <2> QED
    BY <2>1, <2>4, <2>5 DEF VmadInv, VmadShape, VmadHeld
<1> QED
  BY <1>0, <1>2, <1>3, <1>4, <1>5, <1>6, SetSubrecordStep, PatchSubrecordStep,
     InsertSubrecordStep, DeleteSubrecordStep DEF RfNext

LEMMA VmadRead == VmadInv => VmadKept
<1> SUFFICES ASSUME VmadInv, rfVmad # NoVmad
             PROVE  /\ VmadToDict.scripts = rfVmad.scripts
                    /\ rfKind = "QUST" => VmadToDict.aliases = rfVmad.aliases
                    /\ rfKind \in FragmentKinds /\ rfVmad.fragment # NoFragment =>
                         VmadToDict.fragment = rfVmad.fragment
  BY DEF VmadKept
<1>1. rfFields \in Seq(FieldEntry) /\ rfVmad \in Vmads
  BY DEF VmadInv, VmadShape
<1>2. PICK i : IsFirst(rfFields, "VMAD", i) /\ rfFields[i].body = VmadFromDict(rfVmad)
  BY DEF VmadInv, VmadHeld
<1>3. NthIndex(rfFields, "VMAD", 0) = i
  BY <1>1, <1>2, FirstIsZero
<1>4. VmadToDict = VmadFrom(VmadFromDict(rfVmad))
  BY <1>2, <1>3 DEF VmadToDict
<1> DEFINE e == [rfVmad EXCEPT !.fragment =
                  IF rfVmad.aliases # NoAliases /\ @ = NoFragment THEN EmptyFragment ELSE @]
           b == [e EXCEPT !.aliases = IF rfKind = "QUST" /\ e.fragment # NoFragment THEN @ ELSE NoAliases]
<1>5. VmadFromDict(rfVmad) = b
  BY DEF VmadFromDict, VmadBytes
<1>6. /\ e \in VmadBodies
      /\ e.scripts = rfVmad.scripts
      /\ e.aliases = rfVmad.aliases
      /\ rfVmad.fragment # NoFragment => e.fragment = rfVmad.fragment
      /\ rfVmad.aliases # NoAliases => e.fragment # NoFragment
  BY <1>1, RecordFieldsAssumption DEF Vmads, VmadBodies
<1> HIDE DEF e
<1>7. /\ b \in VmadBodies
      /\ b.scripts = e.scripts
      /\ b.fragment = e.fragment
      /\ rfKind = "QUST" => b.aliases = e.aliases
  BY <1>6 DEF VmadBodies
<1> HIDE DEF b
<1>8. CASE rfKind \in FragmentKinds
  <2>1. VmadToDict = b
    BY <1>4, <1>5, <1>8 DEF VmadFrom
  <2> QED
    BY <1>6, <1>7, <2>1
<1>9. CASE rfKind \notin FragmentKinds
  <2>1. VmadToDict = [b EXCEPT !.fragment = NoFragment, !.aliases = NoAliases]
    BY <1>4, <1>5, <1>9 DEF VmadFrom
  <2>2. VmadToDict.scripts = b.scripts
    BY <1>7, <2>1 DEF VmadBodies
  <2>3. rfKind # "QUST"
    BY <1>9, RecordFieldsAssumption
  <2> QED
    BY <1>6, <1>7, <1>9, <2>2, <2>3
<1> QED
  BY <1>8, <1>9

\* What esp_set_vmad was given is what esp_get_vmad reads, whatever fields the
\* subrecord tools insert, delete or set around it, until one of them writes
\* a VMAD field: the script data is in the first field of that signature, and
\* that field stays the first (chim.esp.ops set_vmad and the subrecord tools).
THEOREM VmadStaysKept == RfSpec => []VmadKept
<1>1. RfInit => VmadInv
  BY VmadInit
<1>2. VmadInv /\ [RfNext]_rfVars => VmadInv'
  BY VmadStep
<1>3. VmadInv => VmadKept
  BY VmadRead
<1> QED
  BY <1>1, <1>2, <1>3, PTL DEF RfSpec

-----------------------------------------------------------------------------
(* The number that a caller was given names the field that it saw.         *)

\* Occurrences that are moved, in their order, keep their numbers.
LEMMA NumberMoves ==
  ASSUME NEW s \in Seq(FieldEntry), NEW t \in Seq(FieldEntry), NEW sig,
         NEW f \in [Occurrences(s, sig) -> Occurrences(t, sig)],
         \A l \in Occurrences(t, sig) : \E j \in Occurrences(s, sig) : f[j] = l,
         \A j, l \in Occurrences(s, sig) : j < l => f[j] < f[l],
         NEW i \in Occurrences(s, sig)
  PROVE  OccurrenceIndex(t, f[i]) = OccurrenceIndex(s, i)
<1> DEFINE S == Occurrences(s, sig)
           T == Occurrences(t, sig)
           A == {j \in S : j < i}
           B == {l \in T : l < f[i]}
           g == [j \in A |-> f[j]]
<1>0. PICK m \in Nat, n \in Nat : DOMAIN s = 1 .. m /\ DOMAIN t = 1 .. n
  OBVIOUS
<1>1. S \subseteq 1 .. m /\ T \subseteq 1 .. n
  BY <1>0 DEF Occurrences
<1>2. s[i].sig = sig /\ t[f[i]].sig = sig
  BY DEF Occurrences
<1>3. OccurrenceIndex(s, i) = Cardinality(A) /\ OccurrenceIndex(t, f[i]) = Cardinality(B)
  BY <1>2 DEF OccurrenceIndex
<1> HIDE DEF S, T
<1>4. \A j \in S : j \in Nat /\ f[j] \in T
  BY <1>1 DEF S, T
<1>5. \A l \in T : l \in Nat
  BY <1>1
<1>6. IsFiniteSet(A)
  <2>1. IsFiniteSet(S)
    BY <1>1, RankFacts
  <2> QED
    BY <2>1, FS_Subset
<1>7. \A j, l \in S : j < l => f[j] < f[l]
  BY DEF S
<1>8. i \in S
  BY DEF S
<1>9. \A j \in A : f[j] \in B
  BY <1>4, <1>7, <1>8
<1>10. \A x, y \in A : x # y => f[x] # f[y]
  <2> SUFFICES ASSUME NEW x \in S, NEW y \in S, f[x] = f[y] PROVE x = y
    OBVIOUS
  <2>1. ~(x < y) /\ ~(y < x)
    BY <1>4, <1>5, <1>7
  <2> QED
    BY <1>4, <2>1
<1>11. ASSUME NEW l \in B PROVE \E j \in A : f[j] = l
  <2>1. PICK j \in S : f[j] = l
    BY DEF S, T
  <2>2. ~(i <= j)
    BY <1>4, <1>5, <1>7, <1>8, <2>1
  <2> QED
    BY <1>4, <1>8, <2>1, <2>2
<1>12. g \in [A -> B]
  BY <1>9
<1> HIDE DEF A, B
<1>13. \A x, y \in A : x # y => g[x] # g[y]
  BY <1>10
<1>14. \A z \in B : \E x \in A : g[x] = z
  BY <1>11
<1> HIDE DEF g
<1>15. Cardinality(B) = Cardinality(A)
  BY <1>6, <1>12, <1>13, <1>14, Corresponding
<1> QED
  BY <1>3, <1>15

\* A field of another signature that comes in, or goes, moves them.
LEMMA InsertKeepsNumber ==
  ASSUME NEW s \in Seq(FieldEntry), NEW t \in Seq(FieldEntry), NEW p \in 1 .. (Len(s) + 1),
         NEW e, Inserted(t, s, p, e), NEW i \in DOMAIN s, s[i].sig # e.sig
  PROVE  \E j \in DOMAIN t : t[j] = s[i] /\ OccurrenceIndex(t, j) = OccurrenceIndex(s, i)
<1> DEFINE sig == s[i].sig
           S == Occurrences(s, sig)
           T == Occurrences(t, sig)
           f == [j \in S |-> IF j < p THEN j ELSE j + 1]
<1>0. PICK m \in Nat : m = Len(s) /\ DOMAIN s = 1 .. m
  OBVIOUS
<1>1. /\ DOMAIN t = 1 .. (m + 1)
      /\ \A l \in 1 .. (p - 1) : t[l] = s[l]
      /\ t[p] = e
      /\ \A l \in p .. m : t[l + 1] = s[l]
  BY <1>0 DEF Inserted
<1>2. \A j \in S : j \in 1 .. m /\ s[j].sig = sig
  BY <1>0 DEF Occurrences
<1>3. \A l : l \in T <=> l \in 1 .. (m + 1) /\ t[l].sig = sig
  BY <1>1 DEF Occurrences
<1>4. i \in S
  BY DEF Occurrences
<1>5. \A l : l \in S <=> l \in 1 .. m /\ s[l].sig = sig
  BY <1>0 DEF Occurrences
<1> HIDE DEF S, T, sig
<1>6. ASSUME NEW j \in S PROVE f[j] \in 1 .. (m + 1) /\ t[f[j]] = s[j]
  <2>1. CASE j < p
    <3>1. f[j] = j /\ j \in 1 .. (p - 1) /\ j \in 1 .. (m + 1)
      BY <1>0, <1>2, <2>1
    <3> QED
      BY <1>1, <3>1
  <2>2. CASE ~(j < p)
    <3>1. f[j] = j + 1 /\ j \in p .. m /\ j + 1 \in 1 .. (m + 1)
      BY <1>0, <1>2, <2>2
    <3> QED
      BY <1>1, <3>1
  <2> QED
    BY <2>1, <2>2
<1>7. f \in [S -> T]
  <2>1. \A j \in S : f[j] \in T
    BY <1>2, <1>3, <1>6
  <2> QED
    BY <2>1
<1>8. ASSUME NEW l \in T PROVE \E j \in S : f[j] = l
  <2>0. l \in 1 .. (m + 1) /\ t[l].sig = sig
    BY <1>3
  <2>1. CASE l < p
    <3>1. l \in 1 .. (p - 1) /\ l \in 1 .. m
      BY <1>0, <2>0, <2>1
    <3>2. l \in S
      BY <1>1, <1>5, <2>0, <3>1
    <3> QED
      BY <2>1, <3>2
  <2>2. CASE l = p
    BY <1>1, <2>0, <2>2 DEF sig
  <2>3. CASE p < l
    <3>1. PICK k \in Nat : k = l - 1
      BY <1>0, <2>0
    <3>2. k \in p .. m /\ k \in 1 .. m /\ k + 1 = l /\ ~(k < p)
      BY <1>0, <2>0, <2>3, <3>1
    <3>3. k \in S
      BY <1>1, <1>5, <2>0, <3>2
    <3> QED
      BY <3>2, <3>3
  <2> QED
    BY <1>0, <2>0, <2>1, <2>2, <2>3
<1>9. \A j, l \in S : j < l => f[j] < f[l]
  BY <1>0, <1>2
<1>10. t[f[i]] = s[i] /\ f[i] \in DOMAIN t
  BY <1>1, <1>4, <1>6
<1> HIDE DEF f
<1>11. OccurrenceIndex(t, f[i]) = OccurrenceIndex(s, i)
  BY <1>4, <1>7, <1>8, <1>9, NumberMoves DEF S, T
<1> QED
  BY <1>10, <1>11

LEMMA RemoveKeepsNumber ==
  ASSUME NEW s \in Seq(FieldEntry), NEW t \in Seq(FieldEntry), NEW p \in 1 .. Len(s),
         Removed(t, s, p), NEW i \in DOMAIN s, s[i].sig # s[p].sig
  PROVE  \E j \in DOMAIN t : t[j] = s[i] /\ OccurrenceIndex(t, j) = OccurrenceIndex(s, i)
<1> DEFINE sig == s[i].sig
           S == Occurrences(s, sig)
           T == Occurrences(t, sig)
           f == [j \in S |-> IF j < p THEN j ELSE j - 1]
<1>0. PICK m \in Nat : m = Len(s) /\ DOMAIN s = 1 .. m
  OBVIOUS
<1>1. /\ DOMAIN t = 1 .. (m - 1)
      /\ \A l \in 1 .. (p - 1) : t[l] = s[l]
      /\ \A l \in (p + 1) .. m : t[l - 1] = s[l]
  BY <1>0 DEF Removed
<1>2. \A j \in S : j \in 1 .. m /\ s[j].sig = sig
  BY <1>0 DEF Occurrences
<1>3. \A l : l \in T <=> l \in 1 .. (m - 1) /\ t[l].sig = sig
  BY <1>1 DEF Occurrences
<1>4. i \in S /\ p \notin S
  BY DEF Occurrences
<1>5. \A l : l \in S <=> l \in 1 .. m /\ s[l].sig = sig
  BY <1>0 DEF Occurrences
<1> HIDE DEF S, T, sig
<1>6. ASSUME NEW j \in S PROVE f[j] \in 1 .. (m - 1) /\ t[f[j]] = s[j]
  <2>1. CASE j < p
    <3>1. f[j] = j /\ j \in 1 .. (p - 1) /\ j \in 1 .. (m - 1)
      BY <1>0, <1>2, <2>1
    <3> QED
      BY <1>1, <3>1
  <2>2. CASE ~(j < p)
    <3>0. j # p
      BY <1>4
    <3>1. f[j] = j - 1 /\ j \in (p + 1) .. m /\ j - 1 \in 1 .. (m - 1)
      BY <1>0, <1>2, <2>2, <3>0
    <3> QED
      BY <1>1, <3>1
  <2> QED
    BY <2>1, <2>2
<1>7. f \in [S -> T]
  <2>1. \A j \in S : f[j] \in T
    BY <1>2, <1>3, <1>6
  <2> QED
    BY <2>1
<1>8. ASSUME NEW l \in T PROVE \E j \in S : f[j] = l
  <2>0. l \in 1 .. (m - 1) /\ t[l].sig = sig
    BY <1>3
  <2>1. CASE l < p
    <3>1. l \in 1 .. (p - 1) /\ l \in 1 .. m
      BY <1>0, <2>0, <2>1
    <3>2. l \in S
      BY <1>1, <1>5, <2>0, <3>1
    <3> QED
      BY <2>1, <3>2
  <2>2. CASE ~(l < p)
    <3>1. PICK k \in Nat : k = l + 1
      BY <2>0
    <3>2. k \in (p + 1) .. m /\ k \in 1 .. m /\ k - 1 = l /\ ~(k < p)
      BY <1>0, <2>0, <2>2, <3>1
    <3>3. t[k - 1] = s[k]
      BY <1>1, <3>2
    <3>4. k \in S
      BY <1>5, <2>0, <3>2, <3>3
    <3> QED
      BY <3>2, <3>4
  <2> QED
    BY <2>1, <2>2
<1>9. \A j, l \in S : j < l => f[j] < f[l]
  <2>1. \A j \in S : j \in Nat /\ j # p
    BY <1>2, <1>4
  <2> QED
    BY <1>0, <2>1
<1>10. t[f[i]] = s[i] /\ f[i] \in DOMAIN t
  BY <1>1, <1>4, <1>6
<1> HIDE DEF f
<1>11. OccurrenceIndex(t, f[i]) = OccurrenceIndex(s, i)
  BY <1>4, <1>7, <1>8, <1>9, NumberMoves DEF S, T
<1> QED
  BY <1>10, <1>11

\* Two occurrences of a signature have two numbers.
LEMMA NumbersDiffer ==
  ASSUME NEW s \in Seq(FieldEntry), NEW i \in DOMAIN s, NEW j \in DOMAIN s,
         s[i].sig = s[j].sig, OccurrenceIndex(s, i) = OccurrenceIndex(s, j)
  PROVE  i = j
<1> DEFINE S == Occurrences(s, s[i].sig)
           Below(k) == {l \in S : l < k}
<1>0. PICK m \in Nat : DOMAIN s = 1 .. m
  OBVIOUS
<1>1. S \subseteq 1 .. m /\ i \in S /\ j \in S
  BY <1>0 DEF Occurrences
<1>2. Cardinality(Below(i)) = Cardinality(Below(j))
  BY DEF OccurrenceIndex
<1> HIDE DEF S
<1>3. IsFiniteSet(S)
  BY <1>1, RankFacts
<1>4. ASSUME NEW a \in S, NEW b \in S, a < b PROVE Cardinality(Below(a)) # Cardinality(Below(b))
  <2>1. \A l \in S : l \in Nat
    BY <1>1
  <2>2. Below(a) \subseteq Below(b) /\ a \in Below(b) /\ a \notin Below(a)
    BY <1>4, <2>1
  <2>3. IsFiniteSet(Below(a)) /\ IsFiniteSet(Below(b))
    BY <1>3, FS_Subset
  <2> HIDE DEF Below
  <2>4. Below(a) # Below(b)
    BY <2>2
  <2> QED
    BY <2>2, <2>3, <2>4, FS_Subset
<1>5. i \in Nat /\ j \in Nat
  BY <1>1
<1>6. ~(i < j) /\ ~(j < i)
  BY <1>1, <1>2, <1>4
<1> QED
  BY <1>5, <1>6

\* The fields but one, as the edit of that one leaves them.
Others(fields, id) == Sublist(fields, {i \in DOMAIN fields : fields[i].id # id})

\* Fields have ids of their own, all of them given out already.
IdsApart(fields, n) ==
  /\ \A i, j \in DOMAIN fields : fields[i].id = fields[j].id => i = j
  /\ \A i \in DOMAIN fields : fields[i].id < 100 + n

SetFacts(t, s, k, g) ==
  /\ t \in Seq(FieldEntry) /\ DOMAIN t = DOMAIN s
  /\ t[k] = g
  /\ \A i \in DOMAIN s : i # k => t[i] = s[i]

LEMMA SetKeepsNumbers ==
  ASSUME NEW s, NEW t, NEW k \in DOMAIN s, NEW g, SetFacts(t, s, k, g),
         g.sig = s[k].sig, NEW i \in DOMAIN s
  PROVE  t[i].sig = s[i].sig /\ OccurrenceIndex(t, i) = OccurrenceIndex(s, i)
<1>1. \A j \in DOMAIN s : t[j].sig = s[j].sig
  BY DEF SetFacts
<1>2. \A sig : Occurrences(t, sig) = Occurrences(s, sig)
  BY <1>1 DEF SetFacts, Occurrences
<1> QED
  BY <1>1, <1>2 DEF OccurrenceIndex

LEMMA SetKeepsOthers ==
  ASSUME NEW s \in Seq(FieldEntry), NEW t, NEW k \in DOMAIN s, NEW g, SetFacts(t, s, k, g),
         g.id = s[k].id, NEW n, IdsApart(s, n)
  PROVE  IdsApart(t, n) /\ Others(t, s[k].id) = Others(s, s[k].id)
<1> DEFINE K == {i \in DOMAIN s : s[i].id # s[k].id}
<1>1. \A j \in DOMAIN s : t[j].id = s[j].id
  BY DEF SetFacts
<1>2. IdsApart(t, n)
  BY <1>1 DEF SetFacts, IdsApart
<1>3. K = {i \in DOMAIN t : t[i].id # s[k].id}
  BY <1>1 DEF SetFacts
<1>0. PICK m \in Nat : DOMAIN s = 1 .. m
  OBVIOUS
<1>4. K \subseteq 1 .. m /\ k \notin K /\ \A i \in K : t[i] = s[i]
  BY <1>0 DEF SetFacts
<1> HIDE DEF K
<1>5. \A j \in 1 .. Cardinality(K) : NthOf(K, j) \in K
  BY <1>4, NthFacts
<1>6. Sublist(t, K) = Sublist(s, K)
  BY <1>4, <1>5 DEF Sublist
<1> QED
  BY <1>2, <1>3, <1>6 DEF Others, K

LEMMA InsertKeepsApart ==
  ASSUME NEW s \in Seq(FieldEntry), NEW t, NEW p \in 1 .. (Len(s) + 1), NEW e,
         Inserted(t, s, p, e), NEW n \in Nat, IdsApart(s, n), e.id = 100 + n
  PROVE  IdsApart(t, n + 1)
<1>0. PICK m \in Nat : m = Len(s) /\ DOMAIN s = 1 .. m
  OBVIOUS
<1>1. /\ DOMAIN t = 1 .. (m + 1)
      /\ \A l \in 1 .. (p - 1) : t[l] = s[l]
      /\ t[p] = e
      /\ \A l \in p .. m : t[l + 1] = s[l]
  BY <1>0 DEF Inserted
<1> DEFINE From(l) == IF l < p THEN l ELSE l - 1
<1>2. ASSUME NEW l \in 1 .. (m + 1), l # p
      PROVE  From(l) \in 1 .. m /\ t[l] = s[From(l)]
  <2>1. CASE l < p
    <3>1. l \in 1 .. (p - 1) /\ l \in 1 .. m
      BY <1>0, <2>1
    <3> QED
      BY <1>1, <2>1, <3>1
  <2>2. CASE ~(l < p)
    <3>1. PICK k \in Nat : k = l - 1
      OBVIOUS
    <3>2. k \in p .. m /\ k \in 1 .. m /\ k + 1 = l
      BY <1>0, <1>2, <2>2, <3>1
    <3> QED
      BY <1>1, <2>2, <3>1, <3>2
  <2> QED
    BY <2>1, <2>2
<1>3. \A l, k \in 1 .. (m + 1) : l # p /\ k # p /\ From(l) = From(k) => l = k
  BY <1>0
<1> HIDE DEF From
<1>4. \A i \in 1 .. m : s[i] \in FieldEntry
  BY <1>0
<1>5. \A i \in 1 .. m : s[i].id \in Nat /\ s[i].id < 100 + n
  BY <1>0, <1>4 DEF FieldEntry, IdsApart
<1>6. \A i, j \in 1 .. m : s[i].id = s[j].id => i = j
  BY <1>0 DEF IdsApart
<1>7. \A l \in 1 .. (m + 1) : l # p => t[l].id \in Nat /\ t[l].id < 100 + n
  BY <1>2, <1>5
<1>8. t[p].id = 100 + n
  BY <1>1
<1>9. ASSUME NEW l \in 1 .. (m + 1), NEW k \in 1 .. (m + 1), t[l].id = t[k].id
      PROVE  l = k
  <2>1. CASE l # p /\ k # p
    <3>1. t[l] = s[From(l)] /\ From(l) \in 1 .. m
      BY <1>2, <2>1
    <3>2. t[k] = s[From(k)] /\ From(k) \in 1 .. m
      BY <1>2, <2>1
    <3>3. From(l) = From(k)
      BY <1>6, <1>9, <3>1, <3>2
    <3> QED
      BY <1>3, <2>1, <3>3
  <2>2. CASE l = p \/ k = p
    BY <1>7, <1>8, <1>9, <2>2
  <2> QED
    BY <2>1, <2>2
<1>10. \A l \in 1 .. (m + 1) : t[l].id < 100 + (n + 1)
  BY <1>7, <1>8
<1> QED
  BY <1>1, <1>9, <1>10 DEF IdsApart

LEMMA RemoveKeepsOthers ==
  ASSUME NEW s \in Seq(FieldEntry), NEW t, NEW p \in 1 .. Len(s),
         Removed(t, s, p), NEW n, IdsApart(s, n)
  PROVE  IdsApart(t, n) /\ Others(t, s[p].id) = Others(s, s[p].id)
<1>0. PICK m \in Nat : m = Len(s) /\ DOMAIN s = 1 .. m
  OBVIOUS
<1>1. /\ DOMAIN t = 1 .. (m - 1)
      /\ \A l \in 1 .. (p - 1) : t[l] = s[l]
      /\ \A l \in (p + 1) .. m : t[l - 1] = s[l]
  BY <1>0 DEF Removed
<1> DEFINE From(l) == IF l < p THEN l ELSE l + 1
<1>2. ASSUME NEW l \in 1 .. (m - 1)
      PROVE  From(l) \in 1 .. m /\ From(l) # p /\ t[l] = s[From(l)]
  <2>1. CASE l < p
    <3>1. l \in 1 .. (p - 1) /\ l \in 1 .. m
      BY <1>0, <2>1
    <3> QED
      BY <1>1, <2>1, <3>1
  <2>2. CASE ~(l < p)
    <3>1. PICK k \in Nat : k = l + 1
      OBVIOUS
    <3>2. k \in (p + 1) .. m /\ k \in 1 .. m /\ k - 1 = l
      BY <1>0, <2>2, <3>1
    <3>3. t[k - 1] = s[k]
      BY <1>1, <3>2
    <3>4. From(l) = k
      BY <2>2, <3>1
    <3>5. k # p
      BY <1>0, <3>2
    <3> HIDE DEF From
    <3> QED
      BY <3>2, <3>3, <3>4, <3>5
  <2> QED
    BY <2>1, <2>2
<1>3. \A l, k \in 1 .. (m - 1) : From(l) = From(k) => l = k
  BY <1>0
<1>4. \A j \in 1 .. (m - 1) : NthOf((1 .. m) \ {p}, j) = From(j)
  BY <1>0, RankButOne
<1>5. Cardinality((1 .. m) \ {p}) = m - 1
  BY <1>0, RankButOne
<1>6. \A j \in 1 .. (m - 1) : NthOf(1 .. (m - 1), j) = j
  <2>1. PICK b \in Nat : b = m - 1
    BY <1>0
  <2>2. \A j \in 1 .. b : NthOf(1 .. b, j) = j
    BY RankOfAll
  <2> QED
    BY <2>1, <2>2
<1>7. Cardinality(1 .. (m - 1)) = m - 1
  <2>1. PICK b \in Nat : b = m - 1
    BY <1>0
  <2>2. Cardinality(1 .. b) = b
    BY FS_Interval
  <2> QED
    BY <2>1, <2>2
<1> HIDE DEF From
<1>13. /\ \A i, j \in 1 .. m : s[i].id = s[j].id => i = j
       /\ \A i \in 1 .. m : s[i].id < 100 + n
  BY <1>0 DEF IdsApart
<1>8. IdsApart(t, n)
  <2>1. ASSUME NEW l \in 1 .. (m - 1), NEW k \in 1 .. (m - 1), t[l].id = t[k].id
        PROVE  l = k
    <3>2. From(l) \in 1 .. m /\ From(k) \in 1 .. m
      BY <1>2
    <3>3. t[l] = s[From(l)] /\ t[k] = s[From(k)]
      BY <1>2
    <3>4. s[From(l)].id = s[From(k)].id
      BY <2>1, <3>3
    <3>1. From(l) = From(k)
      BY <1>13, <3>2, <3>4
    <3> QED
      BY <1>3, <3>1
  <2>2. \A l \in 1 .. (m - 1) : t[l].id < 100 + n
    BY <1>2, <1>13
  <2> QED
    BY <1>1, <2>1, <2>2 DEF IdsApart
<1>9. {i \in DOMAIN t : t[i].id # s[p].id} = 1 .. (m - 1)
  <2>1. \A l \in 1 .. (m - 1) : t[l].id # s[p].id
    <3>1. p \in 1 .. m
      BY <1>0
    <3> QED
      BY <1>2, <1>13, <3>1
  <2> QED
    BY <1>1, <2>1
<1>10. {i \in DOMAIN s : s[i].id # s[p].id} = (1 .. m) \ {p}
  BY <1>0 DEF IdsApart
<1>11. Sublist(t, 1 .. (m - 1)) = [j \in 1 .. (m - 1) |-> s[From(j)]]
  BY <1>2, <1>6, <1>7 DEF Sublist
<1>12. Sublist(s, (1 .. m) \ {p}) = [j \in 1 .. (m - 1) |-> s[From(j)]]
  BY <1>4, <1>5 DEF Sublist
<1> QED
  BY <1>8, <1>9, <1>10, <1>11, <1>12 DEF Others

-----------------------------------------------------------------------------
(* What the tools do to the list of fields.                                *)

\* Field k gets other bytes, a field comes in, field k goes.
FieldSet(k) ==
  \E g \in FieldEntry :
    /\ k \in DOMAIN rfFields
    /\ g.sig = rfFields[k].sig /\ g.id = rfFields[k].id
    /\ SetFacts(rfFields', rfFields, k, g)
    /\ rfInserted' = rfInserted /\ rfStale' = rfStale

FieldIn ==
  \E p \in 1 .. (Len(rfFields) + 1), e \in FieldEntry :
    /\ e.id = 100 + rfInserted
    /\ rfFields' \in Seq(FieldEntry)
    /\ Inserted(rfFields', rfFields, p, e)
    /\ rfInserted' = rfInserted + 1 /\ rfStale' = rfStale \cup {e.sig}

FieldOut(k) ==
  /\ k \in 1 .. Len(rfFields)
  /\ rfFields' \in Seq(FieldEntry)
  /\ Removed(rfFields', rfFields, k)
  /\ rfInserted' = rfInserted /\ rfStale' = rfStale \cup {rfFields[k].sig}

NoFieldStep == rfFields' = rfFields /\ rfInserted' = rfInserted /\ rfStale' = rfStale

LEMMA SetIsSet ==
  ASSUME VmadInv, NEW sig, NEW n \in Nat, HasNth(rfFields, sig, n), NEW g \in FieldEntry,
         g.sig = rfFields[NthIndex(rfFields, sig, n)].sig,
         g.id = rfFields[NthIndex(rfFields, sig, n)].id,
         rfFields' = [rfFields EXCEPT ![NthIndex(rfFields, sig, n)] = g],
         rfInserted' = rfInserted, rfStale' = rfStale
  PROVE  FieldSet(NthIndex(rfFields, sig, n))
<1> DEFINE k == NthIndex(rfFields, sig, n)
<1>1. rfFields \in Seq(FieldEntry)
  BY DEF VmadInv, VmadShape
<1>2. k \in DOMAIN rfFields
  BY <1>1, NthIsOccurrence DEF Occurrences
<1>3. g.sig = rfFields[k].sig /\ g.id = rfFields[k].id /\ rfFields' = [rfFields EXCEPT ![k] = g]
  OBVIOUS
<1> HIDE DEF k
<1>4. [rfFields EXCEPT ![k] = g] \in Seq(FieldEntry)
  BY <1>1, <1>2, ExceptSeq
<1>5. SetFacts(rfFields', rfFields, k, g)
  BY <1>1, <1>2, <1>3, <1>4 DEF SetFacts
<1> QED
  BY <1>2, <1>3, <1>5 DEF FieldSet, k

LEMMA SetSubrecordSets ==
  ASSUME VmadInv, NEW sig \in FieldSigs, NEW n \in Nat, NEW len \in FieldLens,
         NEW body \in Bodies, EspSetSubrecord(sig, n, len, body)
  PROVE  FieldSet(NthIndex(rfFields, sig, n)) /\ rfSeen' = rfSeen
<1> DEFINE f == rfFields[NthIndex(rfFields, sig, n)]
           g == [f EXCEPT !.len = len, !.body = body]
<1>1. HasNth(rfFields, sig, n) /\ UNCHANGED <<rfInserted, rfSeen, rfStale>>
  BY DEF EspSetSubrecord
<1>2. rfFields' = [rfFields EXCEPT ![NthIndex(rfFields, sig, n)] = g]
  BY DEF EspSetSubrecord, SetNth
<1>3. f \in FieldEntry
  BY <1>1, NthTyped
<1> HIDE DEF f
<1>4. g \in FieldEntry /\ g.sig = f.sig /\ g.id = f.id
  BY <1>3 DEF FieldEntry
<1> HIDE DEF g
<1> QED
  BY <1>1, <1>2, <1>4, SetIsSet DEF f

LEMMA PatchSubrecordSets ==
  ASSUME VmadInv, NEW sig \in FieldSigs, NEW n \in Nat, NEW end,
         NEW body \in Bodies, EspPatchSubrecord(sig, n, end, body)
  PROVE  FieldSet(NthIndex(rfFields, sig, n)) /\ rfSeen' = rfSeen
<1> DEFINE f == rfFields[NthIndex(rfFields, sig, n)]
           g == [f EXCEPT !.body = body]
<1>1. HasNth(rfFields, sig, n) /\ UNCHANGED <<rfInserted, rfSeen, rfStale>>
  BY DEF EspPatchSubrecord
<1>2. rfFields' = [rfFields EXCEPT ![NthIndex(rfFields, sig, n)] = g]
  BY DEF EspPatchSubrecord, SetNth
<1>3. f \in FieldEntry
  BY <1>1, NthTyped
<1> HIDE DEF f
<1>4. g \in FieldEntry /\ g.sig = f.sig /\ g.id = f.id
  BY <1>3 DEF FieldEntry
<1> HIDE DEF g
<1> QED
  BY <1>1, <1>2, <1>4, SetIsSet DEF f

LEMMA InsertSubrecordInserts ==
  ASSUME VmadInv, NEW sig \in FieldSigs, NEW where \in Places, NEW len \in FieldLens,
         NEW body \in Bodies, EspInsertSubrecord(sig, where, len, body)
  PROVE  FieldIn /\ rfSeen' = rfSeen
<1> DEFINE e == [id |-> 100 + rfInserted, sig |-> sig, len |-> len, body |-> body]
           p == InsertPosition(rfFields, where)
<1>1. rfFields \in Seq(FieldEntry) /\ rfInserted \in Nat
  BY DEF VmadInv, VmadShape
<1>2. e \in FieldEntry /\ e.sig = sig /\ e.id = 100 + rfInserted
  BY <1>1 DEF FieldEntry
<1>3. p \in 1 .. (Len(rfFields) + 1)
  BY <1>1, PlaceInside DEF EspInsertSubrecord
<1>4. rfFields' = InsertAt(rfFields, p, e)
  BY DEF EspInsertSubrecord, InsertField
<1> HIDE DEF e, p
<1>5. /\ rfInserted' = rfInserted + 1 /\ rfStale' = rfStale \cup {sig} /\ rfSeen' = rfSeen
  BY DEF EspInsertSubrecord
<1>6. rfFields' \in Seq(FieldEntry) /\ Inserted(rfFields', rfFields, p, e)
  BY <1>1, <1>2, <1>3, <1>4, InsertAtFacts
<1> QED
  BY <1>2, <1>3, <1>5, <1>6 DEF FieldIn

LEMMA DeleteSubrecordRemoves ==
  ASSUME VmadInv, NEW sig, NEW n \in Nat, EspDeleteSubrecord(sig, n)
  PROVE  FieldOut(NthIndex(rfFields, sig, n)) /\ rfSeen' = rfSeen
<1> DEFINE k == NthIndex(rfFields, sig, n)
<1>1. rfFields \in Seq(FieldEntry)
  BY DEF VmadInv, VmadShape
<1>2. k \in 1 .. Len(rfFields) /\ rfFields[k].sig = sig
  BY <1>1, NthIsOccurrence DEF Occurrences, EspDeleteSubrecord
<1>3. rfFields' = RemoveAt(rfFields, k)
  BY DEF DeleteNth, EspDeleteSubrecord
<1> HIDE DEF k
<1>4. rfFields' \in Seq(FieldEntry) /\ Removed(rfFields', rfFields, k)
  BY <1>1, <1>2, <1>3, RemoveAtFacts
<1>5. /\ rfInserted' = rfInserted /\ rfStale' = rfStale \cup {sig} /\ rfSeen' = rfSeen
  BY DEF EspDeleteSubrecord
<1> QED
  BY <1>2, <1>4, <1>5 DEF FieldOut, k

LEMMA PutFirstPuts ==
  ASSUME VmadInv, NEW sig \in FieldSigs, NEW body \in Bodies \cup VmadBodies,
         PutFirst(sig, Max(FieldLens), body)
  PROVE  FieldIn \/ \E k : FieldSet(k)
<1>1. rfFields \in Seq(FieldEntry) /\ rfInserted \in Nat
  BY DEF VmadInv, VmadShape
<1>2. CASE HasNth(rfFields, sig, 0)
  <2> DEFINE f == rfFields[NthIndex(rfFields, sig, 0)]
             g == [f EXCEPT !.len = Max(FieldLens), !.body = body]
  <2>1. rfFields' = [rfFields EXCEPT ![NthIndex(rfFields, sig, 0)] = g]
    BY <1>2 DEF PutFirst, SetNth
  <2>2. UNCHANGED <<rfInserted, rfStale>>
    BY <1>2 DEF PutFirst
  <2>3. f \in FieldEntry
    BY <1>2, 0 \in Nat, NthTyped
  <2> HIDE DEF f
  <2>4. g \in FieldEntry /\ g.sig = f.sig /\ g.id = f.id
    BY <2>3 DEF FieldEntry
  <2> HIDE DEF g
  <2>5. FieldSet(NthIndex(rfFields, sig, 0))
    BY <1>2, <2>1, <2>2, <2>4, 0 \in Nat, SetIsSet DEF f
  <2> QED
    BY <2>5
<1>3. CASE ~HasNth(rfFields, sig, 0)
  <2> DEFINE e == [id |-> 100 + rfInserted, sig |-> sig, len |-> Max(FieldLens), body |-> body]
             t == Append(rfFields, e)
  <2>0. PICK m \in Nat : m = Len(rfFields) /\ DOMAIN rfFields = 1 .. m
    BY <1>1
  <2>1. rfFields' = t /\ rfInserted' = rfInserted + 1 /\ rfStale' = rfStale \cup {sig}
    BY <1>3 DEF PutFirst
  <2>2. e \in FieldEntry /\ e.sig = sig /\ e.id = 100 + rfInserted
    BY <1>1 DEF FieldEntry
  <2> HIDE DEF e
  <2>3. t \in Seq(FieldEntry)
    BY <1>1, <2>2
  <2>4. DOMAIN t = 1 .. (m + 1)
    BY <2>0, <1>1, <2>2
  <2>5. t[m + 1] = e /\ \A l \in 1 .. m : t[l] = rfFields[l]
    BY <2>0, <1>1, <2>2
  <2> HIDE DEF t
  <2>6. Inserted(t, rfFields, m + 1, e)
    BY <2>0, <2>4, <2>5 DEF Inserted
  <2>7. m + 1 \in 1 .. (Len(rfFields) + 1)
    BY <2>0
  <2> QED
    BY <2>1, <2>2, <2>3, <2>6, <2>7 DEF FieldIn
<1> QED
  BY <1>2, <1>3

LEMMA FieldSteps ==
  ASSUME VmadInv, RfNext
  PROVE  \/ \E only : EspGetSubrecords(only)
         \/ /\ rfSeen' = rfSeen
            /\ NoFieldStep \/ FieldIn \/ \E k : FieldSet(k) \/ FieldOut(k)
<1> DEFINE Goal == \/ \E only : EspGetSubrecords(only)
                   \/ /\ rfSeen' = rfSeen
                      /\ NoFieldStep \/ FieldIn \/ \E k : FieldSet(k) \/ FieldOut(k)
<1>0. 0 .. MaxFields - 1 \subseteq Nat
  BY RecordFieldsAssumption
<1>1. ASSUME NEW only, EspGetSubrecords(only) PROVE Goal
  BY <1>1
<1>2. ASSUME NEW sig \in FieldSigs, NEW n \in Nat, NEW body \in Bodies,
             \/ \E len \in FieldLens : EspSetSubrecord(sig, n, len, body)
             \/ \E end \in PatchEnds : EspPatchSubrecord(sig, n, end, body)
      PROVE  Goal
  BY <1>2, SetSubrecordSets, PatchSubrecordSets
<1>3. ASSUME NEW sig \in FieldSigs, NEW where \in Places, NEW len \in FieldLens,
             NEW body \in Bodies, EspInsertSubrecord(sig, where, len, body)
      PROVE  Goal
  BY <1>3, InsertSubrecordInserts
<1>4. ASSUME NEW sig \in FieldSigs, NEW n \in Nat, EspDeleteSubrecord(sig, n) PROVE Goal
  BY <1>4, DeleteSubrecordRemoves
<1>5. ASSUME NEW flag, NEW clear, EspSetFlag(flag, clear) PROVE Goal
  BY <1>5 DEF EspSetFlag, NoFieldStep
<1>6. ASSUME NEW body \in Bodies, EspMoveRef(body) PROVE Goal
  <2>1. PutFirst("DATA", Max(FieldLens), body) /\ rfSeen' = rfSeen
    BY <1>6 DEF EspMoveRef
  <2>2. "DATA" \in FieldSigs
    BY RecordFieldsAssumption
  <2> QED
    BY <2>1, <2>2, PutFirstPuts
<1>7. ASSUME NEW d \in Vmads, EspSetVmad(d) PROVE Goal
  <2>1. PutFirst("VMAD", Max(FieldLens), VmadFromDict(d)) /\ rfSeen' = rfSeen
    BY <1>7 DEF EspSetVmad
  <2>2. "VMAD" \in FieldSigs
    BY RecordFieldsAssumption
  <2>3. VmadFromDict(d) \in Bodies \cup VmadBodies
    BY VmadBytesTyped
  <2> QED
    BY <2>1, <2>2, <2>3, PutFirstPuts
<1> HIDE DEF Goal
<1>8. Goal
  BY <1>0, <1>1, <1>2, <1>3, <1>4, <1>5, <1>6, <1>7 DEF RfNext
<1> QED
  BY <1>8 DEF Goal

-----------------------------------------------------------------------------

\* As long as no field of its signature came or went, the field that was seen
\* is there, with its number.
SeenThere ==
  rfSeen # NoSeen /\ rfSeen.sig \notin rfStale =>
    \E i \in DOMAIN rfFields : /\ rfFields[i].id = rfSeen.id
                               /\ rfFields[i].sig = rfSeen.sig
                               /\ OccurrenceIndex(rfFields, i) = rfSeen.index

SeenInv == VmadInv /\ IdsApart(rfFields, rfInserted) /\ SeenThere

LEMMA SeenInit == RfInit => SeenInv
<1> SUFFICES ASSUME NEW start \in RfStarts, RfInitFrom(start)
             PROVE  SeenInv
  BY DEF RfInit
<1>1. VmadInv
  BY VmadInit DEF RfInit
<1>2. rfSeen = NoSeen
  BY DEF RfInitFrom
<1>3. DOMAIN rfFields = 1 .. 2 /\ \A i \in 1 .. 2 : rfFields[i].id = i
  BY DEF RfInitFrom
<1>4. rfInserted = 0
  BY DEF RfInitFrom
<1>5. IdsApart(rfFields, rfInserted)
  BY <1>3, <1>4 DEF IdsApart
<1> QED
  BY <1>1, <1>2, <1>5 DEF SeenInv, SeenThere

LEMMA SeenStep == SeenInv /\ [RfNext]_rfVars => SeenInv'
<1> SUFFICES ASSUME SeenInv, [RfNext]_rfVars
             PROVE  SeenInv'
  OBVIOUS
<1>1. VmadInv /\ VmadInv'
  BY VmadStep DEF SeenInv
<1>2. rfFields \in Seq(FieldEntry) /\ rfInserted \in Nat
  BY <1>1 DEF VmadInv, VmadShape
<1>3. IdsApart(rfFields, rfInserted)
  BY DEF SeenInv
<1>4. ASSUME NoFieldStep, rfSeen' = rfSeen PROVE SeenInv'
  BY <1>1, <1>3, <1>4 DEF NoFieldStep, SeenInv, SeenThere
<1>5. ASSUME NEW only, EspGetSubrecords(only) PROVE SeenInv'
  <2>1. UNCHANGED <<rfFields, rfInserted>>
    BY <1>5 DEF EspGetSubrecords
  <2>2. \E i \in DOMAIN rfFields :
          rfSeen' = [sig |-> rfFields[i].sig, index |-> OccurrenceIndex(rfFields, i),
                     id |-> rfFields[i].id]
    BY <1>5 DEF EspGetSubrecords, FieldViews
  <2>3. \E i \in DOMAIN rfFields : /\ rfFields[i].id = rfSeen'.id
                                   /\ rfFields[i].sig = rfSeen'.sig
                                   /\ OccurrenceIndex(rfFields, i) = rfSeen'.index
    BY <2>2
  <2> QED
    BY <1>1, <1>3, <2>1, <2>3 DEF SeenInv, SeenThere
<1>6. ASSUME NEW k, FieldSet(k), rfSeen' = rfSeen PROVE SeenInv'
  <2>1. PICK g \in FieldEntry :
          /\ k \in DOMAIN rfFields
          /\ g.sig = rfFields[k].sig /\ g.id = rfFields[k].id
          /\ SetFacts(rfFields', rfFields, k, g)
          /\ rfInserted' = rfInserted /\ rfStale' = rfStale
    BY <1>6 DEF FieldSet
  <2> DEFINE t == rfFields'
  <2>2. SetFacts(t, rfFields, k, g)
    BY <2>1
  <2> HIDE DEF t
  <2>3. \A i \in DOMAIN rfFields :
          t[i].sig = rfFields[i].sig /\ OccurrenceIndex(t, i) = OccurrenceIndex(rfFields, i)
    BY <2>1, <2>2, SetKeepsNumbers
  <2>4. \A i \in DOMAIN rfFields : t[i].id = rfFields[i].id
    BY <2>1, <2>2 DEF SetFacts
  <2>5. DOMAIN t = DOMAIN rfFields
    BY <2>2 DEF SetFacts
  <2>6. IdsApart(t, rfInserted)
    BY <1>2, <1>3, <2>1, <2>2, SetKeepsOthers
  <2>7. SeenThere'
    BY <1>6, <2>1, <2>3, <2>4, <2>5 DEF SeenInv, SeenThere, t
  <2> QED
    BY <1>1, <2>1, <2>6, <2>7 DEF SeenInv, t
<1>7. ASSUME FieldIn, rfSeen' = rfSeen PROVE SeenInv'
  <2>1. PICK p \in 1 .. (Len(rfFields) + 1), e \in FieldEntry :
          /\ e.id = 100 + rfInserted
          /\ rfFields' \in Seq(FieldEntry)
          /\ Inserted(rfFields', rfFields, p, e)
          /\ rfInserted' = rfInserted + 1 /\ rfStale' = rfStale \cup {e.sig}
    BY <1>7 DEF FieldIn
  <2> DEFINE t == rfFields'
  <2>2. t \in Seq(FieldEntry) /\ Inserted(t, rfFields, p, e)
    BY <2>1
  <2> HIDE DEF t
  <2>3. \A i \in DOMAIN rfFields : rfFields[i].sig # e.sig =>
          \E j \in DOMAIN t : t[j] = rfFields[i]
                              /\ OccurrenceIndex(t, j) = OccurrenceIndex(rfFields, i)
    <3> TAKE i \in DOMAIN rfFields
    <3> HAVE rfFields[i].sig # e.sig
    <3>1. rfFields \in Seq(FieldEntry)
      BY <1>2
    <3> QED
      BY <2>2, <3>1, InsertKeepsNumber
  <2>4. IdsApart(t, rfInserted + 1)
    BY <1>2, <1>3, <2>1, <2>2, InsertKeepsApart
  <2>5. SeenThere'
    BY <1>7, <2>1, <2>3 DEF SeenInv, SeenThere, t
  <2> QED
    BY <1>1, <2>1, <2>4, <2>5 DEF SeenInv, t
<1>8. ASSUME NEW k, FieldOut(k), rfSeen' = rfSeen PROVE SeenInv'
  <2>1. /\ k \in 1 .. Len(rfFields)
        /\ rfFields' \in Seq(FieldEntry)
        /\ Removed(rfFields', rfFields, k)
        /\ rfInserted' = rfInserted /\ rfStale' = rfStale \cup {rfFields[k].sig}
    BY <1>8 DEF FieldOut
  <2> DEFINE t == rfFields'
  <2>2. t \in Seq(FieldEntry) /\ Removed(t, rfFields, k)
    BY <2>1
  <2> HIDE DEF t
  <2>3. \A i \in DOMAIN rfFields : rfFields[i].sig # rfFields[k].sig =>
          \E j \in DOMAIN t : t[j] = rfFields[i]
                              /\ OccurrenceIndex(t, j) = OccurrenceIndex(rfFields, i)
    BY <1>2, <2>1, <2>2, RemoveKeepsNumber
  <2>4. IdsApart(t, rfInserted)
    BY <1>2, <1>3, <2>1, <2>2, RemoveKeepsOthers
  <2>5. SeenThere'
    BY <1>8, <2>1, <2>3 DEF SeenInv, SeenThere, t
  <2> QED
    BY <1>1, <2>1, <2>4, <2>5 DEF SeenInv, t
<1>9. CASE UNCHANGED rfVars
  BY <1>4, <1>9 DEF rfVars, NoFieldStep
<1>10. CASE RfNext
  BY <1>1, <1>4, <1>5, <1>6, <1>7, <1>8, <1>10, FieldSteps
<1> QED
  BY <1>9, <1>10

\* The number names the field that was seen.
LEMMA NumberHits ==
  ASSUME SeenInv, rfSeen # NoSeen, rfSeen.sig \notin rfStale
  PROVE  LET k == NthIndex(rfFields, rfSeen.sig, rfSeen.index)
         IN  k \in DOMAIN rfFields /\ rfFields[k].id = rfSeen.id
<1> DEFINE S == Occurrences(rfFields, rfSeen.sig)
           k == NthIndex(rfFields, rfSeen.sig, rfSeen.index)
<1>1. rfFields \in Seq(FieldEntry)
  BY DEF SeenInv, VmadInv, VmadShape
<1>2. PICK i \in DOMAIN rfFields : /\ rfFields[i].id = rfSeen.id
                                   /\ rfFields[i].sig = rfSeen.sig
                                   /\ OccurrenceIndex(rfFields, i) = rfSeen.index
  BY DEF SeenInv, SeenThere
<1>3. i \in S
  BY <1>2 DEF Occurrences
<1>4. k \in S /\ OccurrenceIndex(rfFields, k) = rfSeen.index
  BY <1>2, <1>3 DEF NthIndex
<1>5. k \in DOMAIN rfFields /\ rfFields[k].sig = rfSeen.sig
  BY <1>4 DEF Occurrences
<1> HIDE DEF k
<1>6. k = i
  BY <1>1, <1>2, <1>4, <1>5, NumbersDiffer
<1> QED
  BY <1>2, <1>5, <1>6 DEF k

LEMMA EditHits ==
  ASSUME SeenInv, rfSeen # NoSeen, rfSeen.sig \notin rfStale, NEW n \in Nat, n = rfSeen.index,
         \/ EspDeleteSubrecord(rfSeen.sig, n)
         \/ \E len \in FieldLens, body \in Bodies : EspSetSubrecord(rfSeen.sig, n, len, body)
         \/ \E end \in PatchEnds, body \in Bodies : EspPatchSubrecord(rfSeen.sig, n, end, body)
  PROVE  Others(rfFields', rfSeen.id) = Others(rfFields, rfSeen.id)
<1> DEFINE k == NthIndex(rfFields, rfSeen.sig, n)
<1>0. VmadInv /\ IdsApart(rfFields, rfInserted)
  BY DEF SeenInv
<1>1. rfFields \in Seq(FieldEntry) /\ rfInserted \in Nat
  BY <1>0 DEF VmadInv, VmadShape
<1>2. k \in DOMAIN rfFields /\ rfFields[k].id = rfSeen.id
  BY NumberHits
<1>3. rfSeen.sig \in FieldSigs
  <2>1. PICK i \in DOMAIN rfFields : rfFields[i].sig = rfSeen.sig
    BY DEF SeenInv, SeenThere
  <2>2. rfFields[i] \in FieldEntry
    BY <1>1
  <2> QED
    BY <2>1, <2>2 DEF FieldEntry
<1>4. FieldOut(k) \/ FieldSet(k)
  BY <1>0, <1>3, DeleteSubrecordRemoves, SetSubrecordSets, PatchSubrecordSets
<1> DEFINE t == rfFields'
<1> HIDE DEF k
<1>5. CASE FieldOut(k)
  <2>1. Removed(t, rfFields, k) /\ k \in 1 .. Len(rfFields)
    BY <1>5 DEF FieldOut
  <2> HIDE DEF t
  <2>2. Others(t, rfFields[k].id) = Others(rfFields, rfFields[k].id)
    BY <1>0, <1>1, <2>1, RemoveKeepsOthers
  <2> QED
    BY <1>2, <2>2 DEF t
<1>6. CASE FieldSet(k)
  <2>1. PICK g \in FieldEntry : g.id = rfFields[k].id /\ SetFacts(t, rfFields, k, g)
    BY <1>6 DEF FieldSet
  <2> HIDE DEF t
  <2>2. Others(t, rfFields[k].id) = Others(rfFields, rfFields[k].id)
    BY <1>0, <1>1, <1>2, <2>1, SetKeepsOthers
  <2> QED
    BY <1>2, <2>2 DEF t
<1> QED
  BY <1>4, <1>5, <1>6

\* An edit of an occurrence that a caller has seen changes that field and no
\* other, however many calls came between, unless one of them inserted or
\* deleted a field of its signature: for every record, every place that fields
\* of other signatures come to or go from.
THEOREM SeenIsHit == RfSpec => ViewedOccurrenceHit
<1> DEFINE Edit == \/ EspDeleteSubrecord(rfSeen.sig, rfSeen.index)
                   \/ \E len \in FieldLens, body \in Bodies :
                        EspSetSubrecord(rfSeen.sig, rfSeen.index, len, body)
                   \/ \E end \in PatchEnds, body \in Bodies :
                        EspPatchSubrecord(rfSeen.sig, rfSeen.index, end, body)
           Hit == rfSeen # NoSeen /\ rfSeen.sig \notin rfStale /\ Edit =>
                    Others(rfFields', rfSeen.id) = Others(rfFields, rfSeen.id)
<1>1. ASSUME SeenInv PROVE Hit
  <2> SUFFICES ASSUME rfSeen # NoSeen, rfSeen.sig \notin rfStale, Edit
               PROVE  Others(rfFields', rfSeen.id) = Others(rfFields, rfSeen.id)
    OBVIOUS
  <2>1. rfSeen.index \in Nat
    <3>1. rfFields \in Seq(FieldEntry)
      BY <1>1 DEF SeenInv, VmadInv, VmadShape
    <3>2. PICK m \in Nat : DOMAIN rfFields = 1 .. m
      BY <3>1
    <3>3. PICK i \in DOMAIN rfFields : OccurrenceIndex(rfFields, i) = rfSeen.index
      BY <1>1 DEF SeenInv, SeenThere
    <3>4. \A S : S \subseteq 1 .. m => Cardinality(S) \in Nat
      BY RankFacts
    <3> QED
      BY <3>2, <3>3, <3>4 DEF OccurrenceIndex, Occurrences
  <2> QED
    BY <1>1, <2>1, EditHits
<1>2. SeenInv => [Hit]_rfVars
  BY <1>1
<1>3. RfSpec => [][Hit]_rfVars
  BY <1>2, SeenInit, SeenStep, PTL DEF RfSpec
<1> QED
  BY <1>3, PTL DEF ViewedOccurrenceHit, Others

-----------------------------------------------------------------------------
(* What Find finds.                                                        *)

FoundAt(disk, dirs, places, k, j) ==
  /\ Has(disk, dirs[k], places[j])
  /\ \A l \in DOMAIN dirs, i \in DOMAIN places :
       Has(disk, dirs[l], places[i]) => k < l \/ (k = l /\ j <= i)

Nowhere(disk, dirs, places) ==
  \A l \in DOMAIN dirs, i \in DOMAIN places : ~ Has(disk, dirs[l], places[i])

FindsFirst(disk, dirs, places) ==
  \/ Nowhere(disk, dirs, places) /\ Find(disk, dirs, places) = NotFound
  \/ \E k \in DOMAIN dirs, j \in DOMAIN places :
       /\ FoundAt(disk, dirs, places, k, j)
       /\ Find(disk, dirs, places) = [dir |-> dirs[k], path |-> places[j]]

\* Nothing is found exactly if no place has a file, and else the first.
LEMMA FindSays ==
  ASSUME NEW disk, NEW D, NEW dirs \in Seq(D), NEW T, NEW places \in Seq(T)
  PROVE  FindsFirst(disk, dirs, places)
<1> USE DEF FindsFirst
<1> DEFINE hits == {h \in (DOMAIN dirs) \X (DOMAIN places) : Has(disk, dirs[h[1]], places[h[2]])}
           First(h) == \A g \in hits : h[1] < g[1] \/ (h[1] = g[1] /\ h[2] <= g[2])
           first == CHOOSE h \in hits : First(h)
<1>1. Find(disk, dirs, places) =
        IF hits = {} THEN NotFound ELSE [dir |-> dirs[first[1]], path |-> places[first[2]]]
  BY DEF Find
<1>2. \A l \in DOMAIN dirs, i \in DOMAIN places :
        Has(disk, dirs[l], places[i]) => <<l, i>> \in hits
  OBVIOUS
<1>3. \A h \in hits : /\ h[1] \in DOMAIN dirs /\ h[2] \in DOMAIN places
                      /\ Has(disk, dirs[h[1]], places[h[2]])
  OBVIOUS
<1>4. DOMAIN dirs \subseteq Nat /\ DOMAIN places \subseteq Nat
  OBVIOUS
<1>5. CASE hits = {}
  BY <1>1, <1>2, <1>5 DEF Nowhere
<1>6. CASE hits # {}
  <2> HIDE DEF hits
  <2> DEFINE K == {k \in DOMAIN dirs : \E h \in hits : h[1] = k}
  <2>1. K \subseteq Nat /\ K # {}
    BY <1>3, <1>4, <1>6
  <2> HIDE DEF K
  <2>2. PICK k \in K : \A n \in K : k <= n
    BY <2>1, LeastNatural
  <2> DEFINE J == {j \in DOMAIN places : Has(disk, dirs[k], places[j])}
  <2>3. k \in DOMAIN dirs /\ J \subseteq Nat /\ J # {}
    BY <1>3, <1>4, <2>2 DEF K
  <2>4. \A j \in DOMAIN places : j \in J <=> Has(disk, dirs[k], places[j])
    OBVIOUS
  <2>5. J \subseteq DOMAIN places
    OBVIOUS
  <2> HIDE DEF J
  <2>6. PICK j \in J : \A n \in J : j <= n
    BY <2>3, LeastNatural
  <2>7. <<k, j>> \in hits /\ j \in Nat /\ k \in Nat
    BY <1>2, <1>4, <2>3, <2>4, <2>5, <2>6
  <2>8. \A g \in hits : k < g[1] \/ (k = g[1] /\ j <= g[2])
    <3> TAKE g \in hits
    <3>1. g[1] \in K /\ k <= g[1] /\ g[1] \in Nat
      BY <1>3, <1>4, <2>2 DEF K
    <3>2. k = g[1] => g[2] \in J
      BY <1>3, <2>4
    <3>3. k = g[1] => j <= g[2]
      BY <2>6, <3>2
    <3>4. k < g[1] \/ k = g[1]
      BY <2>7, <3>1
    <3> QED
      BY <3>3, <3>4
  <2>9. First(<<k, j>>)
    BY <2>8
  <2> HIDE DEF First
  <2>10. first \in hits /\ First(first)
    BY <2>7, <2>9
  <2>11. first[1] < k \/ (first[1] = k /\ first[2] <= j)
    BY <2>7, <2>10 DEF First
  <2>12. /\ first[1] \in DOMAIN dirs /\ first[2] \in DOMAIN places
         /\ Has(disk, dirs[first[1]], places[first[2]])
    BY <1>3, <2>10
  <2>13. FoundAt(disk, dirs, places, first[1], first[2])
    <3>1. ASSUME NEW l \in DOMAIN dirs, NEW i \in DOMAIN places, Has(disk, dirs[l], places[i])
          PROVE  first[1] < l \/ (first[1] = l /\ first[2] <= i)
      <4>1. <<l, i>> \in hits
        BY <1>2, <3>1
      <4> QED
        BY <2>10, <4>1 DEF First
    <3> QED
      BY <2>12, <3>1 DEF FoundAt
  <2> HIDE DEF first
  <2> QED
    BY <1>1, <1>6, <2>12, <2>13
<1> QED
  BY <1>5, <1>6

\* What is found under a name in Dest alone.
InDest(f) == IF f = NotFound THEN NotFound ELSE [dir |-> Dest, path |-> f.path]

LEMMA FindInCopy ==
  ASSUME NEW disk, NEW T, NEW places \in Seq(T), NEW f,
         f = NotFound => \A i \in DOMAIN places : ~ Has(disk, Dest, places[i]),
         f # NotFound => \E j \in DOMAIN places :
           /\ f.path = places[j] /\ Has(disk, Dest, places[j])
           /\ \A i \in DOMAIN places : i < j /\ Has(disk, Dest, places[i]) => f.path = places[i]
  PROVE  Find(disk, <<Dest>>, places) = InDest(f)
<1> DEFINE dirs == <<Dest>>
<1>1. dirs \in Seq({Dest}) /\ DOMAIN dirs = {1} /\ dirs[1] = Dest
  OBVIOUS
<1> HIDE DEF dirs
<1>2. FindsFirst(disk, dirs, places)
  BY <1>1, FindSays
<1>3. CASE Nowhere(disk, dirs, places) /\ Find(disk, dirs, places) = NotFound
  <2>1. f = NotFound
    BY <1>1, <1>3 DEF Nowhere
  <2> QED
    BY <1>3, <2>1 DEF InDest, dirs
<1>4. ASSUME NEW k \in DOMAIN dirs, NEW j \in DOMAIN places,
             FoundAt(disk, dirs, places, k, j),
             Find(disk, dirs, places) = [dir |-> dirs[k], path |-> places[j]]
      PROVE  Find(disk, <<Dest>>, places) = InDest(f)
  <2>1. Has(disk, Dest, places[j]) /\ dirs[k] = Dest /\ k = 1
    BY <1>1, <1>4 DEF FoundAt
  <2>2. f # NotFound
    BY <2>1
  <2>3. PICK m \in DOMAIN places :
          /\ f.path = places[m] /\ Has(disk, Dest, places[m])
          /\ \A i \in DOMAIN places : i < m /\ Has(disk, Dest, places[i]) => f.path = places[i]
    BY <2>2
  <2>4. j <= m
    BY <1>1, <1>4, <2>1, <2>3 DEF FoundAt
  <2>5. f.path = places[j]
    <3>1. j \in Nat /\ m \in Nat
      OBVIOUS
    <3> QED
      BY <2>1, <2>3, <2>4, <3>1
  <2> QED
    BY <1>4, <2>1, <2>2, <2>5 DEF InDest, dirs
<1> QED
  BY <1>2, <1>3, <1>4 DEF FindsFirst

-----------------------------------------------------------------------------
(* Where each kind of file is found.                                       *)

PluginPlaces(n) == [i \in DOMAIN PluginSubs |-> Place(PluginSubs[i], n, "esp")]
IconPlaces(stem) == TexPlaces("icons", stem) \o TexPlaces("textures", stem)
TexPath(sub, stem, p) == \E i \in DOMAIN TexExts : p = Place(sub, stem, TexExts[i])
SoundPlaces(stem) == {Place("sound", stem, "wav"), Place("", stem, "wav")}

\* What a file that was found is: a file of a directory that was given.
FoundIn(disk, f) ==
  f.dir \in AsDirs /\ f = [dir |-> f.dir, path |-> f.path] /\ Has(disk, f.dir, f.path)

LEMMA FindGives ==
  ASSUME NEW disk, NEW dirs \in Seq(AsDirs), NEW T, NEW places \in Seq(T),
         Find(disk, dirs, places) # NotFound
  PROVE  /\ FoundIn(disk, Find(disk, dirs, places))
         /\ \E j \in DOMAIN places : Find(disk, dirs, places).path = places[j]
<1>1. dirs \in Seq(AsDirs) /\ places \in Seq(T)
  OBVIOUS
<1>2. FindsFirst(disk, dirs, places)
  BY <1>1, FindSays
<1>3. PICK k \in DOMAIN dirs, j \in DOMAIN places :
        /\ FoundAt(disk, dirs, places, k, j)
        /\ Find(disk, dirs, places) = [dir |-> dirs[k], path |-> places[j]]
  BY <1>2 DEF FindsFirst
<1>4. dirs[k] \in AsDirs
  OBVIOUS
<1> QED
  BY <1>3, <1>4 DEF FoundAt, FoundIn

LEMMA PlaceTells ==
  ASSUME NEW a, NEW b, NEW c, NEW d, NEW e, NEW g
  PROVE  Place(a, b, c) = Place(d, e, g) <=> a = d /\ b = e /\ c = g
BY DEF Place

LEMMA ListsOfPlaces ==
  ASSUME NEW sub, NEW stem
  PROVE  /\ TexPlaces(sub, stem) \in Seq({Place(sub, stem, e) : e \in STRING})
         /\ PluginPlaces(stem) \in Seq({Place(s, stem, "esp") : s \in STRING})
         /\ TexPlaces(sub, stem) = [i \in 1 .. Len(TexExts) |-> Place(sub, stem, TexExts[i])]
         /\ Len(TexPlaces(sub, stem)) = Len(TexExts)
<1>1. TexExts \in Seq(STRING) /\ PluginSubs \in Seq(STRING)
  BY AssetAssumption
<1>2. Len(TexExts) \in Nat /\ DOMAIN TexExts = 1 .. Len(TexExts)
  BY <1>1
<1>3. Len(PluginSubs) \in Nat /\ DOMAIN PluginSubs = 1 .. Len(PluginSubs)
  BY <1>1
<1>4. TexPlaces(sub, stem) \in Seq({Place(sub, stem, e) : e \in STRING})
  BY <1>1, <1>2, SeqDef DEF TexPlaces
<1>5. PluginPlaces(stem) \in Seq({Place(s, stem, "esp") : s \in STRING})
  BY <1>1, <1>3, SeqDef DEF PluginPlaces
<1>6. TexPlaces(sub, stem) = [i \in 1 .. Len(TexExts) |-> Place(sub, stem, TexExts[i])]
  BY <1>2 DEF TexPlaces
<1>7. Len(TexPlaces(sub, stem)) = Len(TexExts)
  BY <1>2, <1>4, <1>6
<1> QED
  BY <1>4, <1>5, <1>6, <1>7

LEMMA IconList ==
  ASSUME NEW stem
  PROVE  /\ IconPlaces(stem) \in Seq({Place("icons", stem, e) : e \in STRING}
                                    \cup {Place("textures", stem, e) : e \in STRING})
         /\ Len(IconPlaces(stem)) = Len(TexExts) + Len(TexExts)
         /\ \A i \in 1 .. Len(TexExts) :
              /\ IconPlaces(stem)[i] = Place("icons", stem, TexExts[i])
              /\ IconPlaces(stem)[Len(TexExts) + i] = Place("textures", stem, TexExts[i])
<1> DEFINE S == {Place("icons", stem, e) : e \in STRING} \cup {Place("textures", stem, e) : e \in STRING}
           A == TexPlaces("icons", stem)
           B == TexPlaces("textures", stem)
           n == Len(TexExts)
<1>1. A \in Seq(S) /\ B \in Seq(S)
  <2>1. TexExts \in Seq(STRING)
    BY AssetAssumption
  <2>2. n \in Nat /\ DOMAIN TexExts = 1 .. n /\ \A i \in 1 .. n : TexExts[i] \in STRING
    BY <2>1
  <2>3. \A i \in 1 .. n : Place("icons", stem, TexExts[i]) \in S /\ Place("textures", stem, TexExts[i]) \in S
    BY <2>2
  <2> HIDE DEF S, n
  <2> QED
    BY <2>2, <2>3, SeqDef DEF TexPlaces
<1>2. /\ A = [i \in 1 .. n |-> Place("icons", stem, TexExts[i])] /\ Len(A) = n
      /\ B = [i \in 1 .. n |-> Place("textures", stem, TexExts[i])] /\ Len(B) = n
  BY ListsOfPlaces
<1>3. n \in Nat
  BY AssetAssumption
<1> HIDE DEF S, A, B, n
<1>4. A \o B \in Seq(S) /\ Len(A \o B) = Len(A) + Len(B)
  BY <1>1, ConcatProperties
<1>5. \A i \in 1 .. n + n : (A \o B)[i] = IF i <= n THEN A[i] ELSE B[i - n]
  BY <1>1, <1>2, <1>3, ConcatProperties
<1>6. \A i \in 1 .. n : (A \o B)[i] = Place("icons", stem, TexExts[i])
  BY <1>2, <1>3, <1>5
<1>7. \A i \in 1 .. n : (A \o B)[n + i] = Place("textures", stem, TexExts[i])
  <2> TAKE i \in 1 .. n
  <2>1. n + i \in 1 .. n + n /\ ~ (n + i <= n) /\ (n + i) - n = i
    BY <1>3
  <2>2. (A \o B)[n + i] = B[i]
    BY <1>5, <2>1
  <2> QED
    BY <1>2, <2>2
<1> QED
  BY <1>2, <1>4, <1>6, <1>7 DEF IconPlaces, A, B, n, S

PluginPath(n, p) == \E i \in DOMAIN PluginSubs : p = Place(PluginSubs[i], n, "esp")

LEMMA PluginFound ==
  ASSUME NEW disk, NEW dirs \in Seq(AsDirs), NEW n, FindPlugin(disk, dirs, n) # NotFound
  PROVE  /\ FoundIn(disk, FindPlugin(disk, dirs, n))
         /\ PluginPath(n, FindPlugin(disk, dirs, n).path)
<1>1. FindPlugin(disk, dirs, n) = Find(disk, dirs, PluginPlaces(n))
  BY DEF FindPlugin, PluginPlaces
<1>2. PluginPlaces(n) \in Seq({Place(s, n, "esp") : s \in STRING})
  BY ListsOfPlaces
<1>3. /\ FoundIn(disk, Find(disk, dirs, PluginPlaces(n)))
      /\ \E j \in DOMAIN PluginPlaces(n) :
           Find(disk, dirs, PluginPlaces(n)).path = PluginPlaces(n)[j]
  BY <1>1, <1>2, FindGives
<1> QED
  BY <1>1, <1>3 DEF PluginPlaces, PluginPath

\* A file found for one place is at that place.
LEMMA OneFound ==
  ASSUME NEW disk, NEW dirs \in Seq(AsDirs), NEW p, Find(disk, dirs, <<p>>) # NotFound
  PROVE  FoundIn(disk, Find(disk, dirs, <<p>>)) /\ Find(disk, dirs, <<p>>).path = p
<1> DEFINE places == <<p>>
<1>1. places \in Seq({p}) /\ \A j \in DOMAIN places : places[j] = p
  OBVIOUS
<1>2. Find(disk, dirs, places) # NotFound
  OBVIOUS
<1> HIDE DEF places
<1>3. /\ FoundIn(disk, Find(disk, dirs, places))
      /\ \E j \in DOMAIN places : Find(disk, dirs, places).path = places[j]
  BY <1>1, <1>2, FindGives
<1> QED
  BY <1>1, <1>3 DEF places

LEMMA TexFound ==
  ASSUME NEW disk, NEW dirs \in Seq(AsDirs), NEW sub, NEW stem,
         Find(disk, dirs, TexPlaces(sub, stem)) # NotFound
  PROVE  /\ FoundIn(disk, Find(disk, dirs, TexPlaces(sub, stem)))
         /\ TexPath(sub, stem, Find(disk, dirs, TexPlaces(sub, stem)).path)
<1> DEFINE places == TexPlaces(sub, stem)
<1>1. places \in Seq({Place(sub, stem, e) : e \in STRING})
  BY ListsOfPlaces
<1>2. /\ FoundIn(disk, Find(disk, dirs, places))
      /\ \E j \in DOMAIN places : Find(disk, dirs, places).path = places[j]
  BY <1>1, FindGives
<1>3. \A j \in DOMAIN places : TexPath(sub, stem, places[j])
  BY DEF TexPlaces, TexPath
<1> HIDE DEF places
<1> QED
  BY <1>2, <1>3 DEF places

LEMMA IconFound ==
  ASSUME NEW disk, NEW dirs \in Seq(AsDirs), NEW stem,
         Find(disk, dirs, IconPlaces(stem)) # NotFound
  PROVE  /\ FoundIn(disk, Find(disk, dirs, IconPlaces(stem)))
         /\ \/ TexPath("icons", stem, Find(disk, dirs, IconPlaces(stem)).path)
            \/ TexPath("textures", stem, Find(disk, dirs, IconPlaces(stem)).path)
<1> DEFINE places == IconPlaces(stem)
           n == Len(TexExts)
<1>1. /\ places \in Seq({Place("icons", stem, e) : e \in STRING}
                          \cup {Place("textures", stem, e) : e \in STRING})
      /\ Len(places) = n + n
      /\ \A i \in 1 .. n : /\ places[i] = Place("icons", stem, TexExts[i])
                           /\ places[n + i] = Place("textures", stem, TexExts[i])
  BY IconList
<1>2. n \in Nat /\ DOMAIN TexExts = 1 .. n
  BY AssetAssumption
<1> HIDE DEF places, n
<1>3. /\ FoundIn(disk, Find(disk, dirs, places))
      /\ \E j \in DOMAIN places : Find(disk, dirs, places).path = places[j]
  BY <1>1, FindGives DEF places
<1>4. ASSUME NEW j \in DOMAIN places
      PROVE  TexPath("icons", stem, places[j]) \/ TexPath("textures", stem, places[j])
  <2>1. j \in 1 .. n + n
    BY <1>1
  <2>2. CASE j \in 1 .. n
    BY <1>1, <1>2, <2>2 DEF TexPath
  <2>3. CASE j \notin 1 .. n
    <3>1. PICK i \in 1 .. n : i = j - n
      BY <1>2, <2>1, <2>3
    <3>2. j = n + i
      BY <1>2, <2>1, <3>1
    <3> QED
      BY <1>1, <1>2, <3>2 DEF TexPath
  <2> QED
    BY <2>2, <2>3
<1> QED
  BY <1>3, <1>4 DEF places

\* An icon among the textures is what a texture of its name would be, and
\* where there is no such icon there is no such texture.
LEMMA IconBeside ==
  ASSUME NEW disk, NEW dirs \in Seq(AsDirs), NEW stem
  PROVE  /\ Find(disk, dirs, IconPlaces(stem)) = NotFound
              => Find(disk, dirs, TexPlaces("textures", stem)) = NotFound
         /\ Find(disk, dirs, IconPlaces(stem)) # NotFound
              /\ TexPath("textures", stem, Find(disk, dirs, IconPlaces(stem)).path)
              => Find(disk, dirs, IconPlaces(stem)) = Find(disk, dirs, TexPlaces("textures", stem))
<1> DEFINE A == IconPlaces(stem)
           B == TexPlaces("textures", stem)
           n == Len(TexExts)
<1>1. /\ A \in Seq({Place("icons", stem, e) : e \in STRING}
                     \cup {Place("textures", stem, e) : e \in STRING})
      /\ Len(A) = n + n
      /\ \A i \in 1 .. n : /\ A[i] = Place("icons", stem, TexExts[i])
                           /\ A[n + i] = Place("textures", stem, TexExts[i])
  BY IconList
<1>2. n \in Nat /\ DOMAIN TexExts = 1 .. n
  BY AssetAssumption
<1>3. /\ B \in Seq({Place("textures", stem, e) : e \in STRING})
      /\ B = [i \in 1 .. n |-> Place("textures", stem, TexExts[i])]
  BY ListsOfPlaces
<1> HIDE DEF A, B, n
<1>4. FindsFirst(disk, dirs, A) /\ FindsFirst(disk, dirs, B)
  BY <1>1, <1>3, FindSays
<1>5. DOMAIN A = 1 .. n + n /\ DOMAIN B = 1 .. n /\ DOMAIN dirs \subseteq Nat
  BY <1>1, <1>2, <1>3
<1>6. \A i \in 1 .. n : n + i \in DOMAIN A /\ A[n + i] = B[i]
  BY <1>1, <1>2, <1>3, <1>5
<1>7. ASSUME Nowhere(disk, dirs, A), NEW l \in DOMAIN dirs, NEW i \in DOMAIN B,
             Has(disk, dirs[l], B[i])
      PROVE  FALSE
  BY <1>5, <1>6, <1>7 DEF Nowhere
<1>8. ASSUME NEW k \in DOMAIN dirs, NEW j \in DOMAIN A, FoundAt(disk, dirs, A, k, j),
             Find(disk, dirs, A) = [dir |-> dirs[k], path |-> A[j]],
             TexPath("textures", stem, A[j])
      PROVE  Find(disk, dirs, A) = Find(disk, dirs, B)
  <2>1. j \notin 1 .. n
    <3>1. ASSUME j \in 1 .. n PROVE FALSE
      <4>1. PICK i \in DOMAIN TexExts : A[j] = Place("textures", stem, TexExts[i])
        BY <1>8 DEF TexPath
      <4> QED
        BY <1>1, <3>1, <4>1, PlaceTells
    <3> QED
      BY <3>1
  <2>2. PICK i \in 1 .. n : i = j - n
    BY <1>2, <1>5, <2>1
  <2>3. j = n + i /\ A[j] = B[i]
    <3>1. j \in Nat /\ i \in Nat
      BY <1>2, <1>5
    <3>2. j = n + i
      BY <1>2, <2>2, <3>1
    <3>3. A[n + i] = B[i]
      BY <1>6
    <3> QED
      BY <3>2, <3>3
  <2>4. ~ Nowhere(disk, dirs, B)
    BY <1>5, <1>8, <2>3 DEF FoundAt, Nowhere
  <2>5. PICK l \in DOMAIN dirs, m \in DOMAIN B :
          /\ FoundAt(disk, dirs, B, l, m)
          /\ Find(disk, dirs, B) = [dir |-> dirs[l], path |-> B[m]]
    BY <1>4, <2>4 DEF FindsFirst
  <2>6. l < k \/ (l = k /\ m <= i)
    BY <1>5, <1>8, <2>3, <2>5 DEF FoundAt
  <2>7. k < l \/ (k = l /\ j <= n + m)
    BY <1>5, <1>6, <1>8, <2>5 DEF FoundAt
  <2>8. k \in Nat /\ l \in Nat /\ m \in Nat
    BY <1>5
  <2>9. k = l /\ m = i
    BY <1>2, <2>3, <2>6, <2>7, <2>8
  <2> QED
    BY <1>8, <2>3, <2>5, <2>9
<1>9. Find(disk, dirs, A) = NotFound => Find(disk, dirs, B) = NotFound
  <2>1. CASE Nowhere(disk, dirs, A)
    BY <1>4, <1>7, <2>1 DEF FindsFirst, FoundAt
  <2>2. CASE ~ Nowhere(disk, dirs, A)
    <3>1. PICK k \in DOMAIN dirs, j \in DOMAIN A :
            Has(disk, dirs[k], A[j]) /\ Find(disk, dirs, A) = [dir |-> dirs[k], path |-> A[j]]
      BY <1>4, <2>2 DEF FindsFirst, FoundAt
    <3>2. dirs[k] \in AsDirs /\ A[j] \in AsPaths
      BY <3>1 DEF Has
    <3> QED
      BY <3>1, <3>2, AssetAssumption
  <2> QED
    BY <2>1, <2>2
<1>10. Find(disk, dirs, A) # NotFound /\ TexPath("textures", stem, Find(disk, dirs, A).path)
         => Find(disk, dirs, A) = Find(disk, dirs, B)
  <2> SUFFICES ASSUME Find(disk, dirs, A) # NotFound,
                      TexPath("textures", stem, Find(disk, dirs, A).path)
               PROVE  Find(disk, dirs, A) = Find(disk, dirs, B)
    OBVIOUS
  <2>1. PICK k \in DOMAIN dirs, j \in DOMAIN A :
          /\ FoundAt(disk, dirs, A, k, j)
          /\ Find(disk, dirs, A) = [dir |-> dirs[k], path |-> A[j]]
    BY <1>4 DEF FindsFirst
  <2>2. TexPath("textures", stem, A[j])
    BY <2>1
  <2> QED
    BY <1>8, <2>1, <2>2
<1> QED
  BY <1>9, <1>10 DEF A, B

-----------------------------------------------------------------------------
(* A place tells what was looked for there.                                *)

RefKinds == {"mesh", "texture", "icon", "sound"}

RefPath(r, p) ==
  \/ r.kind = "mesh" /\ p = Place("meshes", r.stem, "nif")
  \/ r.kind = "texture" /\ TexPath("textures", r.stem, p)
  \/ r.kind = "icon" /\ (TexPath("icons", r.stem, p) \/ TexPath("textures", r.stem, p))
  \/ r.kind = "sound" /\ p \in SoundPlaces(r.stem)

LEMMA FindRefIs ==
  ASSUME NEW disk, NEW dirs, NEW r
  PROVE  /\ r.kind = "mesh" => FindRef(disk, dirs, r) = Find(disk, dirs, <<Place("meshes", r.stem, "nif")>>)
         /\ r.kind = "texture" => FindRef(disk, dirs, r) = Find(disk, dirs, TexPlaces("textures", r.stem))
         /\ r.kind = "icon" => FindRef(disk, dirs, r) = Find(disk, dirs, IconPlaces(r.stem))
         /\ r.kind = "sound" => FindRef(disk, dirs, r) = FindSound(disk, dirs, r.stem)
<1>1. r.kind = "mesh" => FindRef(disk, dirs, r) = Find(disk, dirs, <<Place("meshes", r.stem, "nif")>>)
  BY DEF FindRef
<1>2. r.kind = "texture" => FindRef(disk, dirs, r) = Find(disk, dirs, TexPlaces("textures", r.stem))
  BY DEF FindRef
<1>3. r.kind = "icon" => FindRef(disk, dirs, r) = Find(disk, dirs, IconPlaces(r.stem))
  BY DEF FindRef, IconPlaces
<1>4. r.kind = "sound" => FindRef(disk, dirs, r) = FindSound(disk, dirs, r.stem)
  BY DEF FindRef
<1> QED
  BY <1>1, <1>2, <1>3, <1>4

\* A sound at the top is one that no directory of sounds has.
LEMMA SoundFound ==
  ASSUME NEW disk, NEW dirs \in Seq(AsDirs), NEW stem, FindSound(disk, dirs, stem) # NotFound
  PROVE  /\ FoundIn(disk, FindSound(disk, dirs, stem))
         /\ FindSound(disk, dirs, stem).path \in SoundPlaces(stem)
<1> DEFINE inSounds == Find(disk, dirs, <<Place("sound", stem, "wav")>>)
           atTop == Find(disk, dirs, <<Place("", stem, "wav")>>)
<1>1. FindSound(disk, dirs, stem) = IF inSounds # NotFound THEN inSounds ELSE atTop
  BY DEF FindSound
<1>2. inSounds # NotFound => FoundIn(disk, inSounds) /\ inSounds.path = Place("sound", stem, "wav")
  BY OneFound
<1>3. atTop # NotFound => FoundIn(disk, atTop) /\ atTop.path = Place("", stem, "wav")
  BY OneFound
<1> HIDE DEF inSounds, atTop
<1>4. Place("sound", stem, "wav") \in SoundPlaces(stem) /\ Place("", stem, "wav") \in SoundPlaces(stem)
  BY DEF SoundPlaces
<1>5. CASE inSounds # NotFound
  BY <1>1, <1>2, <1>4, <1>5
<1>6. CASE inSounds = NotFound
  <2>1. FindSound(disk, dirs, stem) = atTop
    BY <1>1, <1>6
  <2>2. FoundIn(disk, atTop) /\ atTop.path = Place("", stem, "wav")
    BY <1>3, <2>1
  <2>3. atTop.path \in SoundPlaces(stem)
    BY <1>4, <2>2
  <2> QED
    BY <2>1, <2>2, <2>3
<1> QED
  BY <1>5, <1>6

LEMMA RefFound ==
  ASSUME NEW disk, NEW dirs \in Seq(AsDirs), NEW r, r.kind \in RefKinds,
         FindRef(disk, dirs, r) # NotFound
  PROVE  FoundIn(disk, FindRef(disk, dirs, r)) /\ RefPath(r, FindRef(disk, dirs, r).path)
<1>1. CASE r.kind = "mesh"
  <2>1. FindRef(disk, dirs, r) = Find(disk, dirs, <<Place("meshes", r.stem, "nif")>>)
    BY <1>1, FindRefIs
  <2>2. FoundIn(disk, Find(disk, dirs, <<Place("meshes", r.stem, "nif")>>))
    BY <2>1, OneFound
  <2>3. Find(disk, dirs, <<Place("meshes", r.stem, "nif")>>).path = Place("meshes", r.stem, "nif")
    BY <2>1, OneFound
  <2> QED
    BY <1>1, <2>1, <2>2, <2>3 DEF RefPath
<1>2. CASE r.kind = "texture"
  <2>1. FindRef(disk, dirs, r) = Find(disk, dirs, TexPlaces("textures", r.stem))
    BY <1>2, FindRefIs
  <2>2. FoundIn(disk, Find(disk, dirs, TexPlaces("textures", r.stem)))
    BY <2>1, TexFound
  <2>3. TexPath("textures", r.stem, Find(disk, dirs, TexPlaces("textures", r.stem)).path)
    BY <2>1, TexFound
  <2> QED
    BY <1>2, <2>1, <2>2, <2>3 DEF RefPath
<1>3. CASE r.kind = "icon"
  <2>1. FindRef(disk, dirs, r) = Find(disk, dirs, IconPlaces(r.stem))
    BY <1>3, FindRefIs
  <2>2. FoundIn(disk, Find(disk, dirs, IconPlaces(r.stem)))
    BY <2>1, IconFound
  <2>3. (TexPath("icons", r.stem, Find(disk, dirs, IconPlaces(r.stem)).path) \/ TexPath("textures", r.stem, Find(disk, dirs, IconPlaces(r.stem)).path))
    BY <2>1, IconFound
  <2> QED
    BY <1>3, <2>1, <2>2, <2>3 DEF RefPath
<1>4. CASE r.kind = "sound"
  <2>1. FindRef(disk, dirs, r) = FindSound(disk, dirs, r.stem)
    BY <1>4, FindRefIs
  <2>2. FoundIn(disk, FindSound(disk, dirs, r.stem))
    BY <2>1, SoundFound
  <2>3. FindSound(disk, dirs, r.stem).path \in SoundPlaces(r.stem)
    BY <2>1, SoundFound
  <2> QED
    BY <1>4, <2>1, <2>2, <2>3 DEF RefPath
<1> QED
  BY <1>1, <1>2, <1>3, <1>4 DEF RefKinds

\* What a call may have found: a plugin, or a file that one refers to.
Sought(disk, dirs, u) ==
  /\ u # NotFound
  /\ \/ \E n : u = FindPlugin(disk, dirs, n)
     \/ \E r : r.kind \in RefKinds /\ u = FindRef(disk, dirs, r)

LEMMA PathTells ==
  ASSUME NEW disk, NEW dirs \in Seq(AsDirs), NEW u, Sought(disk, dirs, u)
  PROVE  /\ FoundIn(disk, u)
         /\ \/ \E n : u = FindPlugin(disk, dirs, n) /\ PluginPath(n, u.path)
            \/ \E r : r.kind \in RefKinds /\ u = FindRef(disk, dirs, r) /\ RefPath(r, u.path)
<1>1. CASE \E n : u = FindPlugin(disk, dirs, n)
  BY <1>1, PluginFound DEF Sought
<1>2. CASE \E r : r.kind \in RefKinds /\ u = FindRef(disk, dirs, r)
  BY <1>2, RefFound DEF Sought
<1> QED
  BY <1>1, <1>2 DEF Sought

\* The extension tells the kind.
LEMMA ExtTells ==
  ASSUME NEW p
  PROVE  /\ \A n : PluginPath(n, p) => p.ext = "esp" /\ p.stem = n
         /\ \A sub, stem : TexPath(sub, stem, p) =>
              p.ext \notin {"esp", "nif", "wav"} /\ p.stem = stem /\ p.sub = sub
         /\ \A stem : p \in SoundPlaces(stem) => p.ext = "wav" /\ p.stem = stem
         /\ \A r : RefPath(r, p) =>
              /\ r.stem = p.stem
              /\ p.ext # "esp"
              /\ p.ext = "nif" => r.kind = "mesh" /\ p = Place("meshes", r.stem, "nif")
              /\ p.ext = "wav" => r.kind = "sound"
              /\ p.ext \notin {"nif", "wav"} => r.kind \in {"texture", "icon"}
<1>1. TexExts \in Seq(STRING \ {"esp", "nif", "wav"})
  BY AssetAssumption
<1>2. \A i \in DOMAIN TexExts : TexExts[i] \notin {"esp", "nif", "wav"}
  BY <1>1
<1>3. \A n : PluginPath(n, p) => p.ext = "esp" /\ p.stem = n
  BY DEF PluginPath, Place
<1>4. \A sub, stem : TexPath(sub, stem, p) =>
        p.ext \notin {"esp", "nif", "wav"} /\ p.stem = stem /\ p.sub = sub
  BY <1>2 DEF TexPath, Place
<1>5. \A stem : p \in SoundPlaces(stem) => p.ext = "wav" /\ p.stem = stem
  <2> TAKE stem
  <2>1. p \in SoundPlaces(stem) => p = Place("sound", stem, "wav") \/ p = Place("", stem, "wav")
    BY DEF SoundPlaces
  <2>2. \A a, b, c : Place(a, b, c).ext = c /\ Place(a, b, c).stem = b
    BY DEF Place
  <2>3. CASE p = Place("sound", stem, "wav")
    BY <2>2, <2>3
  <2>4. CASE p = Place("", stem, "wav")
    BY <2>2, <2>4, ZenonT(30)
  <2> QED
    BY <2>1, <2>3, <2>4
<1>6. ASSUME NEW r, RefPath(r, p)
      PROVE  /\ r.stem = p.stem
             /\ p.ext # "esp"
             /\ p.ext = "nif" => r.kind = "mesh" /\ p = Place("meshes", r.stem, "nif")
             /\ p.ext = "wav" => r.kind = "sound"
             /\ p.ext \notin {"nif", "wav"} => r.kind \in {"texture", "icon"}
  <2>1. CASE r.kind = "mesh" /\ p = Place("meshes", r.stem, "nif")
    BY <2>1 DEF Place
  <2>2. CASE r.kind = "texture" /\ TexPath("textures", r.stem, p)
    BY <1>4, <2>2
  <2>3. CASE r.kind = "icon" /\ (TexPath("icons", r.stem, p) \/ TexPath("textures", r.stem, p))
    BY <1>4, <2>3
  <2>4. CASE r.kind = "sound" /\ p \in SoundPlaces(r.stem)
    BY <1>5, <2>4
  <2> QED
    BY <1>6, <2>1, <2>2, <2>3, <2>4 DEF RefPath
<1> QED
  BY <1>3, <1>4, <1>5, <1>6

\* What is at a place is what is found by looking there.
Tells(disk, dirs, u, s) ==
  /\ PluginPath(s, u.path) => u = FindPlugin(disk, dirs, s)
  /\ u.path = Place("meshes", s, "nif") => u = Find(disk, dirs, <<Place("meshes", s, "nif")>>)
  /\ TexPath("textures", s, u.path) => u = Find(disk, dirs, TexPlaces("textures", s))
  /\ TexPath("icons", s, u.path) => u = Find(disk, dirs, IconPlaces(s))
  /\ u.path \in SoundPlaces(s) => u = FindSound(disk, dirs, s)

LEMMA OnlyOne ==
  ASSUME NEW disk, NEW dirs \in Seq(AsDirs), NEW u, Sought(disk, dirs, u), NEW s
  PROVE  Tells(disk, dirs, u, s)
<1>1. \/ \E n : u = FindPlugin(disk, dirs, n) /\ PluginPath(n, u.path)
      \/ \E r : r.kind \in RefKinds /\ u = FindRef(disk, dirs, r) /\ RefPath(r, u.path)
  BY PathTells
<1>2. CASE \E n : u = FindPlugin(disk, dirs, n) /\ PluginPath(n, u.path)
  <2>1. u.path.ext = "esp" /\ u = FindPlugin(disk, dirs, u.path.stem)
    BY <1>2, ExtTells
  <2>2. PluginPath(s, u.path) => u = FindPlugin(disk, dirs, s)
    BY <2>1, ExtTells
  <2>3. u.path # Place("meshes", s, "nif")
    BY <2>1 DEF Place
  <2>4. ~ TexPath("textures", s, u.path) /\ ~ TexPath("icons", s, u.path) /\ u.path \notin SoundPlaces(s)
    BY <2>1, ExtTells
  <2> QED
    BY <2>2, <2>3, <2>4 DEF Tells
<1>3. ASSUME NEW r, r.kind \in RefKinds, u = FindRef(disk, dirs, r), RefPath(r, u.path)
      PROVE  Tells(disk, dirs, u, s)
  <2>1. /\ r.stem = u.path.stem
        /\ u.path.ext # "esp"
        /\ u.path.ext = "nif" => r.kind = "mesh" /\ u.path = Place("meshes", r.stem, "nif")
        /\ u.path.ext = "wav" => r.kind = "sound"
        /\ u.path.ext \notin {"nif", "wav"} => r.kind \in {"texture", "icon"}
    BY <1>3, ExtTells
  <2>2. ~ PluginPath(s, u.path)
    BY <2>1, ExtTells
  <2>3. u.path = Place("meshes", s, "nif") => u = Find(disk, dirs, <<Place("meshes", s, "nif")>>)
    <3> HAVE u.path = Place("meshes", s, "nif")
    <3>1. u.path.ext = "nif" /\ u.path.stem = s
      BY DEF Place
    <3>2. r.kind = "mesh" /\ r.stem = s
      BY <2>1, <3>1
    <3> QED
      BY <1>3, <3>2, FindRefIs
  <2>4. TexPath("textures", s, u.path) => u = Find(disk, dirs, TexPlaces("textures", s))
    <3> HAVE TexPath("textures", s, u.path)
    <3>1. u.path.ext \notin {"nif", "wav"} /\ u.path.stem = s
      BY ExtTells
    <3>2. r.kind \in {"texture", "icon"} /\ r.stem = s
      BY <2>1, <3>1
    <3>3. CASE r.kind = "texture"
      BY <1>3, <3>2, <3>3, FindRefIs
    <3>4. CASE r.kind = "icon"
      <4>1. u = Find(disk, dirs, IconPlaces(s))
        BY <1>3, <3>2, <3>4, FindRefIs
      <4>2. u # NotFound
        BY DEF Sought
      <4> QED
        BY <4>1, <4>2, IconBeside
    <3> QED
      BY <3>2, <3>3, <3>4
  <2>5. TexPath("icons", s, u.path) => u = Find(disk, dirs, IconPlaces(s))
    <3> HAVE TexPath("icons", s, u.path)
    <3>1. u.path.ext \notin {"nif", "wav"} /\ u.path.stem = s /\ u.path.sub = "icons"
      BY ExtTells
    <3>2. r.kind \in {"texture", "icon"} /\ r.stem = s
      BY <2>1, <3>1
    <3>3. r.kind # "texture"
      <4> SUFFICES ASSUME r.kind = "texture" PROVE FALSE
        OBVIOUS
      <4>1. TexPath("textures", r.stem, u.path)
        BY <1>3 DEF RefPath
      <4> QED
        BY <3>1, <4>1, ExtTells
    <3> QED
      BY <1>3, <3>2, <3>3, FindRefIs
  <2>6. u.path \in SoundPlaces(s) => u = FindSound(disk, dirs, s)
    <3> HAVE u.path \in SoundPlaces(s)
    <3>1. u.path.ext = "wav" /\ u.path.stem = s
      BY ExtTells
    <3>2. r.kind = "sound" /\ r.stem = s
      BY <2>1, <3>1
    <3>3. FindRef(disk, dirs, r) = FindSound(disk, dirs, r.stem)
      BY <3>2, FindRefIs
    <3> QED
      BY <1>3, <3>2, <3>3
  <2> QED
    BY <2>2, <2>3, <2>4, <2>5, <2>6 DEF Tells
<1> QED
  BY <1>1, <1>2, <1>3

LEMMA SamePath ==
  ASSUME NEW disk, NEW dirs \in Seq(AsDirs), NEW u, NEW v,
         Sought(disk, dirs, u), Sought(disk, dirs, v), u.path = v.path
  PROVE  u = v
<1>1. \/ \E n : PluginPath(n, u.path)
      \/ \E r : RefPath(r, u.path)
  BY PathTells
<1>2. ASSUME NEW n, PluginPath(n, u.path) PROVE u = v
  <2>1. PluginPath(n, v.path)
    BY <1>2
  <2>2. Tells(disk, dirs, u, n) /\ Tells(disk, dirs, v, n)
    BY OnlyOne
  <2> QED
    BY <1>2, <2>1, <2>2 DEF Tells
<1>3. ASSUME NEW r, RefPath(r, u.path) PROVE u = v
  <2>0. Tells(disk, dirs, u, r.stem) /\ Tells(disk, dirs, v, r.stem)
    BY OnlyOne
  <2>1. CASE u.path = Place("meshes", r.stem, "nif")
    <3>1. v.path = Place("meshes", r.stem, "nif")
      BY <2>1
    <3> QED
      BY <2>0, <2>1, <3>1 DEF Tells
  <2>2. CASE TexPath("textures", r.stem, u.path)
    <3>1. TexPath("textures", r.stem, v.path)
      BY <2>2
    <3> QED
      BY <2>0, <2>2, <3>1 DEF Tells
  <2>3. CASE TexPath("icons", r.stem, u.path)
    <3>1. TexPath("icons", r.stem, v.path)
      BY <2>3
    <3> QED
      BY <2>0, <2>3, <3>1 DEF Tells
  <2>4. CASE u.path \in SoundPlaces(r.stem)
    <3>1. v.path \in SoundPlaces(r.stem)
      BY <2>4
    <3> QED
      BY <2>0, <2>4, <3>1 DEF Tells
  <2> QED
    BY <1>3, <2>1, <2>2, <2>3, <2>4 DEF RefPath
<1> QED
  BY <1>1, <1>2, <1>3

-----------------------------------------------------------------------------
(* What is found in the copy.                                              *)

\* Dest holds the used files, and nothing else.
Holds(copy, used) ==
  /\ \A u \in used : Has(copy, Dest, u.path)
  /\ \A p : Has(copy, Dest, p) => \E u \in used : u.path = p

LEMMA PluginKept ==
  ASSUME NEW disk, NEW dirs \in Seq(AsDirs), NEW copy, NEW used,
         \A u \in used : Sought(disk, dirs, u), Holds(copy, used),
         NEW n, FindPlugin(disk, dirs, n) \in used \cup {NotFound}
  PROVE  FindPlugin(copy, <<Dest>>, n) = InDest(FindPlugin(disk, dirs, n))
<1> DEFINE f == FindPlugin(disk, dirs, n)
           places == PluginPlaces(n)
<1>1. places \in Seq({Place(s, n, "esp") : s \in STRING})
  BY ListsOfPlaces
<1>2. FindPlugin(copy, <<Dest>>, n) = Find(copy, <<Dest>>, places)
  BY DEF FindPlugin, PluginPlaces
<1>3. \A i \in DOMAIN places : PluginPath(n, places[i])
  BY DEF PluginPlaces, PluginPath
<1>4. \A p : PluginPath(n, p) => \E j \in DOMAIN places : p = places[j]
  BY DEF PluginPlaces, PluginPath
<1>5. f # NotFound => PluginPath(n, f.path)
  BY PluginFound
<1> HIDE DEF places
<1>6. \A i \in DOMAIN places : Has(copy, Dest, places[i]) => f \in used /\ f.path = places[i]
  <2> SUFFICES ASSUME NEW i \in DOMAIN places, Has(copy, Dest, places[i])
               PROVE  f \in used /\ f.path = places[i]
    OBVIOUS
  <2>1. PICK u \in used : u.path = places[i]
    BY DEF Holds
  <2>2. PluginPath(n, u.path)
    BY <1>3, <2>1
  <2>3. Tells(disk, dirs, u, n)
    BY OnlyOne
  <2> QED
    BY <2>1, <2>2, <2>3 DEF Tells
<1>7. \A u \in used : u # NotFound
  BY DEF Sought
<1>8. f # NotFound => f \in used /\ Has(copy, Dest, f.path)
  BY DEF Holds
<1> HIDE DEF f
<1>9. Find(copy, <<Dest>>, places) = InDest(f)
  <2>1. f = NotFound => \A i \in DOMAIN places : ~ Has(copy, Dest, places[i])
    BY <1>6, <1>7
  <2>2. f # NotFound => \E j \in DOMAIN places :
          /\ f.path = places[j] /\ Has(copy, Dest, places[j])
          /\ \A i \in DOMAIN places : i < j /\ Has(copy, Dest, places[i]) => f.path = places[i]
    BY <1>4, <1>5, <1>6, <1>8
  <2> QED
    BY <1>1, <2>1, <2>2, FindInCopy
<1> QED
  BY <1>2, <1>9 DEF f

\* If nothing else is at the places that were tried, the file is found again.
LEMMA KeptAlone ==
  ASSUME NEW copy, NEW used, NotFound \notin used, Holds(copy, used),
         NEW T, NEW places \in Seq(T), NEW f \in used \cup {NotFound},
         f # NotFound => \E j \in DOMAIN places : f.path = places[j],
         \A i \in DOMAIN places, u \in used : u.path = places[i] => u = f
  PROVE  Find(copy, <<Dest>>, places) = InDest(f)
<1>2. \A i \in DOMAIN places : Has(copy, Dest, places[i]) => f \in used /\ f.path = places[i]
  BY DEF Holds
<1>3. f # NotFound => Has(copy, Dest, f.path)
  BY DEF Holds
<1>4. f = NotFound => \A i \in DOMAIN places : ~ Has(copy, Dest, places[i])
  BY <1>2
<1>5. f # NotFound => \E j \in DOMAIN places :
        /\ f.path = places[j] /\ Has(copy, Dest, places[j])
        /\ \A i \in DOMAIN places : i < j /\ Has(copy, Dest, places[i]) => f.path = places[i]
  BY <1>2, <1>3
<1> QED
  BY <1>4, <1>5, FindInCopy

LEMMA OneKept ==
  ASSUME NEW copy, NEW used, NotFound \notin used, Holds(copy, used),
         NEW p, NEW f \in used \cup {NotFound},
         f # NotFound => f.path = p,
         \A u \in used : u.path = p => u = f
  PROVE  Find(copy, <<Dest>>, <<p>>) = InDest(f)
<1> DEFINE places == <<p>>
<1>1. places \in Seq({p}) /\ DOMAIN places = {1} /\ places[1] = p
  OBVIOUS
<1> HIDE DEF places
<1>2. f # NotFound => \E j \in DOMAIN places : f.path = places[j]
  BY <1>1
<1>3. \A i \in DOMAIN places, u \in used : u.path = places[i] => u = f
  BY <1>1
<1>4. Find(copy, <<Dest>>, places) = InDest(f)
  BY <1>1, <1>2, <1>3, KeptAlone
<1> QED
  BY <1>4 DEF places

LEMMA IconKept ==
  ASSUME NEW disk, NEW dirs \in Seq(AsDirs), NEW copy, NEW used,
         \A u \in used : Sought(disk, dirs, u), Holds(copy, used), NEW stem,
         Find(disk, dirs, IconPlaces(stem)) \in used \cup {NotFound}
  PROVE  Find(copy, <<Dest>>, IconPlaces(stem)) = InDest(Find(disk, dirs, IconPlaces(stem)))
<1> DEFINE f == Find(disk, dirs, IconPlaces(stem))
           g == Find(disk, dirs, TexPlaces("textures", stem))
           A == IconPlaces(stem)
           n == Len(TexExts)
<1>1. /\ A \in Seq({Place("icons", stem, e) : e \in STRING}
                     \cup {Place("textures", stem, e) : e \in STRING})
      /\ Len(A) = n + n
      /\ \A i \in 1 .. n : /\ A[i] = Place("icons", stem, TexExts[i])
                           /\ A[n + i] = Place("textures", stem, TexExts[i])
  BY IconList
<1>2. n \in Nat /\ DOMAIN TexExts = 1 .. n
  BY AssetAssumption
<1>3. f # NotFound => TexPath("icons", stem, f.path) \/ TexPath("textures", stem, f.path)
  BY IconFound
<1>4. /\ f = NotFound => g = NotFound
      /\ f # NotFound /\ TexPath("textures", stem, f.path) => f = g
  BY IconBeside
<1>5. \A u \in used : /\ u # NotFound
                      /\ TexPath("icons", stem, u.path) => u = f
                      /\ TexPath("textures", stem, u.path) => u = g
  <2> TAKE u \in used
  <2> HIDE DEF f, g
  <2>1. Sought(disk, dirs, u)
    OBVIOUS
  <2>2. Tells(disk, dirs, u, stem)
    BY <2>1, OnlyOne
  <2> QED
    BY <2>1, <2>2 DEF Tells, Sought, f, g
<1>6. f # NotFound => Has(copy, Dest, f.path)
  BY DEF Holds
<1> HIDE DEF A, n, f, g
<1>7. DOMAIN A = 1 .. n + n
  BY <1>1, <1>2
<1>8. \A i \in 1 .. n : TexPath("icons", stem, A[i]) /\ TexPath("textures", stem, A[n + i])
  BY <1>1, <1>2 DEF TexPath
<1>9. ASSUME NEW i \in DOMAIN A PROVE i \in 1 .. n \/ \E k \in 1 .. n : i = n + k
  <2>1. CASE i \in 1 .. n
    BY <2>1
  <2>2. CASE i \notin 1 .. n
    <3>1. i - n \in 1 .. n /\ i = n + (i - n)
      BY <1>2, <1>7, <2>2
    <3> QED
      BY <3>1
  <2> QED
    BY <2>1, <2>2
<1>10. ASSUME NEW i \in DOMAIN A, Has(copy, Dest, A[i]) PROVE f # NotFound
  <2>1. PICK u \in used : u.path = A[i]
    BY <1>10 DEF Holds
  <2>2. u = f \/ u = g
    BY <1>5, <1>8, <1>9, <2>1
  <2> QED
    BY <1>4, <1>5, <2>2
<1>11. ASSUME f # NotFound
       PROVE  \E j \in DOMAIN A :
                /\ f.path = A[j] /\ Has(copy, Dest, A[j])
                /\ \A i \in DOMAIN A : i < j /\ Has(copy, Dest, A[i]) => f.path = A[i]
  <2>1. CASE TexPath("icons", stem, f.path)
    <3>1. PICK j \in 1 .. n : f.path = A[j]
      BY <1>1, <1>2, <2>1 DEF TexPath
    <3>2. j \in DOMAIN A
      BY <1>2, <1>7
    <3>3. \A i \in DOMAIN A : i < j => i \in 1 .. n
      BY <1>2, <1>7
    <3>4. ASSUME NEW i \in DOMAIN A, i < j, Has(copy, Dest, A[i]) PROVE f.path = A[i]
      <4>1. PICK u \in used : u.path = A[i]
        BY <3>4 DEF Holds
      <4>2. TexPath("icons", stem, u.path)
        BY <1>8, <3>3, <3>4, <4>1
      <4> QED
        BY <1>5, <4>1, <4>2
    <3> QED
      BY <1>6, <1>11, <3>1, <3>2, <3>4
  <2>2. CASE TexPath("textures", stem, f.path)
    <3>1. PICK k \in 1 .. n : f.path = A[n + k]
      BY <1>1, <1>2, <2>2 DEF TexPath
    <3>2. n + k \in DOMAIN A
      BY <1>2, <1>7
    <3>3. f = g
      BY <1>4, <1>11, <2>2
    <3>4. ASSUME NEW i \in DOMAIN A, Has(copy, Dest, A[i]) PROVE f.path = A[i]
      <4>1. PICK u \in used : u.path = A[i]
        BY <3>4 DEF Holds
      <4>2. u = f \/ u = g
        BY <1>5, <1>8, <1>9, <4>1
      <4> QED
        BY <3>3, <4>1, <4>2
    <3> QED
      BY <1>6, <1>11, <3>1, <3>2, <3>4
  <2> QED
    BY <1>3, <1>11, <2>1, <2>2
<1>12. Find(copy, <<Dest>>, A) = InDest(f)
  BY <1>1, <1>10, <1>11, FindInCopy, SMTT(20)
<1> QED
  BY <1>12 DEF A, f

LEMMA TexKept ==
  ASSUME NEW disk, NEW dirs \in Seq(AsDirs), NEW copy, NEW used,
         \A u \in used : Sought(disk, dirs, u), Holds(copy, used), NEW stem,
         Find(disk, dirs, TexPlaces("textures", stem)) \in used \cup {NotFound}
  PROVE  Find(copy, <<Dest>>, TexPlaces("textures", stem))
           = InDest(Find(disk, dirs, TexPlaces("textures", stem)))
<1> DEFINE f == Find(disk, dirs, TexPlaces("textures", stem))
           places == TexPlaces("textures", stem)
<1>1. places \in Seq({Place("textures", stem, e) : e \in STRING})
  BY ListsOfPlaces
<1>2. \A i \in DOMAIN places : TexPath("textures", stem, places[i])
  BY DEF TexPlaces, TexPath
<1>3. \A p : TexPath("textures", stem, p) => \E j \in DOMAIN places : p = places[j]
  BY DEF TexPlaces, TexPath
<1>4. f # NotFound => TexPath("textures", stem, f.path)
  BY TexFound
<1>5. \A u \in used : TexPath("textures", stem, u.path) => u = f
  <2> TAKE u \in used
  <2> HIDE DEF f, places
  <2>1. Sought(disk, dirs, u)
    OBVIOUS
  <2>2. Tells(disk, dirs, u, stem)
    BY <2>1, OnlyOne
  <2> QED
    BY <2>2 DEF Tells, f
<1> HIDE DEF places, f
<1>6. NotFound \notin used
  <2>1. ASSUME NEW u \in used PROVE u # NotFound
    <3>1. Sought(disk, dirs, u)
      OBVIOUS
    <3> QED
      BY <3>1 DEF Sought
  <2> QED
    BY <2>1
<1>7. f # NotFound => \E j \in DOMAIN places : f.path = places[j]
  BY <1>3, <1>4
<1>8. \A i \in DOMAIN places, u \in used : u.path = places[i] => u = f
  BY <1>2, <1>5
<1>9. f \in used \cup {NotFound}
  BY DEF f
<1>10. Find(copy, <<Dest>>, places) = InDest(f)
  BY <1>1, <1>6, <1>7, <1>8, <1>9, KeptAlone
<1> QED
  BY <1>10 DEF places, f

LEMMA SoundKept ==
  ASSUME NEW disk, NEW dirs \in Seq(AsDirs), NEW copy, NEW used,
         \A u \in used : Sought(disk, dirs, u), Holds(copy, used), NEW stem,
         FindSound(disk, dirs, stem) \in used \cup {NotFound}
  PROVE  FindSound(copy, <<Dest>>, stem) = InDest(FindSound(disk, dirs, stem))
<1> DEFINE f == FindSound(disk, dirs, stem)
           p == Place("sound", stem, "wav")
           q == Place("", stem, "wav")
           one == Find(disk, dirs, <<p>>)
           two == Find(disk, dirs, <<q>>)
           again == Find(copy, <<Dest>>, <<p>>)
           after == Find(copy, <<Dest>>, <<q>>)
<1>1. f = IF one # NotFound THEN one ELSE two
  BY DEF FindSound
<1>2. FindSound(copy, <<Dest>>, stem) = IF again # NotFound THEN again ELSE after
  BY DEF FindSound
<1>3. one # NotFound => one.path = p
  BY OneFound
<1>4. two # NotFound => two.path = q
  BY OneFound
<1>5. p \in SoundPlaces(stem) /\ q \in SoundPlaces(stem)
  BY DEF SoundPlaces
<1>6. \A u \in used : u.path \in SoundPlaces(stem) => u = f
  <2> TAKE u \in used
  <2> HIDE DEF f, p, q
  <2>1. Sought(disk, dirs, u)
    OBVIOUS
  <2>2. Tells(disk, dirs, u, stem)
    BY <2>1, OnlyOne
  <2> QED
    BY <2>2 DEF Tells, f
<1>7. NotFound \notin used
  BY DEF Sought
<1>8. p # q
  <2>1. p.sub = "sound" /\ q.sub = ""
    BY DEF Place
  <2> QED
    BY <2>1
<1>9. ASSUME one # NotFound PROVE again = InDest(f) /\ again # NotFound
  <2>1. f = one /\ f \in used
    BY <1>1, <1>9
  <2>2. f.path = p
    BY <1>3, <1>9, <2>1
  <2>3. \A u \in used : u.path = p => u = f
    BY <1>5, <1>6
  <2>4. again = InDest(f)
    BY <1>7, <2>1, <2>2, <2>3, OneKept
  <2>5. Has(copy, Dest, p)
    BY <2>1, <2>2 DEF Holds
  <2>6. NotFound # [dir |-> Dest, path |-> p]
    BY <2>5, AssetAssumption DEF Has
  <2> HIDE DEF f, again, p
  <2> QED
    BY <1>7, <2>1, <2>2, <2>4, <2>6 DEF InDest
<1>10. ASSUME one = NotFound PROVE again = NotFound /\ after = InDest(f)
  <2>1. f = two
    BY <1>1, <1>10
  <2>2. \A u \in used : u.path # p
    <3> SUFFICES ASSUME NEW u \in used, u.path = p PROVE FALSE
      OBVIOUS
    <3>1. u = f
      BY <1>5, <1>6
    <3> QED
      BY <1>4, <1>7, <1>8, <2>1, <3>1
  <2>3. again = InDest(NotFound)
    BY <1>7, <2>2, OneKept
  <2>4. \A u \in used : u.path = q => u = f
    BY <1>5, <1>6
  <2>5. f # NotFound => f.path = q
    BY <1>4, <2>1
  <2>6. f \in used \cup {NotFound}
    OBVIOUS
  <2> HIDE DEF f, q
  <2>7. after = InDest(f)
    BY <1>7, <2>4, <2>5, <2>6, OneKept
  <2> QED
    BY <2>3, <2>7 DEF InDest
<1> HIDE DEF f, one, two, again, after
<1>11. FindSound(copy, <<Dest>>, stem) = InDest(f)
  BY <1>2, <1>9, <1>10
<1> QED
  BY <1>11 DEF f

LEMMA RefKept ==
  ASSUME NEW disk, NEW dirs \in Seq(AsDirs), NEW copy, NEW used,
         \A u \in used : Sought(disk, dirs, u), Holds(copy, used),
         NEW r, r.kind \in RefKinds, FindRef(disk, dirs, r) \in used \cup {NotFound}
  PROVE  FindRef(copy, <<Dest>>, r) = InDest(FindRef(disk, dirs, r))
<1>1. CASE r.kind = "mesh"
  <2> DEFINE p == Place("meshes", r.stem, "nif")
             f == Find(disk, dirs, <<p>>)
  <2>1. FindRef(disk, dirs, r) = f /\ FindRef(copy, <<Dest>>, r) = Find(copy, <<Dest>>, <<p>>)
    BY <1>1, FindRefIs
  <2>2. f # NotFound => f.path = p
    BY OneFound
  <2>3. \A u \in used : u.path = p => u = f
    <3>1. \A u \in used : Tells(disk, dirs, u, r.stem)
      BY OnlyOne
    <3> QED
      BY <3>1 DEF Tells
  <2>4. NotFound \notin used /\ f \in used \cup {NotFound}
    BY <2>1 DEF Sought
  <2> HIDE DEF p, f
  <2> QED
    BY <2>1, <2>2, <2>3, <2>4, OneKept
<1>2. CASE r.kind = "texture"
  <2>1. /\ FindRef(disk, dirs, r) = Find(disk, dirs, TexPlaces("textures", r.stem))
        /\ FindRef(copy, <<Dest>>, r) = Find(copy, <<Dest>>, TexPlaces("textures", r.stem))
    BY <1>2, FindRefIs
  <2>2. Find(disk, dirs, TexPlaces("textures", r.stem)) \in used \cup {NotFound}
    BY <2>1
  <2>3. Find(copy, <<Dest>>, TexPlaces("textures", r.stem)) = InDest(Find(disk, dirs, TexPlaces("textures", r.stem)))
    BY <2>2, TexKept
  <2> QED
    BY <2>1, <2>3
<1>3. CASE r.kind = "icon"
  <2>1. /\ FindRef(disk, dirs, r) = Find(disk, dirs, IconPlaces(r.stem))
        /\ FindRef(copy, <<Dest>>, r) = Find(copy, <<Dest>>, IconPlaces(r.stem))
    BY <1>3, FindRefIs
  <2>2. Find(disk, dirs, IconPlaces(r.stem)) \in used \cup {NotFound}
    BY <2>1
  <2>3. Find(copy, <<Dest>>, IconPlaces(r.stem)) = InDest(Find(disk, dirs, IconPlaces(r.stem)))
    BY <2>2, IconKept
  <2> QED
    BY <2>1, <2>3
<1>4. CASE r.kind = "sound"
  <2>1. /\ FindRef(disk, dirs, r) = FindSound(disk, dirs, r.stem)
        /\ FindRef(copy, <<Dest>>, r) = FindSound(copy, <<Dest>>, r.stem)
    BY <1>4, FindRefIs
  <2>2. FindSound(disk, dirs, r.stem) \in used \cup {NotFound}
    BY <2>1
  <2>3. FindSound(copy, <<Dest>>, r.stem) = InDest(FindSound(disk, dirs, r.stem))
    BY <2>2, SoundKept
  <2> QED
    BY <2>1, <2>3
<1> QED
  BY <1>1, <1>2, <1>3, <1>4 DEF RefKinds

-----------------------------------------------------------------------------
(* The closure of the copy.                                                *)

AsDisk == [AsDirs \cup {Dest} -> [AsPaths -> AsContents \cup {NoAsset}]]

PluginsOf(disk, dirs, content) == {FindPlugin(disk, dirs, n) : n \in content} \ {NotFound}
MeshesOf(disk, dirs, direct) ==
  {FindRef(disk, dirs, r) : r \in {m \in direct : m.kind = "mesh"}} \ {NotFound}
DirectOf(disk, dirs, content) == RefsOf(disk, PluginsOf(disk, dirs, content))
AllRefs(disk, dirs, content) ==
  DirectOf(disk, dirs, content)
  \cup RefsOf(disk, MeshesOf(disk, dirs, DirectOf(disk, dirs, content)))

LEMMA ResolveIs ==
  ASSUME NEW disk, NEW dirs, NEW content
  PROVE  /\ ResolveModlist(disk, dirs, content).used
              = (PluginsOf(disk, dirs, content)
                 \cup {FindRef(disk, dirs, r) : r \in AllRefs(disk, dirs, content)}) \ {NotFound}
         /\ ResolveModlist(disk, dirs, content).missing
              = {r \in AllRefs(disk, dirs, content) : FindRef(disk, dirs, r) = NotFound}
BY DEF ResolveModlist, ResolveClosure, PluginsOf, MeshesOf, DirectOf, AllRefs

\* What a file refers to is of a kind that is looked for.
LEMMA ContentKinds ==
  ASSUME NEW disk \in AsDisk, NEW f, FoundIn(disk, f), NEW r \in disk[f.dir][f.path]
  PROVE  r.kind \in RefKinds
<1>1. f.dir \in AsDirs /\ f.path \in AsPaths /\ disk[f.dir][f.path] # NoAsset
  BY DEF FoundIn, Has
<1>2. disk[f.dir][f.path] \in AsContents
  BY <1>1 DEF AsDisk
<1> QED
  BY <1>2, AssetAssumption DEF RefKinds

LEMMA UsedFacts ==
  ASSUME NEW disk \in AsDisk, NEW dirs \in Seq(AsDirs), NEW content
  PROVE  /\ \A r \in AllRefs(disk, dirs, content) : r.kind \in RefKinds
         /\ \A u \in ResolveModlist(disk, dirs, content).used : Sought(disk, dirs, u)
<1> DEFINE P == PluginsOf(disk, dirs, content)
           D == DirectOf(disk, dirs, content)
           M == MeshesOf(disk, dirs, D)
           R == AllRefs(disk, dirs, content)
<1>1. \A p \in P : p # NotFound /\ \E n : p = FindPlugin(disk, dirs, n)
  BY DEF PluginsOf
<1>2. \A p \in P : FoundIn(disk, p)
  BY <1>1, PluginFound
<1>3. \A r \in D : \E p \in P : r \in disk[p.dir][p.path]
  BY DEF DirectOf, RefsOf
<1>4. \A r \in D : r.kind \in RefKinds
  BY <1>2, <1>3, ContentKinds
<1>5. \A m \in M : m # NotFound /\ \E r \in D : m = FindRef(disk, dirs, r)
  BY DEF MeshesOf
<1>6. \A m \in M : FoundIn(disk, m)
  BY <1>4, <1>5, RefFound
<1>7. \A r \in R : r \in D \/ \E m \in M : r \in disk[m.dir][m.path]
  BY DEF AllRefs, RefsOf
<1>8. \A r \in R : r.kind \in RefKinds
  BY <1>4, <1>6, <1>7, ContentKinds
<1>9. ResolveModlist(disk, dirs, content).used
        = (P \cup {FindRef(disk, dirs, r) : r \in R}) \ {NotFound}
  BY ResolveIs
<1> HIDE DEF P, R
<1>10. \A u \in ResolveModlist(disk, dirs, content).used : Sought(disk, dirs, u)
  BY <1>1, <1>8, <1>9 DEF Sought
<1> QED
  BY <1>8, <1>10 DEF R

\* What the files of a set refer to, each found again in the copy.
LEMMA SameRefs ==
  ASSUME NEW disk, NEW copy, NEW files, NotFound \notin files,
         \A f \in files : copy[Dest][f.path] = disk[f.dir][f.path]
  PROVE  RefsOf(copy, {InDest(f) : f \in files}) = RefsOf(disk, files)
<1>1. \A f \in files : InDest(f).dir = Dest /\ InDest(f).path = f.path
  BY DEF InDest
<1>2. \A f \in files : copy[InDest(f).dir][InDest(f).path] = disk[f.dir][f.path]
  BY <1>1
<1> QED
  BY <1>2 DEF RefsOf

LEMMA CopyCloses ==
  ASSUME NEW disk \in AsDisk, NEW dirs \in Seq(AsDirs), NEW content, NEW copy,
         Holds(copy, ResolveModlist(disk, dirs, content).used),
         \A u \in ResolveModlist(disk, dirs, content).used :
           copy[Dest][u.path] = disk[u.dir][u.path]
  PROVE  /\ ResolveModlist(copy, <<Dest>>, content).used
              = {[dir |-> Dest, path |-> p] : p \in {q \in AsPaths : Has(copy, Dest, q)}}
         /\ ResolveModlist(copy, <<Dest>>, content).missing
              = ResolveModlist(disk, dirs, content).missing
<1> DEFINE used == ResolveModlist(disk, dirs, content).used
           missing == ResolveModlist(disk, dirs, content).missing
           P == PluginsOf(disk, dirs, content)
           D == DirectOf(disk, dirs, content)
           M == MeshesOf(disk, dirs, D)
           R == AllRefs(disk, dirs, content)
           P2 == PluginsOf(copy, <<Dest>>, content)
           D2 == DirectOf(copy, <<Dest>>, content)
           M2 == MeshesOf(copy, <<Dest>>, D2)
           R2 == AllRefs(copy, <<Dest>>, content)
<1>1. /\ used = (P \cup {FindRef(disk, dirs, r) : r \in R}) \ {NotFound}
      /\ missing = {r \in R : FindRef(disk, dirs, r) = NotFound}
  BY ResolveIs
<1>2. /\ ResolveModlist(copy, <<Dest>>, content).used
           = (P2 \cup {FindRef(copy, <<Dest>>, r) : r \in R2}) \ {NotFound}
      /\ ResolveModlist(copy, <<Dest>>, content).missing
           = {r \in R2 : FindRef(copy, <<Dest>>, r) = NotFound}
  BY ResolveIs
<1>3. \A r \in R : r.kind \in RefKinds
  BY UsedFacts
<1>4. \A u \in used : Sought(disk, dirs, u)
  BY UsedFacts
<1>5. Holds(copy, used) /\ \A u \in used : copy[Dest][u.path] = disk[u.dir][u.path]
  OBVIOUS
<1>6. D \subseteq R /\ M \subseteq {FindRef(disk, dirs, r) : r \in R} /\ NotFound \notin M \cup P
  BY DEF AllRefs, MeshesOf, PluginsOf
<1> HIDE DEF used
<1>7. \A n \in content : FindPlugin(disk, dirs, n) \in used \cup {NotFound}
  BY <1>1 DEF PluginsOf
<1>8. \A n \in content : FindPlugin(copy, <<Dest>>, n) = InDest(FindPlugin(disk, dirs, n))
  <2> TAKE n \in content
  <2>1. FindPlugin(disk, dirs, n) \in used \cup {NotFound}
    BY <1>7
  <2> QED
    BY <1>4, <1>5, <2>1, PluginKept
<1>9. \A r \in R : FindRef(disk, dirs, r) \in used \cup {NotFound}
  BY <1>1
<1>10. \A r \in R : FindRef(copy, <<Dest>>, r) = InDest(FindRef(disk, dirs, r))
  BY <1>3, <1>4, <1>5, <1>9, RefKept, SMTT(20)
<1>11. \A u \in used : /\ u # NotFound /\ Has(copy, Dest, u.path)
                       /\ InDest(u) = [dir |-> Dest, path |-> u.path]
                       /\ InDest(u) # NotFound
  <2> TAKE u \in used
  <2>1. u # NotFound /\ Has(copy, Dest, u.path)
    BY <1>4, <1>5 DEF Sought, Holds
  <2>2. NotFound # [dir |-> Dest, path |-> u.path]
    BY <2>1, AssetAssumption DEF Has
  <2> QED
    BY <2>1, <2>2 DEF InDest
<1>12. P \subseteq used /\ M \subseteq used
  BY <1>1, <1>6
<1>13. P2 = {InDest(p) : p \in P}
  <2>1. InDest(NotFound) = NotFound
    BY DEF InDest
  <2> QED
    BY <1>8, <1>11, <1>12, <2>1 DEF PluginsOf
<1>14. D2 = D
  <2>1. RefsOf(copy, {InDest(p) : p \in P}) = RefsOf(disk, P)
    BY <1>5, <1>6, <1>12, SameRefs
  <2> QED
    BY <1>13, <2>1 DEF DirectOf
<1>15. M2 = {InDest(m) : m \in M}
  <2>1. InDest(NotFound) = NotFound
    BY DEF InDest
  <2>2. \A r \in D : FindRef(copy, <<Dest>>, r) = InDest(FindRef(disk, dirs, r))
    BY <1>6, <1>10
  <2> QED
    BY <1>11, <1>12, <1>14, <2>1, <2>2 DEF MeshesOf
<1>16. R2 = R
  <2>1. RefsOf(copy, {InDest(m) : m \in M}) = RefsOf(disk, M)
    BY <1>5, <1>6, <1>12, SameRefs
  <2> QED
    BY <1>14, <1>15, <2>1 DEF AllRefs
<1> HIDE DEF P, D, M, R, P2, D2, M2, R2
<1>17. ResolveModlist(copy, <<Dest>>, content).missing = missing
  <2>1. \A r \in R : FindRef(copy, <<Dest>>, r) = NotFound <=> FindRef(disk, dirs, r) = NotFound
    BY <1>9, <1>10, <1>11 DEF InDest
  <2> QED
    BY <1>1, <1>2, <1>16, <2>1
<1>18. ResolveModlist(copy, <<Dest>>, content).used = {InDest(u) : u \in used}
  <2>1. InDest(NotFound) = NotFound
    BY DEF InDest
  <2> QED
    BY <1>1, <1>2, <1>9, <1>10, <1>11, <1>12, <1>13, <1>16, <2>1
<1>19. {InDest(u) : u \in used}
         = {[dir |-> Dest, path |-> p] : p \in {q \in AsPaths : Has(copy, Dest, q)}}
  <2>1. \A u \in used : u.path \in {q \in AsPaths : Has(copy, Dest, q)}
    BY <1>11 DEF Has
  <2>2. \A p \in {q \in AsPaths : Has(copy, Dest, q)} : \E u \in used : u.path = p
    BY <1>5 DEF Holds
  <2> QED
    BY <1>11, <2>1, <2>2
<1> QED
  BY <1>17, <1>18, <1>19 DEF used

-----------------------------------------------------------------------------
(* The call.                                                               *)


AsShape ==
  /\ asSetup \in AsSetups
  /\ asDisk \in AsDisk
  /\ asStage \in {"idle", "copy", "done", "failed"}
  /\ asFresh \in BOOLEAN
  /\ \A u \in asTodo : u.dir \in AsDirs

\* Dest holds the files that were copied, as they were in the directories
\* that the call resolved.
CopiedFrom(start) ==
  LET copied == asResult.used \ asTodo
  IN  /\ asResult = ResolveModlist(start, asSetup.dirs, asSetup.content)
      /\ asTodo \subseteq asResult.used
      /\ Holds(asDisk, copied)
      /\ \A u \in copied : asDisk[Dest][u.path] = start[u.dir][u.path]
      /\ asStage = "copy" => \A d \in AsDirs : asDisk[d] = start[d]
      /\ asStage = "done" => asTodo = {}

CopyInv ==
  /\ AsShape
  /\ asStage \in {"copy", "done"} /\ asFresh => \E start \in AsDisk : CopiedFrom(start)

LEMMA CopyInit == AsInit => CopyInv
<1> SUFFICES ASSUME AsInit PROVE CopyInv
  OBVIOUS
<1>1. PICK start \in AsStarts : AsInitFrom(start)
  BY DEF AsInit
<1>2. start.setup \in AsSetups /\ start.disk \in [AsDirs -> [AsPaths -> AsContents \cup {NoAsset}]]
  BY AssetAssumption DEF AsStarts
<1>3. asDisk \in AsDisk
  BY <1>1, <1>2 DEF AsInitFrom, AsDisk, Empty
<1> QED
  BY <1>1, <1>2, <1>3 DEF AsInitFrom, CopyInv, AsShape

LEMMA ResolveStep ==
  ASSUME CopyInv, NEW materialize \in BOOLEAN, ModResolve(materialize)
  PROVE  CopyInv'
<1>1. AsShape'
  <2>1. asDisk \in AsDisk /\ asSetup \in AsSetups /\ asSetup.dirs \in Seq(AsDirs)
    BY AssetAssumption DEF CopyInv, AsShape
  <2>2. \A u \in ResolveModlist(asDisk, asSetup.dirs, asSetup.content).used : u.dir \in AsDirs
    BY <2>1, UsedFacts, PathTells DEF FoundIn
  <2>3. asTodo' \subseteq ResolveModlist(asDisk, asSetup.dirs, asSetup.content).used
    BY DEF ModResolve
  <2>4. \A u \in asTodo' : u.dir \in AsDirs
    BY <2>2, <2>3
  <2> QED
    BY <2>4 DEF ModResolve, CopyInv, AsShape
<1>2. PICK start \in AsDisk : start = asDisk
  BY DEF CopyInv, AsShape
<1>3. ASSUME asStage' \in {"copy", "done"}, asFresh'
      PROVE  CopiedFrom(start)'
  <2>1. /\ asStage' = "copy" /\ asDisk' = start /\ asSetup' = asSetup
        /\ start[Dest] = Empty /\ asTodo' = asResult'.used
        /\ asResult' = ResolveModlist(start, asSetup.dirs, asSetup.content)
    BY <1>2, <1>3 DEF ModResolve
  <2>2. \A p : ~ Has(start, Dest, p)
    BY <2>1 DEF Has, Empty
  <2>3. Holds(start, {})
    BY <2>2 DEF Holds
  <2>4. asResult'.used \ asTodo' = {}
    BY <2>1
  <2> QED
    BY <2>1, <2>3, <2>4 DEF CopiedFrom
<1> QED
  BY <1>1, <1>3 DEF CopyInv

LEMMA FileStep ==
  ASSUME CopyInv, NEW f \in asTodo, MaterializeFile(f)
  PROVE  CopyInv'
<1>1. CASE ~ Has(asDisk, f.dir, f.path)
  <2>1. asStage' = "failed" /\ UNCHANGED <<asDisk, asTodo, asSetup, asResult, asFresh>>
    BY <1>1 DEF MaterializeFile
  <2> QED
    BY <2>1 DEF CopyInv, AsShape
<1>2. CASE Has(asDisk, f.dir, f.path)
  <2>1. /\ asStage = "copy" /\ asTodo' = asTodo \ {f}
        /\ asDisk' = [asDisk EXCEPT ![Dest] =
             [p \in AsPaths |-> IF p = f.path THEN asDisk[f.dir][f.path] ELSE asDisk[Dest][p]]]
        /\ UNCHANGED <<asStage, asSetup, asResult, asFresh>>
    BY <1>2 DEF MaterializeFile, RelToDir
  <2>2. f.dir \in AsDirs /\ f.path \in AsPaths /\ asDisk[f.dir][f.path] # NoAsset /\ asDisk \in AsDisk
    BY <1>2 DEF CopyInv, AsShape, Has
  <2>3. AsShape'
    <3>1. asDisk[f.dir][f.path] \in AsContents \cup {NoAsset}
      BY <2>2 DEF AsDisk
    <3>2. asDisk' \in AsDisk
      BY <2>1, <2>2, <3>1 DEF AsDisk
    <3> QED
      BY <2>1, <3>2 DEF CopyInv, AsShape
  <2>4. /\ asDisk'[Dest] = [p \in AsPaths |-> IF p = f.path THEN asDisk[f.dir][f.path] ELSE asDisk[Dest][p]]
        /\ \A d \in AsDirs : asDisk'[d] = asDisk[d]
    BY <2>1, <2>2, AssetAssumption DEF AsDisk
  <2>5. ASSUME asFresh, NEW start \in AsDisk, CopiedFrom(start)
        PROVE  CopiedFrom(start)'
    <3> DEFINE used == asResult.used
               copied == used \ asTodo
    <3>1. /\ asResult = ResolveModlist(start, asSetup.dirs, asSetup.content)
          /\ asTodo \subseteq used
          /\ Holds(asDisk, copied)
          /\ \A u \in copied : asDisk[Dest][u.path] = start[u.dir][u.path]
          /\ \A d \in AsDirs : asDisk[d] = start[d]
      BY <2>1, <2>5 DEF CopiedFrom
    <3>2. asSetup.dirs \in Seq(AsDirs)
      BY AssetAssumption DEF CopyInv, AsShape
    <3>3. \A u \in used : Sought(start, asSetup.dirs, u)
      BY <3>1, <3>2, UsedFacts
    <3>4. \A u \in used : u.path = f.path => u = f
      BY <3>1, <3>2, <3>3, SamePath
    <3>5. used \ asTodo' = copied \cup {f} /\ asTodo' \subseteq used
      BY <2>1, <3>1
    <3>6. asDisk'[Dest][f.path] = start[f.dir][f.path] /\ start[f.dir][f.path] # NoAsset
      BY <2>2, <2>4, <3>1
    <3> HIDE DEF used
    <3>7. \A u \in copied : u.path \in AsPaths /\ (u.path # f.path => asDisk'[Dest][u.path] = asDisk[Dest][u.path])
      <4>1. \A u \in copied : u.path \in AsPaths
        BY <3>1 DEF Holds, Has
      <4> QED
        BY <2>4, <4>1
    <3>8. \A u \in copied \cup {f} : asDisk'[Dest][u.path] = start[u.dir][u.path]
      BY <3>1, <3>4, <3>6, <3>7
    <3>9. Holds(asDisk', copied \cup {f})
      <4>1. ASSUME NEW u \in copied \cup {f} PROVE Has(asDisk', Dest, u.path)
        <5>1. CASE u.path = f.path
          BY <2>2, <3>6, <5>1 DEF Has
        <5>2. CASE u.path # f.path
          BY <3>1, <3>7, <5>2 DEF Holds, Has
        <5> QED
          BY <5>1, <5>2
      <4>2. ASSUME NEW p, Has(asDisk', Dest, p) PROVE \E u \in copied \cup {f} : u.path = p
        <5>1. CASE p = f.path
          BY <5>1
        <5>2. CASE p # f.path
          <6>1. Has(asDisk, Dest, p)
            BY <2>4, <4>2, <5>2 DEF Has
          <6> QED
            BY <3>1, <6>1 DEF Holds
        <5> QED
          BY <5>1, <5>2
      <4> QED
        BY <4>1, <4>2 DEF Holds
    <3> QED
      BY <2>1, <2>4, <3>1, <3>5, <3>8, <3>9 DEF CopiedFrom, used
  <2> QED
    BY <2>1, <2>3, <2>5 DEF CopyInv
<1> QED
  BY <1>1, <1>2

LEMMA EndStep == CopyInv /\ MaterializeEnds => CopyInv'
<1> SUFFICES ASSUME CopyInv, MaterializeEnds PROVE CopyInv'
  OBVIOUS
<1>1. /\ asStage = "copy" /\ asTodo = {} /\ asStage' = "done"
      /\ UNCHANGED <<asDisk, asSetup, asResult, asTodo, asFresh>>
  BY DEF MaterializeEnds
<1>2. AsShape'
  BY <1>1 DEF CopyInv, AsShape
<1>3. ASSUME NEW start \in AsDisk, CopiedFrom(start) PROVE CopiedFrom(start)'
  BY <1>1, <1>3 DEF CopiedFrom
<1> QED
  BY <1>1, <1>2, <1>3 DEF CopyInv

LEMMA FilesChangeStep ==
  ASSUME CopyInv, NEW dir \in AsDirs, NEW path \in AsPaths, NEW content \in AsContents \cup {NoAsset},
         AssetChanges(dir, path, content)
  PROVE  CopyInv'
<1>1. /\ asDisk' = [asDisk EXCEPT ![dir][path] = content]
      /\ asFresh' = (asFresh /\ asStage # "copy")
      /\ UNCHANGED <<asSetup, asStage, asResult, asTodo>>
  BY DEF AssetChanges
<1>2. asDisk \in AsDisk
  BY DEF CopyInv, AsShape
<1>3. asDisk' \in AsDisk
  BY <1>1, <1>2 DEF AsDisk
<1>4. AsShape'
  BY <1>1, <1>3 DEF CopyInv, AsShape
<1>5. asDisk'[Dest] = asDisk[Dest]
  BY <1>1, <1>2, AssetAssumption DEF AsDisk
<1>6. ASSUME asStage = "done", NEW start \in AsDisk, CopiedFrom(start) PROVE CopiedFrom(start)'
  <2>1. Holds(asDisk, asResult.used \ asTodo) => Holds(asDisk', asResult.used \ asTodo)
    BY <1>5 DEF Holds, Has
  <2> QED
    BY <1>1, <1>5, <1>6, <2>1 DEF CopiedFrom
<1> QED
  BY <1>1, <1>4, <1>6 DEF CopyInv

LEMMA CopyStep == CopyInv /\ [AsNext]_asVars => CopyInv'
<1> SUFFICES ASSUME CopyInv, [AsNext]_asVars PROVE CopyInv'
  OBVIOUS
<1>1. ASSUME NEW materialize \in BOOLEAN, ModResolve(materialize) PROVE CopyInv'
  BY <1>1, ResolveStep
<1>2. ASSUME NEW f \in asTodo, MaterializeFile(f) PROVE CopyInv'
  BY <1>2, FileStep
<1>3. CASE MaterializeEnds
  BY <1>3, EndStep
<1>4. ASSUME NEW dir \in AsDirs, NEW path \in AsPaths, NEW content \in AsContents \cup {NoAsset},
             AssetChanges(dir, path, content)
      PROVE  CopyInv'
  BY <1>4, FilesChangeStep
<1>5. CASE UNCHANGED asVars
  BY <1>5 DEF asVars, CopyInv, AsShape, CopiedFrom
<1> QED
  BY <1>1, <1>2, <1>3, <1>4, <1>5 DEF AsNext

LEMMA CopyRead == CopyInv => ClosureClosed
<1> SUFFICES ASSUME CopyInv, asStage = "done", asFresh
             PROVE  /\ ResolveModlist(asDisk, <<Dest>>, asSetup.content).used
                         = {[dir |-> Dest, path |-> p] : p \in {q \in AsPaths : Has(asDisk, Dest, q)}}
                    /\ ResolveModlist(asDisk, <<Dest>>, asSetup.content).missing = asResult.missing
  BY DEF ClosureClosed
<1>1. PICK start \in AsDisk : CopiedFrom(start)
  BY DEF CopyInv
<1>2. asSetup.dirs \in Seq(AsDirs)
  BY AssetAssumption DEF CopyInv, AsShape
<1>3. asResult.used \ asTodo = asResult.used
  BY <1>1 DEF CopiedFrom
<1>4. /\ asResult = ResolveModlist(start, asSetup.dirs, asSetup.content)
      /\ Holds(asDisk, asResult.used)
      /\ \A u \in asResult.used : asDisk[Dest][u.path] = start[u.dir][u.path]
  BY <1>1, <1>3 DEF CopiedFrom
<1> QED
  BY <1>2, <1>4, CopyCloses

\* mod_resolve: the directory that was made stands for itself.  To resolve the
\* plugins in it alone finds all of its files and misses what was missed
\* before, if it was empty and no file changed while the call ran.
THEOREM CopyIsClosed == AsSpec => []ClosureClosed
<1>1. CopyInv /\ [AsNext]_asVars => CopyInv'
  BY CopyStep
<1> QED
  BY <1>1, CopyInit, CopyRead, PTL DEF AsSpec

-----------------------------------------------------------------------------
(* Morrowind plugins.                                                      *)

\* A list, whatever is in it.
Listing(s) == s \in Seq({s[k] : k \in DOMAIN s})

\* A header is a list of subrecords.
Subrecord(e) == e = [sig |-> e.sig, body |-> e.body]
Heading(s) == Listing(s) /\ \A k \in DOMAIN s : Subrecord(s[k])

T3Inv == Heading(t3Header) /\ Listing(t3Records)

LEMMA ListingIs ==
  ASSUME NEW s, NEW n \in Nat, NEW X, s \in [1 .. n -> X]
  PROVE  Listing(s)
<1>1. s \in [1 .. n -> {s[k] : k \in DOMAIN s}]
  OBVIOUS
<1> QED
  BY <1>1, SeqDef DEF Listing

LEMMA SeqListing ==
  ASSUME NEW X, NEW s \in Seq(X)
  PROVE  Listing(s)
<1>1. PICK n \in Nat : s \in [1 .. n -> X]
  BY SeqDef
<1> QED
  BY <1>1, ListingIs

IsLastOf(S, m) ==
  /\ Cardinality(S \cup {m}) = Cardinality(S) + 1
  /\ Cardinality(S) \in Nat
  /\ \A j \in 1 .. Cardinality(S) : NthOf(S \cup {m}, j) = NthOf(S, j)
  /\ NthOf(S \cup {m}, Cardinality(S) + 1) = m

LEMMA ListingLength ==
  ASSUME NEW s, Listing(s), NEW n \in Nat, DOMAIN s = 1 .. n
  PROVE  Len(s) = n
<1> DEFINE X == {s[k] : k \in DOMAIN s}
<1>1. s \in Seq(X)
  BY DEF Listing
<1> HIDE DEF X
<1> QED
  BY <1>1

\* One entry behind all others is the last of its set.
LEMMA BehindAll ==
  ASSUME NEW n \in Nat, NEW S, S \subseteq 1 .. n, NEW m \in Nat, n < m
  PROVE  IsLastOf(S, m)
<1> DEFINE T == S \cup {m}
           c == Cardinality(S)
<1>1. T \subseteq 1 .. m /\ m \notin S /\ m \in T
  OBVIOUS
<1>2. IsFiniteSet(S) /\ c \in Nat
  BY RankFacts
<1>3. Cardinality(T) = c + 1
  BY <1>1, <1>2, FS_AddElement
<1>4. \A k \in S : Rank(T, k) = Rank(S, k)
  <2> TAKE k \in S
  <2>1. {i \in T : i <= k} = {i \in S : i <= k}
    OBVIOUS
  <2> QED
    BY <2>1 DEF Rank
<1>5. Rank(T, m) = Cardinality(T)
  <2>0. \A i \in T : i <= m
    OBVIOUS
  <2>1. {i \in T : i <= m} = T
    BY <2>0
  <2> QED
    BY <2>1 DEF Rank
<1> HIDE DEF T, c
<1>6. \A j \in 1 .. c : NthOf(S, j) \in S /\ Rank(S, NthOf(S, j)) = j
  BY NthFacts DEF c
<1>7. \A k \in T : NthOf(T, Rank(T, k)) = k
  BY <1>1, NthFacts
<1>8. \A j \in 1 .. c : NthOf(T, j) = NthOf(S, j)
  <2> TAKE j \in 1 .. c
  <2>1. NthOf(S, j) \in T
    BY <1>6 DEF T
  <2> QED
    BY <1>4, <1>6, <1>7, <2>1
<1>9. NthOf(T, c + 1) = m
  BY <1>1, <1>3, <1>5, <1>7
<1> QED
  BY <1>2, <1>3, <1>8, <1>9 DEF T, c, IsLastOf

LEMMA T3Start == T3Init => T3Inv
<1> SUFFICES ASSUME NEW start \in T3Starts, T3InitFrom(start) PROVE T3Inv
  BY DEF T3Init
<1>1. (\E X : start.header \in Seq(X)) /\ (\E X : start.records \in Seq(X))
  BY Tes3Assumption
<1>2. Heading(start.header)
  <2>1. Listing(start.header)
    BY <1>1, SeqListing
  <2>2. \A k \in DOMAIN start.header : Subrecord(start.header[k])
    <3> DEFINE X == [sig : STRING, body : T3Names \cup Nat]
               s == start.header
    <3>1. s \in Seq(X)
      BY Tes3Assumption
    <3>2. \A e \in X : Subrecord(e)
      BY DEF Subrecord
    <3> HIDE DEF X, s
    <3>3. \A k \in DOMAIN s : s[k] \in X
      BY <3>1
    <3> QED
      BY <3>2, <3>3 DEF s
  <2> QED
    BY <2>1, <2>2 DEF Heading
<1>3. Listing(start.records)
  BY <1>1, SeqListing
<1> QED
  BY <1>2, <1>3 DEF T3InitFrom, T3Inv

LEMMA EditKeeps ==
  ASSUME T3Inv, NEW type, NEW id, NEW subs, NEW deleted, Tes3Edit(type, id, subs, deleted)
  PROVE  T3Inv' /\ Len(t3Records') = Len(t3Records) /\ t3Stored' = t3Stored /\ t3Header' = t3Header
<1>1. PICK n \in Nat : t3Records \in [1 .. n -> {t3Records[k] : k \in DOMAIN t3Records}]
  BY SeqDef DEF T3Inv, Listing
<1>2. /\ t3Records' = [t3Records EXCEPT ![FindTes3(type, id)].subs = subs,
                                        ![FindTes3(type, id)].deleted = deleted]
      /\ UNCHANGED <<t3Header, t3Stored>>
  BY DEF Tes3Edit
<1> DEFINE t == t3Records'
<1>3. DOMAIN t = DOMAIN t3Records /\ t = [k \in DOMAIN t |-> t[k]]
  BY <1>2
<1> HIDE DEF t
<1>4. t \in [1 .. n -> {t[k] : k \in DOMAIN t}]
  BY <1>1, <1>3
<1>5. Listing(t)
  BY <1>4, ListingIs
<1>6. t3Records \in Seq({t3Records[k] : k \in DOMAIN t3Records}) /\ t \in Seq({t[k] : k \in DOMAIN t})
  BY <1>5 DEF T3Inv, Listing
<1>7. Len(t) = Len(t3Records)
  BY <1>3, <1>6
<1> QED
  BY <1>2, <1>5, <1>7 DEF t, T3Inv

LEMMA AddRecordStep ==
  ASSUME T3Inv, NEW type, NEW subs, Tes3AddRecord(type, subs)
  PROVE  /\ T3Inv' /\ Len(t3Records') # Len(t3Records) /\ t3Stored' = Len(t3Records')
         /\ t3Header' = t3Header
<1> DEFINE new == [type |-> type, deleted |-> FALSE, subs |-> subs]
           X == {t3Records[k] : k \in DOMAIN t3Records} \cup {new}
<1>1. t3Records \in Seq(X)
  <2>1. PICK n \in Nat : t3Records \in [1 .. n -> {t3Records[k] : k \in DOMAIN t3Records}]
    BY SeqDef DEF T3Inv, Listing
  <2> QED
    BY <2>1, SeqDef
<1>2. new \in X /\ t3Records' = Append(t3Records, new)
  BY DEF Tes3AddRecord
<1> HIDE DEF new, X
<1>3. t3Records' \in Seq(X) /\ Len(t3Records') = Len(t3Records) + 1 /\ Len(t3Records) \in Nat
  BY <1>1, <1>2
<1>4. Listing(t3Records)'
  BY <1>3, SeqListing
<1> QED
  BY <1>3, <1>4 DEF Tes3AddRecord, RecomputeNumRecords, T3Inv

LEMMA DeleteRecordsStep ==
  ASSUME T3Inv, NEW type, NEW ids, Tes3DeleteRecords(type, ids)
  PROVE  /\ T3Inv' /\ t3Header' = t3Header
         /\ IF Len(t3Records') = Len(t3Records) THEN t3Stored' = t3Stored
                                                ELSE t3Stored' = Len(t3Records')
<1> DEFINE Kept(rec) == \A id \in ids : ~IsRecord(rec, type, id)
           S == {i \in DOMAIN t3Records : Kept(t3Records[i])}
           X == {t3Records[k] : k \in DOMAIN t3Records}
<1>1. CASE S = DOMAIN t3Records
  <2>1. UNCHANGED <<t3Records, t3Stored, t3Header>>
    BY <1>1 DEF Tes3DeleteRecords
  <2> QED
    BY <2>1 DEF T3Inv, Listing
<1>2. CASE S # DOMAIN t3Records
  <2>1. /\ t3Records' = Sublist(t3Records, S) /\ t3Stored' = Len(t3Records')
        /\ t3Header' = t3Header
    BY <1>2 DEF Tes3DeleteRecords, RecomputeNumRecords
  <2>2. t3Records \in Seq(X)
    BY DEF T3Inv, Listing
  <2>3. S \subseteq DOMAIN t3Records
    OBVIOUS
  <2> HIDE DEF S, X
  <2>4. t3Records' \in Seq(X) /\ Len(t3Records') = Cardinality(S)
    BY <2>1, <2>2, <2>3, SublistFacts
  <2>5. Listing(t3Records)'
    BY <2>4, SeqListing
  <2>6. Len(t3Records') # Len(t3Records)
    <3>1. PICK n \in Nat : n = Len(t3Records) /\ DOMAIN t3Records = 1 .. n
      BY <2>2
    <3>2. \A m \in Nat : IsFiniteSet(1 .. m) /\ Cardinality(1 .. m) = m
      BY FS_Interval
    <3>3. Cardinality(S) # n
      BY <1>2, <2>3, <3>1, <3>2, FS_Subset
    <3> QED
      BY <2>4, <3>1, <3>3
  <2> QED
    BY <2>1, <2>5, <2>6 DEF T3Inv
<1> QED
  BY <1>1, <1>2

LEMMA MastersAre ==
  ASSUME NEW X, NEW header \in Seq(X)
  PROVE  LET M == Occurrences(header, "MAST")
         IN  /\ M \subseteq 1 .. Len(header)
             /\ Cardinality(M) \in Nat
             /\ Masters(header) = [k \in 1 .. Cardinality(M) |-> MasterAt(header, NthOf(M, k))]
             /\ \A k \in 1 .. Cardinality(M) : NthOf(M, k) \in M
<1> DEFINE M == Occurrences(header, "MAST")
           all == [i \in DOMAIN header |-> MasterAt(header, i)]
<1>1. M \subseteq 1 .. Len(header) /\ Len(header) \in Nat /\ M \subseteq DOMAIN header
  BY DEF Occurrences
<1>2. Masters(header) = [k \in 1 .. Cardinality(M) |-> all[NthOf(M, k)]]
  BY DEF Masters, Sublist
<1> HIDE DEF M
<1>3. Cardinality(M) \in Nat /\ \A k \in 1 .. Cardinality(M) : NthOf(M, k) \in M
  BY <1>1, RankFacts, NthFacts
<1>4. \A k \in 1 .. Cardinality(M) : all[NthOf(M, k)] = MasterAt(header, NthOf(M, k))
  BY <1>1, <1>3
<1> HIDE DEF all
<1>5. Masters(header) = [k \in 1 .. Cardinality(M) |-> MasterAt(header, NthOf(M, k))]
  BY <1>2, <1>4
<1> QED
  BY <1>1, <1>3, <1>5 DEF M

\* The pair goes behind all masters and sizes.
LEMMA PositionFacts ==
  ASSUME NEW X, t3Header \in Seq(X)
  PROVE  /\ MasterPosition \in 1 .. Len(t3Header) + 1
         /\ \A i \in Occurrences(t3Header, "MAST") \cup Occurrences(t3Header, "DATA") : i < MasterPosition
<1> DEFINE pairs == Occurrences(t3Header, "MAST") \cup Occurrences(t3Header, "DATA")
           hedr == Occurrences(t3Header, "HEDR")
<1>1. PICK n \in Nat : n = Len(t3Header)
  OBVIOUS
<1>2. pairs \subseteq 0 .. n /\ pairs \subseteq 1 .. n /\ hedr \subseteq 1 .. n
  BY <1>1 DEF Occurrences
<1>3. MasterPosition = IF pairs # {} THEN Max(pairs) + 1
                       ELSE IF hedr # {} THEN Min(hedr) + 1 ELSE n + 1
  BY <1>1 DEF MasterPosition
<1> HIDE DEF pairs, hedr
<1>4. CASE pairs # {}
  <2>1. \E m \in pairs : \A k \in pairs : k <= m
    BY <1>2, <1>4, GreatestNatural
  <2>2. \E m \in pairs : \A k \in pairs : m >= k
    BY <1>2, <2>1
  <2>3. Max(pairs) \in pairs /\ \A k \in pairs : Max(pairs) >= k
    BY <2>2 DEF Max
  <2>4. MasterPosition = Max(pairs) + 1
    BY <1>3, <1>4
  <2>5. PICK m \in 1 .. n : m = Max(pairs)
    BY <1>2, <2>3
  <2>6. MasterPosition \in 1 .. Len(t3Header) + 1
    BY <1>1, <2>4, <2>5
  <2>7. \A i \in pairs : i < MasterPosition
    <3> TAKE i \in pairs
    <3>1. i \in 1 .. n /\ m >= i
      BY <1>2, <2>3, <2>5
    <3> QED
      BY <2>4, <2>5, <3>1
  <2> QED
    BY <2>6, <2>7 DEF pairs
<1>5. CASE pairs = {} /\ hedr # {}
  <2>1. hedr \subseteq Nat
    BY <1>2
  <2>2. \E m \in hedr : \A k \in hedr : m <= k
    BY <1>5, <2>1, LeastNatural
  <2>3. Min(hedr) \in hedr
    BY <2>2 DEF Min
  <2>4. MasterPosition = Min(hedr) + 1 /\ Min(hedr) \in 1 .. n
    BY <1>2, <1>3, <1>5, <2>3
  <2> QED
    BY <1>1, <1>5, <2>4 DEF pairs
<1>6. CASE pairs = {} /\ hedr = {}
  <2>1. MasterPosition = n + 1
    BY <1>3, <1>6
  <2> QED
    BY <1>1, <1>6, <2>1 DEF pairs
<1> QED
  BY <1>4, <1>5, <1>6

LEMMA AddMasterStep ==
  ASSUME T3Inv, NEW name \in T3Names, NEW size \in T3Sizes, ~ IsMaster(name), NEW h,
         h = InsertAt(InsertAt(t3Header, MasterPosition, [sig |-> "MAST", body |-> name]),
                      MasterPosition + 1, [sig |-> "DATA", body |-> size])
  PROVE  /\ Heading(h)
         /\ Masters(h) = Append(Masters(t3Header), [name |-> name, size |-> size])
         /\ \A i \in DOMAIN Masters(t3Header) : T3Fold[Masters(t3Header)[i].name] # T3Fold[name]
<1> DEFINE one == [sig |-> "MAST", body |-> name]
           two == [sig |-> "DATA", body |-> size]
           g == InsertAt(t3Header, MasterPosition, one)
           M == Occurrences(t3Header, "MAST")
           c == Cardinality(M)
           X == {t3Header[k] : k \in DOMAIN t3Header} \cup {one, two}
<1>1. one \in X /\ two \in X
  OBVIOUS
<1>2. PICK n \in Nat : n = Len(t3Header) /\ DOMAIN t3Header = 1 .. n /\ t3Header \in Seq(X)
  <2>1. PICK n \in Nat : t3Header \in [1 .. n -> {t3Header[k] : k \in DOMAIN t3Header}]
    BY SeqDef DEF T3Inv, Heading, Listing
  <2>2. t3Header \in [1 .. n -> X]
    BY <2>1
  <2> HIDE DEF X
  <2>3. t3Header \in Seq(X)
    BY <2>2, SeqDef
  <2> QED
    BY <2>2, <2>3
<1> HIDE DEF X
<1>3. PICK p \in 1 .. n + 1 : p = MasterPosition
  BY <1>2, PositionFacts
<1>4. \A i \in M \cup Occurrences(t3Header, "DATA") : i < p
  BY <1>2, <1>3, PositionFacts
<1>6. one.sig = "MAST" /\ two.sig = "DATA" /\ one.body = name /\ two.body = size
  OBVIOUS
<1> HIDE DEF one, two
<1>7. g \in Seq(X) /\ Inserted(g, t3Header, p, one)
  BY <1>1, <1>2, <1>3, InsertAtFacts
<1>8. /\ DOMAIN g = 1 .. n + 1
      /\ \A l \in 1 .. p - 1 : g[l] = t3Header[l]
      /\ g[p] = one
      /\ \A l \in p .. n : g[l + 1] = t3Header[l]
  BY <1>2, <1>7 DEF Inserted
<1>9. Len(g) = n + 1 /\ h = InsertAt(g, p + 1, two)
  BY <1>3, <1>7, <1>8 DEF one, two
<1> HIDE DEF g
<1>10. h \in Seq(X) /\ Inserted(h, g, p + 1, two)
  <2>1. p + 1 \in 1 .. Len(g) + 1
    BY <1>9
  <2> QED
    BY <1>1, <1>7, <1>9, <2>1, InsertAtFacts
<1>11. /\ DOMAIN h = 1 .. n + 2 /\ Len(h) = n + 2
       /\ \A l \in 1 .. p : h[l] = g[l]
       /\ h[p + 1] = two
       /\ \A l \in p + 1 .. n + 1 : h[l + 1] = g[l]
  <2>1. /\ DOMAIN h = 1 .. (Len(g) + 1)
        /\ \A l \in 1 .. (p + 1) - 1 : h[l] = g[l]
        /\ h[p + 1] = two
        /\ \A l \in p + 1 .. Len(g) : h[l + 1] = g[l]
    BY <1>10 DEF Inserted
  <2>2. (p + 1) - 1 = p /\ Len(g) + 1 = n + 2
    BY <1>9
  <2>3. DOMAIN h = 1 .. n + 2 /\ Len(h) = n + 2
    BY <1>10, <2>1, <2>2
  <2> QED
    BY <1>9, <2>1, <2>2, <2>3
<1>12. \A l \in 1 .. p - 1 : h[l] = t3Header[l]
  BY <1>8, <1>11
<1>13. h[p] = one
  BY <1>8, <1>11
<1>14. ASSUME NEW l \in p + 2 .. n + 2 PROVE h[l] = t3Header[l - 2] /\ l - 2 \in p .. n
  <2>1. PICK k \in p .. n : k = l - 2
    OBVIOUS
  <2>2. h[(k + 1) + 1] = g[k + 1] /\ g[k + 1] = t3Header[k]
    BY <1>8, <1>11
  <2>3. (k + 1) + 1 = l
    BY <2>1
  <2> QED
    BY <2>1, <2>2, <2>3
<1>15. Occurrences(h, "MAST") = M \cup {p}
  <2>1. ASSUME NEW l \in M PROVE l \in Occurrences(h, "MAST")
    <3>1. l \in 1 .. p - 1 /\ t3Header[l].sig = "MAST"
      BY <1>2, <1>4 DEF Occurrences
    <3> QED
      BY <1>11, <1>12, <3>1 DEF Occurrences
  <2>2. p \in Occurrences(h, "MAST")
    BY <1>6, <1>11, <1>13 DEF Occurrences
  <2>3. ASSUME NEW l \in Occurrences(h, "MAST"), l # p PROVE l \in M
    <3>1. l \in 1 .. n + 2 /\ h[l].sig = "MAST"
      BY <1>11 DEF Occurrences
    <3>2. CASE l < p
      <4>1. l \in 1 .. p - 1 /\ l \in 1 .. n
        BY <3>1, <3>2
      <4> QED
        BY <1>2, <1>12, <3>1, <4>1 DEF Occurrences
    <3>3. CASE l = p + 1
      BY <1>6, <1>11, <3>1, <3>3
    <3>4. CASE l > p + 1
      <4>1. l \in p + 2 .. n + 2
        BY <3>1, <3>4
      <4>2. h[l] = t3Header[l - 2] /\ l - 2 \in p .. n
        BY <1>14, <4>1
      <4>3. l - 2 \in M
        BY <1>2, <3>1, <4>2 DEF Occurrences
      <4> QED
        BY <1>4, <4>2, <4>3
    <3> QED
      BY <2>3, <3>1, <3>2, <3>3, <3>4
  <2> HIDE DEF M
  <2> QED
    BY <2>1, <2>2, <2>3
<1>16. ASSUME NEW i \in M PROVE MasterAt(h, i) = MasterAt(t3Header, i)
  <2>1. i \in 1 .. n /\ i \in 1 .. p - 1
    BY <1>2, <1>4 DEF Occurrences
  <2>2. h[i].body = t3Header[i].body
    BY <1>12, <2>1
  <2>3. CASE i + 1 < p
    <3>1. i + 1 \in 1 .. p - 1 /\ i < n /\ i < n + 2
      BY <2>1, <2>3
    <3>2. h[i + 1] = t3Header[i + 1]
      BY <1>12, <3>1
    <3> QED
      BY <1>2, <1>11, <2>2, <3>1, <3>2 DEF MasterAt
  <2>4. CASE i + 1 = p
    <3>1. h[i + 1].sig # "DATA"
      BY <1>6, <1>13, <2>4
    <3>2. ~ (i < n /\ t3Header[i + 1].sig = "DATA")
      <4> SUFFICES ASSUME i < n, t3Header[i + 1].sig = "DATA" PROVE FALSE
        OBVIOUS
      <4>1. i + 1 \in Occurrences(t3Header, "DATA")
        BY <1>2, <2>1 DEF Occurrences
      <4> QED
        BY <1>4, <2>1, <2>4, <4>1
    <3> QED
      BY <1>2, <2>2, <3>1, <3>2 DEF MasterAt
  <2> QED
    BY <2>1, <2>3, <2>4
<1>17. MasterAt(h, p) = [name |-> name, size |-> size]
  <2>1. p < Len(h)
    BY <1>11
  <2> QED
    BY <1>6, <1>11, <1>13, <2>1 DEF MasterAt
<1>18. /\ Masters(t3Header) = [k \in 1 .. c |-> MasterAt(t3Header, NthOf(M, k))]
       /\ c \in Nat /\ M \subseteq 1 .. n
       /\ \A k \in 1 .. c : NthOf(M, k) \in M
  BY <1>2, MastersAre
<1>19. Masters(h) = [k \in 1 .. Cardinality(M \cup {p}) |-> MasterAt(h, NthOf(M \cup {p}, k))]
  BY <1>10, <1>15, MastersAre
<1>20. PICK q \in Nat : M \subseteq 1 .. q /\ q < p
  <2>1. p - 1 \in Nat /\ p - 1 < p
    OBVIOUS
  <2>2. M \subseteq 1 .. p - 1
    BY <1>4, <1>18
  <2> QED
    BY <2>1, <2>2
<1> HIDE DEF c
<1>21. /\ Cardinality(M \cup {p}) = c + 1
       /\ \A j \in 1 .. c : NthOf(M \cup {p}, j) = NthOf(M, j)
       /\ NthOf(M \cup {p}, c + 1) = p
  <2> HIDE DEF M
  <2>1. p \in Nat
    OBVIOUS
  <2>2. IsLastOf(M, p)
    BY <1>20, <2>1, BehindAll
  <2> QED
    BY <2>2 DEF c, IsLastOf
<1> HIDE DEF M
<1>22. Masters(h) = Append(Masters(t3Header), [name |-> name, size |-> size])
  <2> DEFINE old == Masters(t3Header)
             m == [name |-> name, size |-> size]
  <2>1. old \in Seq({old[k] : k \in 1 .. c}) /\ Len(old) = c
    <3>1. old \in [1 .. c -> {old[k] : k \in 1 .. c}]
      BY <1>18
    <3> HIDE DEF old
    <3>2. old \in Seq({old[k] : k \in 1 .. c})
      BY <1>18, <3>1, SeqDef
    <3>3. Len(old) = c
      BY <1>18, <3>1, <3>2
    <3> QED
      BY <3>2, <3>3
  <2>2. Append(old, m) = [k \in 1 .. c + 1 |-> IF k <= c THEN old[k] ELSE m]
    <3> DEFINE Y == {old[k] : k \in 1 .. c} \cup {m}
    <3>1. old \in Seq(Y) /\ m \in Y
      <4>1. old \in [1 .. c -> Y]
        BY <1>18
      <4> HIDE DEF old, m, Y
      <4>2. old \in Seq(Y)
        BY <1>18, <4>1, SeqDef
      <4> QED
        BY <4>2 DEF Y
    <3> HIDE DEF old, m, Y
    <3>2. Append(old, m) \in Seq(Y) /\ Len(Append(old, m)) = c + 1
      BY <1>18, <2>1, <3>1, AppendProperties
    <3> DEFINE a == Append(old, m)
    <3> HIDE DEF a
    <3>3. a \in Seq(Y) /\ Len(a) = c + 1
      BY <3>2 DEF a
    <3>4. a = [k \in 1 .. c + 1 |-> a[k]]
      BY <3>3, SeqDef
    <3>5. /\ \A k \in 1 .. c : Append(old, m)[k] = old[k]
          /\ Append(old, m)[c + 1] = m
      BY <2>1, <3>1, AppendProperties
    <3>6. \A k \in 1 .. c + 1 : Append(old, m)[k] = IF k <= c THEN old[k] ELSE m
      <4> TAKE k \in 1 .. c + 1
      <4>1. CASE k <= c
        <5>1. k \in 1 .. c
          BY <1>18, <4>1
        <5> QED
          BY <3>5, <4>1, <5>1
      <4>2. CASE ~ (k <= c)
        <5>1. k = c + 1
          BY <1>18, <4>2
        <5> QED
          BY <3>5, <4>2, <5>1
      <4> QED
        BY <4>1, <4>2
    <3> QED
      BY <3>4, <3>6 DEF a
  <2>3. \A k \in 1 .. c + 1 : MasterAt(h, NthOf(M \cup {p}, k)) = IF k <= c THEN old[k] ELSE m
    <3> TAKE k \in 1 .. c + 1
    <3>1. CASE k <= c
      <4>1. k \in 1 .. c
        BY <1>18, <3>1
      <4>2. old[k] = MasterAt(t3Header, NthOf(M, k))
        BY <1>18, <4>1
      <4>3. MasterAt(h, NthOf(M, k)) = MasterAt(t3Header, NthOf(M, k))
        BY <1>16, <1>18, <4>1
      <4> QED
        BY <1>21, <3>1, <4>1, <4>2, <4>3
    <3>2. CASE ~ (k <= c)
      <4>1. k = c + 1
        BY <1>18, <3>2
      <4> QED
        BY <1>17, <1>21, <3>2, <4>1
    <3> QED
      BY <3>1, <3>2
  <2> HIDE DEF old, m
  <2>4. Masters(h) = [k \in 1 .. c + 1 |-> MasterAt(h, NthOf(M \cup {p}, k))]
    BY <1>19, <1>21
  <2> QED
    BY <2>2, <2>3, <2>4 DEF old, m
<1>23. \A i \in DOMAIN Masters(t3Header) : T3Fold[Masters(t3Header)[i].name] # T3Fold[name]
  <2>1. ASSUME NEW i \in DOMAIN Masters(t3Header)
        PROVE  T3Fold[Masters(t3Header)[i].name] # T3Fold[name]
    <3>1. i \in 1 .. c
      BY <1>18
    <3>2. Masters(t3Header)[i].name = t3Header[NthOf(M, i)].body /\ NthOf(M, i) \in M
      BY <1>18, <3>1 DEF MasterAt
    <3>3. \A j \in M : T3Fold[t3Header[j].body] # T3Fold[name]
      BY DEF IsMaster, M, Occurrences
    <3> QED
      BY <3>2, <3>3
  <2> QED
    BY <2>1
<1>24. Heading(h)
  <2>1. Listing(h)
    BY <1>10, SeqListing
  <2>2. \A e \in X : Subrecord(e)
    <3>1. \A k \in DOMAIN t3Header : Subrecord(t3Header[k])
      BY DEF T3Inv, Heading
    <3>2. Subrecord(one) /\ Subrecord(two)
      BY DEF Subrecord, one, two
    <3> QED
      BY <3>1, <3>2 DEF X
  <2>3. \A l \in DOMAIN h : h[l] \in X
    BY <1>10
  <2> QED
    BY <2>1, <2>2, <2>3 DEF Heading
<1> QED
  BY <1>22, <1>23, <1>24

Renames(h, new) ==
  /\ Heading(h)
  /\ \E k \in DOMAIN Masters(t3Header) : Masters(h) = [Masters(t3Header) EXCEPT ![k].name = new]

LEMMA RenameMasterStep ==
  ASSUME T3Inv, NEW old, NEW new \in T3Names, IsMaster(old), NEW h,
         h = [t3Header EXCEPT ![Min({j \in Occurrences(t3Header, "MAST") :
                                       T3Fold[t3Header[j].body] = T3Fold[old]})].body = new]
  PROVE  Renames(h, new)
<1> DEFINE M == Occurrences(t3Header, "MAST")
           J == {j \in M : T3Fold[t3Header[j].body] = T3Fold[old]}
           c == Cardinality(M)
<1>1. PICK n \in Nat : DOMAIN t3Header = 1 .. n /\ t3Header \in [1 .. n -> {t3Header[k] : k \in DOMAIN t3Header}]
  BY SeqDef DEF T3Inv, Heading, Listing
<1>2. M \subseteq 1 .. n
  BY <1>1 DEF Occurrences
<1>3. J # {}
  BY DEF IsMaster, Occurrences
<1>4. PICK i \in M : i = Min(J)
  <2>1. J \subseteq Nat
    BY <1>2
  <2> HIDE DEF J
  <2>2. \E m \in J : \A k \in J : m <= k
    BY <1>3, <2>1, LeastNatural
  <2>3. Min(J) \in J
    BY <2>2 DEF Min
  <2> QED
    BY <2>3 DEF J
<1>5. h = [t3Header EXCEPT ![i].body = new] /\ i \in 1 .. n
  BY <1>2, <1>4
<1>6. \A l \in 1 .. n : Subrecord(t3Header[l])
  BY <1>1 DEF T3Inv, Heading
<1>7. t3Header[i].sig = "MAST"
  BY <1>4 DEF Occurrences
<1> HIDE DEF M, J
<1>8. /\ h = [l \in 1 .. n |-> h[l]]
      /\ \A l \in 1 .. n : l # i => h[l] = t3Header[l]
  BY <1>1, <1>5
<1>9. h[i] = [sig |-> "MAST", body |-> new]
  <2>1. h[i] = [t3Header[i] EXCEPT !.body = new]
    BY <1>1, <1>5
  <2>2. t3Header[i] = [sig |-> "MAST", body |-> t3Header[i].body]
    BY <1>5, <1>6, <1>7 DEF Subrecord
  <2>3. [[sig |-> "MAST", body |-> t3Header[i].body] EXCEPT !.body = new] = [sig |-> "MAST", body |-> new]
    OBVIOUS
  <2> QED
    BY <2>1, <2>2, <2>3
<1> HIDE <1>5
<1>10. h \in [1 .. n -> {h[l] : l \in DOMAIN h}] /\ DOMAIN h = 1 .. n
  BY <1>8
<1>11. Listing(h)
  BY <1>10, ListingIs
<1>12. Heading(h)
  <2>1. Subrecord(h[i])
    BY <1>9 DEF Subrecord
  <2> QED
    BY <1>6, <1>8, <1>10, <1>11, <2>1 DEF Heading
<1>13. h \in Seq({h[l] : l \in DOMAIN h}) /\ t3Header \in Seq({t3Header[k] : k \in DOMAIN t3Header})
  BY <1>11 DEF Listing, T3Inv, Heading
<1>14. Len(h) = n /\ Len(t3Header) = n
  <2>1. Listing(t3Header)
    BY DEF T3Inv, Heading
  <2> QED
    BY <1>1, <1>10, <1>11, <2>1, ListingLength
<1>15. Occurrences(h, "MAST") = M
  <2>1. \A l \in 1 .. n : (h[l].sig = "MAST") = (t3Header[l].sig = "MAST")
    <3> TAKE l \in 1 .. n
    <3>1. CASE l = i
      BY <1>7, <1>9, <3>1
    <3>2. CASE l # i
      BY <1>8, <3>2
    <3> QED
      BY <3>1, <3>2
  <2> QED
    BY <1>1, <1>10, <2>1 DEF Occurrences, M
<1>16. \A l \in M : l # i => MasterAt(h, l) = MasterAt(t3Header, l)
  <2> TAKE l \in M
  <2> HAVE l # i
  <2>1. l \in 1 .. n /\ h[l] = t3Header[l]
    BY <1>2, <1>8
  <2>2. l < n => (h[l + 1].sig = "DATA") = (t3Header[l + 1].sig = "DATA")
                 /\ (h[l + 1].sig = "DATA" => h[l + 1] = t3Header[l + 1])
    <3> HAVE l < n
    <3>1. l + 1 \in 1 .. n
      BY <2>1
    <3>2. CASE l + 1 = i
      <4>1. h[l + 1].sig = "MAST" /\ t3Header[l + 1].sig = "MAST" /\ "MAST" # "DATA"
        BY <1>7, <1>9, <3>2
      <4> QED
        BY <4>1
    <3>3. CASE l + 1 # i
      <4>1. h[l + 1] = t3Header[l + 1]
        BY <1>8, <3>1, <3>3
      <4> QED
        BY <4>1
    <3> QED
      BY <3>2, <3>3
  <2>3. (IF l < n /\ h[l + 1].sig = "DATA" THEN h[l + 1].body ELSE 0)
        = (IF l < n /\ t3Header[l + 1].sig = "DATA" THEN t3Header[l + 1].body ELSE 0)
    <3>1. CASE l < n /\ t3Header[l + 1].sig = "DATA"
      <4>1. h[l + 1].sig = "DATA" /\ h[l + 1].body = t3Header[l + 1].body
        BY <2>2, <3>1
      <4> QED
        BY <3>1, <4>1
    <3>2. CASE ~ (l < n /\ t3Header[l + 1].sig = "DATA")
      <4>1. ~ (l < n /\ h[l + 1].sig = "DATA")
        BY <2>2, <3>2
      <4> QED
        BY <3>2, <4>1
    <3> QED
      BY <3>1, <3>2
  <2>4. h[l].body = t3Header[l].body
    BY <2>1
  <2> QED
    BY <1>14, <2>3, <2>4 DEF MasterAt
<1>17. MasterAt(h, i) = [name |-> new, size |-> MasterAt(t3Header, i).size]
  <2>1. i \in 1 .. n /\ h[i].body = new
    BY <1>2, <1>9
  <2>2. i < n => h[i + 1] = t3Header[i + 1]
    <3> HAVE i < n
    <3>1. i + 1 \in 1 .. n /\ i + 1 # i
      BY <2>1
    <3> QED
      BY <1>8, <3>1
  <2>3. (IF i < n /\ h[i + 1].sig = "DATA" THEN h[i + 1].body ELSE 0)
        = (IF i < n /\ t3Header[i + 1].sig = "DATA" THEN t3Header[i + 1].body ELSE 0)
    <3>1. CASE i < n /\ t3Header[i + 1].sig = "DATA"
      <4>1. h[i + 1].sig = "DATA" /\ h[i + 1].body = t3Header[i + 1].body
        BY <2>2, <3>1
      <4> QED
        BY <3>1, <4>1
    <3>2. CASE ~ (i < n /\ t3Header[i + 1].sig = "DATA")
      <4>1. ~ (i < n /\ h[i + 1].sig = "DATA")
        BY <2>2, <3>2
      <4> QED
        BY <3>2, <4>1
    <3> QED
      BY <3>1, <3>2
  <2>4. MasterAt(t3Header, i).size
        = (IF i < n /\ t3Header[i + 1].sig = "DATA" THEN t3Header[i + 1].body ELSE 0)
    BY <1>14 DEF MasterAt
  <2> QED
    BY <1>14, <2>1, <2>3, <2>4 DEF MasterAt
<1>18. /\ Masters(t3Header) = [k \in 1 .. c |-> MasterAt(t3Header, NthOf(M, k))]
       /\ \A k \in 1 .. c : NthOf(M, k) \in M
  BY <1>13, MastersAre DEF M
<1>19. Masters(h) = [k \in 1 .. c |-> MasterAt(h, NthOf(M, k))]
  BY <1>13, <1>15, MastersAre
<1>20. PICK r \in 1 .. c : NthOf(M, r) = i /\ \A k \in 1 .. c : k # r => NthOf(M, k) # i
  <2>1. /\ \A j \in 1 .. Cardinality(M) : NthOf(M, j) \in M /\ Rank(M, NthOf(M, j)) = j
        /\ \A k \in M : Rank(M, k) \in 1 .. Cardinality(M) /\ NthOf(M, Rank(M, k)) = k
    BY <1>2, NthFacts
  <2> QED
    BY <2>1 DEF c
<1> HIDE DEF c
<1>21. Masters(h) = [Masters(t3Header) EXCEPT ![r].name = new]
  <2> DEFINE was == Masters(t3Header)
             m == [was EXCEPT ![r].name = new]
  <2>1. was = [k \in 1 .. c |-> was[k]] /\ DOMAIN was = 1 .. c /\ \A k \in 1 .. c : was[k] = MasterAt(t3Header, NthOf(M, k))
    BY <1>18
  <2> HIDE DEF was
  <2>2. m = [k \in 1 .. c |-> m[k]] /\ \A k \in 1 .. c : k # r => m[k] = was[k]
    BY <2>1
  <2>3. m[r] = [name |-> new, size |-> was[r].size]
    <3>1. m[r] = [was[r] EXCEPT !.name = new]
      BY <2>1
    <3>2. was[r] = [name |-> was[r].name, size |-> was[r].size]
      BY <2>1 DEF MasterAt
    <3> QED
      BY <3>1, <3>2
  <2>4. \A k \in 1 .. c : MasterAt(h, NthOf(M, k)) = m[k]
    <3> HIDE DEF m
    <3> TAKE k \in 1 .. c
    <3>1. CASE k = r
      BY <1>17, <1>20, <2>1, <2>3, <3>1
    <3>2. CASE k # r
      BY <1>16, <1>18, <1>20, <2>1, <2>2, <3>2
    <3> QED
      BY <3>1, <3>2
  <2> HIDE DEF m
  <2>5. Masters(h) = m
    BY <1>19, <2>2, <2>4
  <2> QED
    BY <2>5 DEF m, was
<1>22. r \in DOMAIN Masters(t3Header)
  BY <1>18
<1> QED
  BY <1>12, <1>21, <1>22 DEF Renames

T3Action ==
  /\ IF Len(t3Records') = Len(t3Records) THEN t3Stored' = t3Stored
                                         ELSE t3Stored' = Len(t3Records')
  /\ LET old == Masters(t3Header)
         new == Masters(t3Header')
     IN  \/ new = old
         \/ \E m \in [name : T3Names, size : T3Sizes] :
              /\ new = Append(old, m)
              /\ \A i \in DOMAIN old : T3Fold[old[i].name] # T3Fold[m.name]
         \/ \E i \in DOMAIN old, n \in T3Names : new = [old EXCEPT ![i].name = n]

LEMMA T3Step ==
  ASSUME T3Inv, [T3Next]_t3Vars
  PROVE  T3Inv' /\ T3Action
<1>1. ASSUME t3Header' = t3Header, t3Records' = t3Records, t3Stored' = t3Stored
      PROVE  T3Inv' /\ T3Action
  BY <1>1 DEF T3Inv, T3Action
<1>2. ASSUME NEW type, NEW id, NEW subs, NEW deleted, Tes3Edit(type, id, subs, deleted)
      PROVE  T3Inv' /\ T3Action
  BY <1>2, EditKeeps DEF T3Action
<1>3. ASSUME NEW type, NEW subs, Tes3AddRecord(type, subs)
      PROVE  T3Inv' /\ T3Action
  BY <1>3, AddRecordStep DEF T3Action
<1>4. ASSUME NEW type, NEW ids, Tes3DeleteRecords(type, ids)
      PROVE  T3Inv' /\ T3Action
  BY <1>4, DeleteRecordsStep DEF T3Action
<1>5. ASSUME NEW name \in T3Names, NEW size \in T3Sizes, Tes3AddMaster(name, size)
      PROVE  T3Inv' /\ T3Action
  <2> DEFINE g == InsertAt(InsertAt(t3Header, MasterPosition, [sig |-> "MAST", body |-> name]),
                           MasterPosition + 1, [sig |-> "DATA", body |-> size])
  <2>1. t3Header' = IF IsMaster(name) THEN t3Header ELSE g
    BY <1>5 DEF Tes3AddMaster
  <2>2. t3Records' = t3Records /\ t3Stored' = t3Stored
    BY <1>5 DEF Tes3AddMaster
  <2>3. CASE IsMaster(name)
    BY <1>1, <2>1, <2>2, <2>3
  <2>4. CASE ~ IsMaster(name)
    <3>1. t3Header' = g
      BY <2>1, <2>4
    <3>2. /\ Heading(g)
          /\ Masters(g) = Append(Masters(t3Header), [name |-> name, size |-> size])
          /\ \A i \in DOMAIN Masters(t3Header) : T3Fold[Masters(t3Header)[i].name] # T3Fold[name]
      BY <2>4, AddMasterStep
    <3> HIDE DEF g
    <3>3. T3Inv'
      BY <2>2, <3>1, <3>2 DEF T3Inv
    <3>4. T3Action
      <4> DEFINE m == [name |-> name, size |-> size]
                 was == Masters(t3Header)
      <4>1. m \in [name : T3Names, size : T3Sizes] /\ m.name = name
        OBVIOUS
      <4>2. Masters(t3Header') = Append(was, m)
        BY <3>1, <3>2
      <4>3. \A i \in DOMAIN was : T3Fold[was[i].name] # T3Fold[m.name]
        BY <3>2
      <4> HIDE DEF m
      <4> QED
        BY <2>2, <4>1, <4>2, <4>3 DEF T3Action
    <3> QED
      BY <3>3, <3>4
  <2> QED
    BY <2>3, <2>4
<1>6. ASSUME NEW old \in T3Names, NEW new \in T3Names, Tes3RenameMaster(old, new)
      PROVE  T3Inv' /\ T3Action
  <2> DEFINE g == [t3Header EXCEPT ![Min({j \in Occurrences(t3Header, "MAST") :
                                            T3Fold[t3Header[j].body] = T3Fold[old]})].body = new]
  <2>1. t3Header' = g /\ t3Records' = t3Records /\ t3Stored' = t3Stored /\ IsMaster(old)
    BY <1>6 DEF Tes3RenameMaster
  <2>2. Renames(g, new)
    BY <2>1, RenameMasterStep
  <2> HIDE DEF g
  <2>3. T3Inv'
    BY <2>1, <2>2 DEF T3Inv, Renames
  <2>4. T3Action
    BY <2>1, <2>2 DEF T3Action, Renames
  <2> QED
    BY <2>3, <2>4
<1>7. CASE UNCHANGED t3Vars
  BY <1>1, <1>7 DEF t3Vars
<1>8. CASE T3Next
  <2> DEFINE Goal == T3Inv' /\ T3Action
  <2>1. ASSUME NEW type, NEW id, NEW sig, NEW n, NEW len, NEW body, Tes3SetSubrecord(type, id, sig, n, len, body)
        PROVE  Goal
    BY <1>2, <2>1 DEF Tes3SetSubrecord
  <2>2. ASSUME NEW type, NEW id, NEW sig, NEW n, NEW end, NEW body, Tes3PatchSubrecord(type, id, sig, n, end, body)
        PROVE  Goal
    BY <1>2, <2>2 DEF Tes3PatchSubrecord
  <2>3. ASSUME NEW type, NEW id, NEW sig, NEW n, Tes3DeleteSubrecord(type, id, sig, n)
        PROVE  Goal
    BY <1>2, <2>3 DEF Tes3DeleteSubrecord
  <2>4. ASSUME NEW type, NEW id, NEW sig, NEW where, NEW len, NEW body,
               Tes3InsertSubrecord(type, id, sig, where, len, body)
        PROVE  Goal
    BY <1>2, <2>4 DEF Tes3InsertSubrecord
  <2>5. ASSUME NEW type, NEW id, Tes3MarkDeleted(type, id)
        PROVE  Goal
    BY <1>2, <2>5 DEF Tes3MarkDeleted
  <2> HIDE DEF Goal
  <2> QED
    BY <1>3, <1>4, <1>5, <1>6, <1>8, <2>1, <2>2, <2>3, <2>4, <2>5, ZenonT(30) DEF T3Next, Goal
<1> QED
  BY <1>7, <1>8

\* HEDR's count of a Morrowind plugin is recomputed by the calls that change
\* how many records there are, and left as it was by all others.
THEOREM CountIsRecomputed == T3Spec => CountFollows
<1>1. T3Inv /\ [T3Next]_t3Vars => T3Inv' /\ T3Action
  BY T3Step
<1>2. T3Action => IF Len(t3Records') = Len(t3Records) THEN t3Stored' = t3Stored
                                                    ELSE t3Stored' = Len(t3Records')
  BY DEF T3Action
<1> QED
  BY T3Start, <1>1, <1>2, PTL DEF T3Spec, CountFollows

\* A call leaves the master list of a Morrowind plugin as it is, puts one
\* master of a new name behind the others, or renames one in its place: what
\* refers to a master by its place goes on referring to it.
THEOREM MastersKeepTheirPlace == T3Spec => MasterListKept
<1>1. T3Inv /\ [T3Next]_t3Vars => T3Inv' /\ T3Action
  BY T3Step
<1>2. T3Action =>
        LET old == Masters(t3Header)
            new == Masters(t3Header')
        IN  \/ new = old
            \/ \E m \in [name : T3Names, size : T3Sizes] :
                 /\ new = Append(old, m)
                 /\ \A i \in DOMAIN old : T3Fold[old[i].name] # T3Fold[m.name]
            \/ \E i \in DOMAIN old, n \in T3Names : new = [old EXCEPT ![i].name = n]
  BY DEF T3Action
<1> QED
  BY T3Start, <1>1, <1>2, PTL DEF T3Spec, MasterListKept

-----------------------------------------------------------------------------
(* The fields of a record of the older engine.                             *)

LgField(f) == f = FieldOf(f) /\ f.sig # "XXXX"
LgFields(s) == Listing(s) /\ \A k \in DOMAIN s : LgField(s[k])

\* What a list has, and what is about to be put into it.
With(s, e) == {s[k] : k \in DOMAIN s} \cup {e}

LEMMA FieldsIn ==
  ASSUME NEW X, NEW s \in Seq(X), \A x \in X : LgField(x)
  PROVE  LgFields(s)
<1>1. Listing(s)
  BY SeqListing
<1>2. \A k \in DOMAIN s : s[k] \in X
  OBVIOUS
<1> QED
  BY <1>1, <1>2 DEF LgFields

LEMMA FieldsWith ==
  ASSUME NEW s, LgFields(s), NEW e, LgField(e)
  PROVE  s \in Seq(With(s, e)) /\ e \in With(s, e) /\ \A x \in With(s, e) : LgField(x)
<1>1. PICK n \in Nat : s \in [1 .. n -> {s[k] : k \in DOMAIN s}]
  BY SeqDef DEF LgFields, Listing
<1>2. s \in [1 .. n -> With(s, e)]
  BY <1>1 DEF With
<1>3. s \in Seq(With(s, e))
  BY <1>2, SeqDef
<1>4. \A x \in With(s, e) : LgField(x)
  BY DEF With, LgFields
<1> QED
  BY <1>3, <1>4 DEF With

\* Every edit of a list of fields leaves one.
LEMMA SetLeavesFields ==
  ASSUME NEW s, LgFields(s), NEW k \in DOMAIN s, NEW e, LgField(e)
  PROVE  LgFields([s EXCEPT ![k] = e])
<1> DEFINE X == With(s, e)
           t == [s EXCEPT ![k] = e]
<1>1. s \in Seq(X) /\ e \in X /\ \A x \in X : LgField(x)
  BY FieldsWith
<1> HIDE DEF X
<1>2. k \in 1 .. Len(s)
  BY <1>1
<1>3. t \in Seq(X)
  BY <1>1, <1>2, ExceptSeq
<1> HIDE DEF t
<1>4. LgFields(t)
  BY <1>1, <1>3, FieldsIn
<1> QED
  BY <1>4 DEF t

LEMMA InsertLeavesFields ==
  ASSUME NEW s, LgFields(s), NEW i \in 1 .. (Len(s) + 1), NEW e, LgField(e)
  PROVE  /\ LgFields(InsertAt(s, i, e))
         /\ DOMAIN InsertAt(s, i, e) = 1 .. (Len(s) + 1)
<1> DEFINE X == With(s, e)
           t == InsertAt(s, i, e)
<1>1. s \in Seq(X) /\ e \in X /\ \A x \in X : LgField(x)
  BY FieldsWith
<1> HIDE DEF X
<1>2. t \in Seq(X) /\ Inserted(t, s, i, e)
  BY <1>1, InsertAtFacts
<1> HIDE DEF t
<1>3. LgFields(t)
  BY <1>1, <1>2, FieldsIn
<1>4. DOMAIN t = 1 .. (Len(s) + 1)
  BY <1>2 DEF Inserted
<1> QED
  BY <1>3, <1>4 DEF t

LEMMA RemoveLeavesFields ==
  ASSUME NEW s, LgFields(s), NEW i \in DOMAIN s
  PROVE  LgFields(RemoveAt(s, i))
<1> DEFINE X == {s[k] : k \in DOMAIN s}
           t == RemoveAt(s, i)
<1>1. s \in Seq(X) /\ \A x \in X : LgField(x)
  BY DEF LgFields, Listing
<1> HIDE DEF X
<1>2. i \in 1 .. Len(s)
  BY <1>1
<1>3. t \in Seq(X)
  BY <1>1, <1>2, RemoveAtFacts
<1> HIDE DEF t
<1>4. LgFields(t)
  BY <1>1, <1>3, FieldsIn
<1> QED
  BY <1>4 DEF t

LEMMA AppendLeavesFields ==
  ASSUME NEW s, LgFields(s), NEW e, LgField(e)
  PROVE  LgFields(Append(s, e))
<1> DEFINE X == With(s, e)
           t == Append(s, e)
<1>1. s \in Seq(X) /\ e \in X /\ \A x \in X : LgField(x)
  BY FieldsWith
<1> HIDE DEF X
<1>2. t \in Seq(X)
  BY <1>1, AppendProperties
<1> HIDE DEF t
<1>3. LgFields(t)
  BY <1>1, <1>2, FieldsIn
<1> QED
  BY <1>3 DEF t

LEMMA NthOfFields ==
  ASSUME NEW s, LgFields(s), NEW sig, NEW n \in Nat, HasNth(s, sig, n)
  PROVE  /\ NthIndex(s, sig, n) \in DOMAIN s
         /\ LgField(s[NthIndex(s, sig, n)])
<1> DEFINE X == {s[k] : k \in DOMAIN s}
           i == NthIndex(s, sig, n)
<1>1. s \in Seq(X)
  BY DEF LgFields, Listing
<1> HIDE DEF X
<1>2. i \in Occurrences(s, sig)
  BY <1>1, NthIsOccurrence
<1> HIDE DEF i
<1>3. i \in DOMAIN s
  BY <1>2 DEF Occurrences
<1>4. LgField(s[i])
  BY <1>3 DEF LgFields
<1> QED
  BY <1>3, <1>4 DEF i

-----------------------------------------------------------------------------
(* The stream of a list of fields.                                         *)

\* The entries that are fields, and not the sizes of others.
Kept(stream) == {i \in DOMAIN stream : ~IsOverride(stream[i])}

\* The stream of the first m fields: it is cut up where it was put together,
\* no override is left open at its end, and the fields are those.
StreamOf(stream, fields, m) ==
  /\ Listing(stream)
  /\ WellFormed(stream)
  /\ Len(stream) > 0 => ~IsOverride(stream[Len(stream)])
  /\ Cardinality(Kept(stream)) = m
  /\ \A j \in 1 .. m : FieldOf(stream[NthOf(Kept(stream), j)]) = fields[j]

\* One field more at the end of a stream, behind at most one override.
FieldBehind(t, stream, q, f) ==
  /\ Listing(t)
  /\ DOMAIN t = 1 .. q
  /\ \A i \in 1 .. Len(stream) : t[i] = stream[i]
  /\ ~IsOverride(t[q]) /\ FieldOf(t[q]) = f
  /\ \/ /\ q = Len(stream) + 1
        /\ t[q].len = t[q].size
     \/ /\ q = Len(stream) + 2
        /\ IsOverride(t[q - 1]) /\ t[q - 1].size = OverrideLen
        /\ t[q].len = t[q - 1].body

LEMMA StreamGrows ==
  ASSUME NEW stream, NEW fields, NEW m \in Nat, StreamOf(stream, fields, m),
         NEW t, NEW q \in Nat, FieldBehind(t, stream, q, fields[m + 1])
  PROVE  StreamOf(t, fields, m + 1)
<1> DEFINE S == Kept(stream)
           n == Len(stream)
<1>1. PICK k \in Nat : k = n /\ DOMAIN stream = 1 .. k
  <2>1. stream \in Seq({stream[i] : i \in DOMAIN stream})
    BY DEF StreamOf, Listing
  <2> DEFINE X == {stream[i] : i \in DOMAIN stream}
  <2> HIDE DEF X
  <2>2. stream \in Seq(X)
    BY <2>1 DEF X
  <2> QED
    BY <2>2
<1>2. n < q /\ q \in {n + 1, n + 2}
  BY <1>1 DEF FieldBehind
<1>3. Len(t) = q
  BY ListingLength DEF FieldBehind
<1>4. Kept(t) = S \cup {q}
  <2>1. \A i \in 1 .. k : i \in Kept(t) <=> i \in S
    BY <1>1, <1>2 DEF FieldBehind, Kept
  <2>2. q \in Kept(t)
    BY <1>1, <1>2 DEF FieldBehind, Kept
  <2>3. \A i \in k + 1 .. q : i \in Kept(t) => i = q
    BY <1>1, <1>2 DEF FieldBehind, Kept
  <2>4. Kept(t) \subseteq 1 .. q /\ S \subseteq 1 .. k
    BY <1>1 DEF FieldBehind, Kept
  <2>5. \A i \in 1 .. q : i \in 1 .. k \/ i \in k + 1 .. q
    BY <1>1
  <2> HIDE DEF S
  <2> QED
    BY <2>1, <2>2, <2>3, <2>4, <2>5
<1>5. S \subseteq 1 .. k
  BY <1>1 DEF Kept
<1>6. IsLastOf(S, q)
  BY <1>1, <1>2, <1>5, BehindAll
<1>7. Cardinality(S) = m
  BY DEF StreamOf
<1>8. \A j \in 1 .. m : FieldOf(t[NthOf(Kept(t), j)]) = fields[j]
  <2> TAKE j \in 1 .. m
  <2>1. NthOf(S, j) \in S
    BY <1>1, <1>5, <1>7, NthFacts
  <2>2. NthOf(Kept(t), j) = NthOf(S, j)
    BY <1>4, <1>6, <1>7 DEF IsLastOf
  <2>3. t[NthOf(S, j)] = stream[NthOf(S, j)]
    BY <1>1, <1>5, <2>1 DEF FieldBehind
  <2> QED
    BY <2>2, <2>3 DEF StreamOf
<1>9. FieldOf(t[NthOf(Kept(t), m + 1)]) = fields[m + 1]
  <2>1. NthOf(Kept(t), m + 1) = q
    BY <1>4, <1>6, <1>7 DEF IsLastOf
  <2> QED
    BY <2>1 DEF FieldBehind
<1>10. Cardinality(Kept(t)) = m + 1
  BY <1>4, <1>6, <1>7 DEF IsLastOf
<1>11. WellFormed(t)
  <2> SUFFICES ASSUME NEW i \in DOMAIN t
               PROVE  IF IsOverride(t[i])
                      THEN t[i].size = OverrideLen /\ i < Len(t)
                      ELSE t[i].len = IF i > 1 /\ IsOverride(t[i - 1])
                                      THEN t[i - 1].body ELSE t[i].size
    BY DEF WellFormed
  <2>1. i \in 1 .. q
    BY DEF FieldBehind
  <2>2. CASE i \in 1 .. k
    <3>1. t[i] = stream[i] /\ (i > 1 => t[i - 1] = stream[i - 1])
      BY <1>1, <2>2 DEF FieldBehind
    <3>2. i < k => i < q
      BY <1>1, <1>2, <2>2
    <3>3. IF IsOverride(stream[i])
          THEN stream[i].size = OverrideLen /\ i < k
          ELSE stream[i].len = IF i > 1 /\ IsOverride(stream[i - 1])
                               THEN stream[i - 1].body ELSE stream[i].size
      BY <1>1, <2>2 DEF StreamOf, WellFormed
    <3> QED
      BY <1>3, <3>1, <3>2, <3>3
  <2>3. CASE i = q
    <3>1. CASE q = n + 1
      <4>1. i > 1 => t[i - 1] = stream[k] /\ ~IsOverride(stream[k])
        BY <1>1, <2>3, <3>1 DEF FieldBehind, StreamOf
      <4> QED
        BY <1>1, <2>3, <3>1, <4>1 DEF FieldBehind
    <3>2. CASE q = n + 2
      BY <1>1, <2>3, <3>2 DEF FieldBehind
    <3> QED
      BY <1>2, <3>1, <3>2
  <2>4. CASE i = k + 1 /\ i # q
    BY <1>1, <1>2, <1>3, <2>4 DEF FieldBehind
  <2> QED
    BY <1>1, <1>2, <2>1, <2>2, <2>3, <2>4
<1>12. Listing(t) /\ ~IsOverride(t[Len(t)])
  BY <1>3 DEF FieldBehind
<1>13. \A j \in 1 .. m + 1 : FieldOf(t[NthOf(Kept(t), j)]) = fields[j]
  BY <1>8, <1>9
<1> QED
  BY <1>10, <1>11, <1>12, <1>13 DEF StreamOf

\* What pack_field puts behind a stream.
LEMMA PackBehind ==
  ASSUME NEW stream, Listing(stream), NEW f, LgField(f)
  PROVE  \E q \in Nat : FieldBehind(stream \o PackField(f), stream, q, f)
<1> DEFINE o == [id |-> 0, sig |-> "XXXX", size |-> OverrideLen, len |-> OverrideLen, body |-> f.len]
           long == [id |-> f.id, sig |-> f.sig, size |-> 0, len |-> f.len, body |-> f.body]
           short == [id |-> f.id, sig |-> f.sig, size |-> f.len, len |-> f.len, body |-> f.body]
           X == {stream[k] : k \in DOMAIN stream} \cup {o, long, short}
           p == PackField(f)
           t == stream \o p
<1>1. PICK n \in Nat : stream \in [1 .. n -> {stream[k] : k \in DOMAIN stream}]
  BY SeqDef DEF Listing
<1>2. stream \in Seq(X)
  <2>1. stream \in [1 .. n -> X]
    BY <1>1
  <2> QED
    BY <2>1, SeqDef
<1>3. FieldOf(long) = f /\ FieldOf(short) = f /\ f.sig # "XXXX"
  BY DEF LgField, FieldOf
<1>4. o \in X /\ long \in X /\ short \in X
  OBVIOUS
<1>5. /\ IsOverride(o) /\ o.size = OverrideLen /\ o.body = f.len
      /\ ~IsOverride(long) /\ long.len = f.len
      /\ ~IsOverride(short) /\ short.len = short.size
  BY <1>3 DEF IsOverride
<1>6. p = IF f.len > MaxU16 THEN <<o, long>> ELSE <<short>>
  BY DEF PackField
<1> HIDE DEF o, long, short, X, p
<1>7. Len(stream) = n
  BY <1>1, <1>2
<1>8. CASE f.len > MaxU16
  <2>1. p = <<o, long>>
    BY <1>6, <1>8
  <2>2. p \in Seq(X) /\ Len(p) = 2 /\ p[1] = o /\ p[2] = long
    BY <1>4, <2>1
  <2>3. /\ t \in Seq(X)
        /\ Len(t) = n + 2
        /\ \A i \in 1 .. n + 2 : t[i] = IF i <= n THEN stream[i] ELSE p[i - n]
    <3>1. t \in Seq(X)
      BY <1>2, <2>2, ConcatProperties
    <3>2. Len(t) = Len(stream) + Len(p)
      BY <1>2, <2>2, ConcatProperties
    <3>3. \A i \in 1 .. Len(stream) + Len(p) :
            t[i] = IF i <= Len(stream) THEN stream[i] ELSE p[i - Len(stream)]
      BY <1>2, <2>2, ConcatProperties
    <3> HIDE DEF t
    <3> QED
      BY <1>7, <2>2, <3>1, <3>2, <3>3
  <2> HIDE DEF t
  <2>4. DOMAIN t = 1 .. n + 2 /\ Listing(t)
    BY <2>3, SeqListing
  <2>5. \A i \in 1 .. n : t[i] = stream[i]
    BY <2>3
  <2>6. t[n + 1] = o /\ t[n + 2] = long
    BY <2>2, <2>3
  <2>7. FieldBehind(t, stream, n + 2, f)
    BY <1>3, <1>5, <1>7, <2>4, <2>5, <2>6 DEF FieldBehind
  <2> QED
    BY <2>7 DEF t, p
<1>9. CASE ~(f.len > MaxU16)
  <2>1. p = <<short>>
    BY <1>6, <1>9
  <2>2. p \in Seq(X) /\ Len(p) = 1 /\ p[1] = short
    BY <1>4, <2>1
  <2>3. /\ t \in Seq(X)
        /\ Len(t) = n + 1
        /\ \A i \in 1 .. n + 1 : t[i] = IF i <= n THEN stream[i] ELSE p[i - n]
    <3>1. t \in Seq(X)
      BY <1>2, <2>2, ConcatProperties
    <3>2. Len(t) = Len(stream) + Len(p)
      BY <1>2, <2>2, ConcatProperties
    <3>3. \A i \in 1 .. Len(stream) + Len(p) :
            t[i] = IF i <= Len(stream) THEN stream[i] ELSE p[i - Len(stream)]
      BY <1>2, <2>2, ConcatProperties
    <3> HIDE DEF t
    <3> QED
      BY <1>7, <2>2, <3>1, <3>2, <3>3
  <2> HIDE DEF t
  <2>4. DOMAIN t = 1 .. n + 1 /\ Listing(t)
    BY <2>3, SeqListing
  <2>5. \A i \in 1 .. n : t[i] = stream[i]
    BY <2>3
  <2>6. t[n + 1] = short
    BY <2>2, <2>3
  <2>7. FieldBehind(t, stream, n + 1, f)
    BY <1>3, <1>5, <1>7, <2>4, <2>5, <2>6 DEF FieldBehind
  <2> QED
    BY <2>7 DEF t, p
<1> QED
  BY <1>8, <1>9

LEMMA PackIsList ==
  ASSUME NEW f
  PROVE  Listing(PackField(f))
<1> DEFINE o == [id |-> 0, sig |-> "XXXX", size |-> OverrideLen, len |-> OverrideLen, body |-> f.len]
           long == [id |-> f.id, sig |-> f.sig, size |-> 0, len |-> f.len, body |-> f.body]
           short == [id |-> f.id, sig |-> f.sig, size |-> f.len, len |-> f.len, body |-> f.body]
<1>1. PackField(f) = IF f.len > MaxU16 THEN <<o, long>> ELSE <<short>>
  BY DEF PackField
<1> HIDE DEF o, long, short
<1>2. <<o, long>> \in Seq({o, long}) /\ <<short>> \in Seq({short})
  OBVIOUS
<1>3. Listing(<<o, long>>) /\ Listing(<<short>>)
  BY <1>2, SeqListing
<1> QED
  BY <1>1, <1>3

\* The streams of the beginnings of a list: each is the one before, and what
\* pack_field puts behind.
Flattened(g, seqs, m) ==
  g = [i \in 1 .. m |-> IF i = 1 THEN seqs[i] ELSE g[i - 1] \o seqs[i]]

LEMMA FlattenedIs ==
  ASSUME NEW seqs, NEW m \in Nat
  PROVE  \E g : Flattened(g, seqs, m)
<1> DEFINE Bad == {k \in Nat : ~ \E g : Flattened(g, seqs, k)}
<1> SUFFICES ASSUME Bad # {} PROVE FALSE
  OBVIOUS
<1>1. PICK k \in Bad : \A l \in Bad : k <= l
  BY LeastNatural
<1>2. k # 0
  <2>1. Flattened([i \in 1 .. 0 |-> 0], seqs, 0)
    BY DEF Flattened
  <2> QED
    BY <2>1
<1>3. k \in Nat \ {0} /\ k - 1 \in Nat /\ k - 1 \notin Bad
  BY <1>1, <1>2
<1>4. \E g : Flattened(g, seqs, k - 1)
  BY <1>3
<1> DEFINE g == CHOOSE h : Flattened(h, seqs, k - 1)
<1>5. Flattened(g, seqs, k - 1)
  BY <1>4
<1> HIDE DEF g, Bad
<1> DEFINE last == IF k = 1 THEN seqs[k] ELSE g[k - 1] \o seqs[k]
           h == [i \in 1 .. k |-> IF i < k THEN g[i] ELSE last]
           r == [i \in 1 .. k |-> IF i = 1 THEN seqs[i] ELSE h[i - 1] \o seqs[i]]
<1>6. \A i \in 1 .. k : h[i] = r[i]
  <2> TAKE i \in 1 .. k
  <2>1. CASE i < k
    <3>1. i \in 1 .. k - 1
      BY <1>3, <2>1
    <3>2. g[i] = IF i = 1 THEN seqs[i] ELSE g[i - 1] \o seqs[i]
      BY <3>1, <1>5 DEF Flattened
    <3>3. i # 1 => h[i - 1] = g[i - 1]
      BY <1>3, <3>1
    <3> QED
      BY <2>1, <3>2, <3>3
  <2>2. CASE i = k
    <3>1. i # 1 => h[i - 1] = g[i - 1]
      BY <1>3, <2>2
    <3> QED
      BY <2>2, <3>1
  <2> QED
    BY <1>3, <2>1, <2>2
<1>7. h = r
  BY <1>6
<1>8. Flattened(h, seqs, k)
  BY <1>7 DEF Flattened
<1> QED
  BY <1>1, <1>8 DEF Bad

\* A record can be read whose fields were packed, and has those.
LEMMA PackReads ==
  ASSUME NEW fields, LgFields(fields)
  PROVE  WellFormed(PackFields(fields)) /\ ParseFields(PackFields(fields)) = fields
<1> DEFINE seqs == [i \in DOMAIN fields |-> PackField(fields[i])]
           stream == PackFields(fields)
<1>1. PICK n \in Nat : fields \in [1 .. n -> {fields[k] : k \in DOMAIN fields}]
  BY SeqDef DEF LgFields, Listing
<1>2. DOMAIN fields = 1 .. n /\ DOMAIN seqs = 1 .. n /\ fields = [j \in 1 .. n |-> fields[j]]
  BY <1>1
<1>3. Len(seqs) = n
  <2>1. Listing(seqs)
    BY <1>2, SeqDef DEF Listing
  <2> HIDE DEF seqs
  <2> QED
    BY <1>2, <2>1, ListingLength
<1>4. \A i \in 1 .. n : seqs[i] = PackField(fields[i])
  BY <1>2
<1>5. StreamOf(<<>>, fields, 0)
  <2>1. Listing(<<>>)
    BY EmptySeq, SeqListing
  <2>2. Kept(<<>>) = {}
    BY DEF Kept
  <2>3. WellFormed(<<>>)
    BY DEF WellFormed
  <2> QED
    BY <2>1, <2>2, <2>3, FS_EmptySet DEF StreamOf
<1>6. StreamOf(stream, fields, n)
  <2>1. CASE n = 0
    <3>1. seqs = <<>>
      BY <1>2, <2>1
    <3>2. stream = <<>>
      BY <1>3, <2>1, <3>1 DEF PackFields, FlattenSeq
    <3> QED
      BY <1>5, <2>1, <3>2
  <2>2. CASE n # 0
    <3> DEFINE g == CHOOSE h : h = [i \in 1 .. Len(seqs) |-> IF i = 1 THEN seqs[i] ELSE h[i - 1] \o seqs[i]]
    <3>1. stream = g[Len(seqs)]
      BY <1>3, <2>2 DEF PackFields, FlattenSeq
    <3> HIDE DEF seqs, stream
    <3>2. \E h : h = [i \in 1 .. Len(seqs) |-> IF i = 1 THEN seqs[i] ELSE h[i - 1] \o seqs[i]]
      BY <1>3, FlattenedIs DEF Flattened
    <3>3. g = [i \in 1 .. n |-> IF i = 1 THEN seqs[i] ELSE g[i - 1] \o seqs[i]]
      BY <1>3, <3>2
    <3> HIDE DEF g
    <3>4. \A i \in 1 .. n : g[i] = IF i = 1 THEN seqs[i] ELSE g[i - 1] \o seqs[i]
      BY <3>3
    <3> DEFINE Bad == {i \in 1 .. n : ~StreamOf(g[i], fields, i)}
    <3>5. Bad = {}
      <4> SUFFICES ASSUME Bad # {} PROVE FALSE
        OBVIOUS
      <4>0. Bad \subseteq Nat
        OBVIOUS
      <4>1. PICK k \in Bad : \A l \in Bad : k <= l
        BY <4>0, LeastNatural
      <4> DEFINE before == IF k = 1 THEN <<>> ELSE g[k - 1]
      <4>2. StreamOf(before, fields, k - 1)
        <5>1. CASE k = 1
          BY <1>5, <5>1
        <5>2. CASE k # 1
          <6>1. k - 1 \in 1 .. n /\ k - 1 \notin Bad
            BY <4>1, <5>2
          <6> QED
            BY <5>2, <6>1
        <5> QED
          BY <5>1, <5>2
      <4>3. k \in 1 .. n
        OBVIOUS
      <4>4. LgField(fields[k])
        BY <1>2, <4>3 DEF LgFields
      <4>5. Listing(before)
        BY <4>2 DEF StreamOf
      <4>6. g[k] = before \o PackField(fields[k])
        <5>1. CASE k = 1
          <6> DEFINE p == PackField(fields[k])
                     X == {p[i] : i \in DOMAIN p}
          <6>1. Listing(p)
            BY PackIsList
          <6>2. p \in Seq(X)
            BY <6>1 DEF Listing
          <6> HIDE DEF p, X
          <6>3. <<>> \o p = p
            BY <6>2, ConcatEmptySeq
          <6> QED
            BY <1>4, <3>4, <4>3, <5>1, <6>3 DEF p
        <5>2. CASE k # 1
          BY <1>4, <3>4, <4>3, <5>2
        <5> QED
          BY <5>1, <5>2
      <4> HIDE DEF before
      <4>7. PICK q \in Nat : FieldBehind(g[k], before, q, fields[k])
        BY <4>4, <4>5, <4>6, PackBehind
      <4>8. k - 1 \in Nat /\ (k - 1) + 1 = k
        BY <4>3
      <4>9. StreamOf(g[k], fields, k)
        BY <4>2, <4>7, <4>8, StreamGrows
      <4> QED
        BY <4>9
    <3> QED
      BY <1>3, <2>2, <3>1, <3>5
  <2> QED
    BY <2>1, <2>2
<1> HIDE DEF stream
<1>7. ParseFields(stream) = fields
  <2> DEFINE all == [i \in DOMAIN stream |-> FieldOf(stream[i])]
             S == Kept(stream)
  <2>1. ParseFields(stream) = [j \in 1 .. n |-> all[NthOf(S, j)]]
    BY <1>6 DEF ParseFields, Sublist, StreamOf, Kept
  <2>2. \A j \in 1 .. n : all[NthOf(S, j)] = fields[j]
    <3> TAKE j \in 1 .. n
    <3>1. PICK k \in Nat : DOMAIN stream = 1 .. k
      BY <1>6, SeqDef DEF StreamOf, Listing
    <3>2. S \subseteq 1 .. k
      BY <3>1 DEF Kept
    <3>3. NthOf(S, j) \in S
      BY <1>6, <3>2, NthFacts DEF StreamOf
    <3>4. NthOf(S, j) \in DOMAIN stream
      BY <3>3 DEF Kept
    <3> QED
      BY <1>6, <3>4 DEF StreamOf
  <2> HIDE DEF all, S
  <2> QED
    BY <1>2, <2>1, <2>2
<1> QED
  BY <1>6, <1>7 DEF StreamOf, stream

-----------------------------------------------------------------------------
(* The tools of the older engine.                                          *)

\* Unless the record is tainted, it reads back as what the calls amount to.
LgInv ==
  /\ lgTaint \in BOOLEAN
  /\ ~lgTaint => Readable /\ ReadFields = lgWanted /\ LgFields(lgWanted)

LEMMA FieldsLength ==
  ASSUME NEW s, LgFields(s)
  PROVE  Len(s) \in Nat /\ DOMAIN s = 1 .. Len(s)
<1> DEFINE X == {s[k] : k \in DOMAIN s}
<1>1. s \in Seq(X)
  BY DEF LgFields, Listing
<1> HIDE DEF X
<1> QED
  BY <1>1

LEMMA GivenFields == \A s \in LgRecords \cup {Donor} : LgFields(s)
<1> DEFINE X == [id : Nat, sig : STRING \ {"XXXX"}, len : Nat, body : Nat]
<1>1. \A s \in LgRecords \cup {Donor} : s \in Seq(X)
  BY LegacyFieldsAssumption
<1>2. \A x \in X : LgField(x)
  BY DEF LgField, FieldOf
<1> HIDE DEF X
<1> QED
  BY <1>1, <1>2, FieldsIn

LEMMA MadeField ==
  ASSUME NEW id, NEW sig, sig # "XXXX", NEW len, NEW body
  PROVE  LgField([id |-> id, sig |-> sig, len |-> len, body |-> body])
BY DEF LgField, FieldOf

LEMMA ChangedField ==
  ASSUME NEW f, LgField(f), NEW len, NEW body
  PROVE  LgField([f EXCEPT !.len = len, !.body = body])
<1> DEFINE g == [id |-> f.id, sig |-> f.sig, len |-> f.len, body |-> f.body]
           h == [id |-> f.id, sig |-> f.sig, len |-> len, body |-> body]
<1>1. f = g /\ f.sig # "XXXX"
  BY DEF LgField, FieldOf
<1>2. [g EXCEPT !.len = len, !.body = body] = h
  <2> DEFINE e == [g EXCEPT !.len = len, !.body = body]
             K == {"id", "sig", "len", "body"}
  <2>1. /\ e["id"] = h["id"] /\ e["sig"] = h["sig"]
        /\ e["len"] = h["len"] /\ e["body"] = h["body"]
    OBVIOUS
  <2>2. e = [x \in K |-> e[x]] /\ h = [x \in K |-> h[x]]
    OBVIOUS
  <2> HIDE DEF e, h
  <2>3. \A x \in K : e[x] = h[x]
    BY <2>1
  <2> HIDE DEF K
  <2>4. e = h
    BY <2>2, <2>3
  <2> QED
    BY <2>4 DEF e
<1>3. LgField(h)
  BY <1>1, MadeField
<1> HIDE DEF g, h
<1>4. [f EXCEPT !.len = len, !.body = body] = [g EXCEPT !.len = len, !.body = body]
  BY <1>1
<1> QED
  BY <1>2, <1>3, <1>4

\* A tool that packs what the calls amount to leaves a record that reads back.
LEMMA StoredReads ==
  ASSUME NEW fields, LgFields(fields), StoreFields(fields), lgWanted' = fields,
         lgTaint' \in BOOLEAN
  PROVE  LgInv'
<1>1. WellFormed(PackFields(fields)) /\ ParseFields(PackFields(fields)) = fields
  BY PackReads
<1>2. lgStream' = PackFields(fields) /\ lgStored' = "plain" /\ "compressed" \notin lgFlags'
  BY DEF StoreFields
<1> QED
  BY <1>1, <1>2 DEF LgInv, Readable, IsCompressed, ReadFields

LEMMA LgInitReads == LgInit => LgInv
<1> SUFFICES ASSUME NEW start \in LgStarts, LgInitFrom(start) PROVE LgInv
  BY DEF LgInit
<1>1. LgFields(lgWanted)
  BY GivenFields DEF LgStarts, LgInitFrom
<1>2. WellFormed(PackFields(lgWanted)) /\ ParseFields(PackFields(lgWanted)) = lgWanted
  BY <1>1, PackReads
<1>3. lgStream = PackFields(lgWanted) /\ lgTaint = FALSE
  BY DEF LgInitFrom
<1>4. IsCompressed <=> lgStored = "zlib"
  BY DEF LgInitFrom, IsCompressed
<1> QED
  BY <1>1, <1>2, <1>3, <1>4 DEF LgInv, Readable, ReadFields

LEMMA LgSetStep ==
  ASSUME LgInv, ~lgTaint, NEW sig, NEW n \in Nat, NEW len, NEW body,
         LgSetSubrecord(sig, n, len, body)
  PROVE  LgInv'
<1> DEFINE i == NthIndex(lgWanted, sig, n)
           f == lgWanted[i]
           new == [f EXCEPT !.len = len, !.body = body]
           t == [lgWanted EXCEPT ![i] = new]
<1>1. ReadFields = lgWanted /\ LgFields(lgWanted)
  BY DEF LgInv
<1>2. HasNth(lgWanted, sig, n)
  BY <1>1 DEF LgSetSubrecord, LgNth
<1>3. StoreFields(t) /\ lgWanted' = t
  BY <1>1 DEF LgSetSubrecord, LgEdit, SetNth
<1>4. lgTaint' \in BOOLEAN
  BY DEF LgSetSubrecord, LgInv
<1>5. i \in DOMAIN lgWanted /\ LgField(lgWanted[i])
  BY <1>1, <1>2, NthOfFields
<1> HIDE DEF i
<1> HIDE DEF f
<1>6. LgField(new)
  BY <1>5, ChangedField DEF f
<1> HIDE DEF new
<1>7. LgFields(t)
  BY <1>1, <1>5, <1>6, SetLeavesFields
<1> HIDE DEF t
<1> QED
  BY <1>3, <1>4, <1>7, StoredReads

LEMMA LgPatchStep ==
  ASSUME LgInv, ~lgTaint, NEW sig, NEW n \in Nat, NEW end, NEW body,
         LgPatchSubrecord(sig, n, end, body)
  PROVE  LgInv'
<1> DEFINE i == NthIndex(lgWanted, sig, n)
           new == [lgWanted[i] EXCEPT !.body = body]
           t == [lgWanted EXCEPT ![i] = new]
<1>1. ReadFields = lgWanted /\ LgFields(lgWanted)
  BY DEF LgInv
<1>2. HasNth(lgWanted, sig, n)
  BY <1>1 DEF LgPatchSubrecord, LgNth
<1>3. StoreFields(t) /\ lgWanted' = t
  BY <1>1 DEF LgPatchSubrecord, LgEdit, SetNth
<1>4. lgTaint' \in BOOLEAN
  BY DEF LgPatchSubrecord, LgInv
<1>5. i \in DOMAIN lgWanted /\ LgField(lgWanted[i])
  BY <1>1, <1>2, NthOfFields
<1> HIDE DEF i
<1>6. LgField(new)
  BY <1>5 DEF LgField, FieldOf
<1> HIDE DEF new
<1>7. LgFields(t)
  BY <1>1, <1>5, <1>6, SetLeavesFields
<1> HIDE DEF t
<1> QED
  BY <1>3, <1>4, <1>7, StoredReads

LEMMA LgInsertStep ==
  ASSUME LgInv, ~lgTaint, ~lgTaint', NEW sig, NEW where, NEW len, NEW body,
         where.at \in {"after", "before", "index", "end"},
         LgInsertSubrecord(sig, where, len, body)
  PROVE  LgInv'
<1> DEFINE new == [id |-> 100 + lgInserted, sig |-> sig, len |-> len, body |-> body]
           i == InsertPosition(lgWanted, where)
           t == InsertAt(lgWanted, i, new)
<1>1. ReadFields = lgWanted /\ LgFields(lgWanted)
  BY DEF LgInv
<1>2. HasPlace(lgWanted, where) /\ lgTaint' = (lgTaint \/ sig = "XXXX")
  BY <1>1 DEF LgInsertSubrecord
<1>3. StoreFields(t) /\ lgWanted' = t
  BY <1>1 DEF LgInsertSubrecord, LgEdit, InsertField
<1>4. lgTaint' \in BOOLEAN /\ sig # "XXXX"
  BY <1>2
<1>5. LgField(new)
  BY <1>4, MadeField
<1>6. i \in 1 .. (Len(lgWanted) + 1)
  <2>1. lgWanted \in Seq({lgWanted[k] : k \in DOMAIN lgWanted})
    BY <1>1 DEF LgFields, Listing
  <2> QED
    BY <1>2, <2>1, PlaceFits
<1> HIDE DEF new, i
<1>7. LgFields(t)
  BY <1>1, <1>5, <1>6, InsertLeavesFields
<1> HIDE DEF t
<1> QED
  BY <1>3, <1>4, <1>7, StoredReads

LEMMA LgDeleteStep ==
  ASSUME LgInv, ~lgTaint, NEW sig, NEW n \in Nat, LgDeleteSubrecord(sig, n)
  PROVE  LgInv'
<1> DEFINE i == NthIndex(lgWanted, sig, n)
           t == RemoveAt(lgWanted, i)
<1>1. ReadFields = lgWanted /\ LgFields(lgWanted)
  BY DEF LgInv
<1>2. HasNth(lgWanted, sig, n)
  BY <1>1 DEF LgDeleteSubrecord, LgNth
<1>3. StoreFields(t) /\ lgWanted' = t
  BY <1>1 DEF LgDeleteSubrecord, LgEdit, DeleteNth
<1>4. lgTaint' \in BOOLEAN
  BY DEF LgDeleteSubrecord, LgInv
<1>5. i \in DOMAIN lgWanted
  BY <1>1, <1>2, NthOfFields
<1> HIDE DEF i
<1>6. LgFields(t)
  BY <1>1, <1>5, RemoveLeavesFields
<1> HIDE DEF t
<1> QED
  BY <1>3, <1>4, <1>6, StoredReads

LEMMA LgMoveStep ==
  ASSUME LgInv, ~lgTaint, NEW body, LgMoveRef(body)
  PROVE  LgInv'
<1> DEFINE i == NthIndex(lgWanted, "DATA", 0)
           f == lgWanted[i]
           moved == [f EXCEPT !.len = PlaceLen, !.body = body]
           new == [id |-> 50, sig |-> "DATA", len |-> PlaceLen, body |-> body]
           has == HasNth(lgWanted, "DATA", 0)
           t == IF has THEN [lgWanted EXCEPT ![i] = moved] ELSE Append(lgWanted, new)
<1>1. ReadFields = lgWanted /\ LgFields(lgWanted)
  BY DEF LgInv
<1>2. StoreFields(t) /\ lgWanted' = t
  BY <1>1 DEF LgMoveRef, LgEdit, SetNth
<1>3. lgTaint' \in BOOLEAN
  BY DEF LgMoveRef, LgInv
<1>4. ASSUME has PROVE LgFields(t)
  <2>1. i \in DOMAIN lgWanted /\ LgField(lgWanted[i])
    BY <1>1, <1>4, NthOfFields
  <2> HIDE DEF i
  <2> HIDE DEF f
  <2>2. LgField(moved)
    BY <2>1, ChangedField DEF f
  <2> HIDE DEF moved
  <2>3. LgFields([lgWanted EXCEPT ![i] = moved])
    BY <1>1, <2>1, <2>2, SetLeavesFields
  <2> QED
    BY <1>4, <2>3
<1>5. ASSUME ~has PROVE LgFields(t)
  <2>1. LgField(new)
    BY MadeField
  <2> HIDE DEF new
  <2>2. LgFields(Append(lgWanted, new))
    BY <1>1, <2>1, AppendLeavesFields
  <2> QED
    BY <1>5, <2>2
<1>6. LgFields(t)
  BY <1>4, <1>5
<1> HIDE DEF t
<1> QED
  BY <1>2, <1>3, <1>6, StoredReads

\* While the model of the donor is copied.
Copying(d) == LgFields(d.fields) /\ d.cursor \in 0 .. Len(d.fields)

LEMMA CopyModelKeeps ==
  ASSUME NEW d, Copying(d), NEW sig
  PROVE  Copying(CopyModel(d, sig))
<1> DEFINE new == Donor[NthIndex(Donor, sig, 0)]
           i == NthIndex(d.fields, sig, 0)
           set == [d.fields EXCEPT ![i] = new]
           in == InsertAt(d.fields, d.cursor + 1, new)
<1>1. LgFields(d.fields) /\ d.cursor \in 0 .. Len(d.fields)
  BY DEF Copying
<1>2. PICK n \in Nat : n = Len(d.fields) /\ DOMAIN d.fields = 1 .. n
  BY <1>1, FieldsLength
<1>3. CASE ~HasNth(Donor, sig, 0)
  BY <1>3 DEF CopyModel
<1>4. CASE HasNth(Donor, sig, 0)
  <2>1. LgField(new)
    BY <1>4, GivenFields, NthOfFields
  <2>2. CASE HasNth(d.fields, sig, 0)
    <3>1. CopyModel(d, sig) = [fields |-> set, cursor |-> d.cursor]
      BY <1>4, <2>2 DEF CopyModel, SetNth
    <3>2. i \in DOMAIN d.fields
      BY <1>1, <2>2, NthOfFields
    <3> HIDE DEF new, i
    <3>3. LgFields(set) /\ DOMAIN set = 1 .. n
      BY <1>1, <1>2, <2>1, <3>2, SetLeavesFields
    <3> HIDE DEF set
    <3>4. Len(set) = n
      BY <3>3, ListingLength DEF LgFields
    <3> QED
      BY <1>1, <1>2, <3>1, <3>3, <3>4 DEF Copying
  <2>3. CASE ~HasNth(d.fields, sig, 0)
    <3>1. CopyModel(d, sig) = [fields |-> in, cursor |-> d.cursor + 1]
      BY <1>4, <2>3 DEF CopyModel
    <3>2. d.cursor + 1 \in 1 .. (Len(d.fields) + 1)
      BY <1>1, <1>2
    <3> HIDE DEF new
    <3>3. LgFields(in) /\ DOMAIN in = 1 .. n + 1
      BY <1>1, <1>2, <2>1, <3>2, InsertLeavesFields
    <3> HIDE DEF in
    <3>4. Len(in) = n + 1
      BY <3>3, ListingLength DEF LgFields
    <3>5. d.cursor + 1 \in 0 .. Len(in)
      BY <1>1, <1>2, <3>4
    <3> QED
      BY <3>1, <3>3, <3>5 DEF Copying
  <2> QED
    BY <2>2, <2>3
<1> QED
  BY <1>3, <1>4

LEMMA SwapLeavesFields ==
  ASSUME NEW s, LgFields(s)
  PROVE  LgFields(SwapModel(s))
<1> DEFINE edid == IF HasNth(s, "EDID", 0) THEN NthIndex(s, "EDID", 0) ELSE 0
           start == [fields |-> s, cursor |-> edid]
<1>1. Len(s) \in Nat /\ DOMAIN s = 1 .. Len(s)
  BY FieldsLength
<1>2. edid \in 0 .. Len(s)
  <2>1. HasNth(s, "EDID", 0) => NthIndex(s, "EDID", 0) \in DOMAIN s
    BY NthOfFields
  <2> QED
    BY <1>1, <2>1
<1>3. SwapModel(s) = CopyModel(CopyModel(CopyModel(start, "OBND"), "MODL"), "MODT").fields
  BY DEF SwapModel
<1> HIDE DEF edid
<1>4. Copying(start)
  BY <1>2 DEF Copying
<1> HIDE DEF start
<1>5. Copying(CopyModel(CopyModel(CopyModel(start, "OBND"), "MODL"), "MODT"))
  BY <1>4, CopyModelKeeps
<1> QED
  BY <1>3, <1>5 DEF Copying

LEMMA LgSwapStep ==
  ASSUME LgInv, ~lgTaint, LgSwapModel
  PROVE  LgInv'
<1>1. ReadFields = lgWanted /\ LgFields(lgWanted)
  BY DEF LgInv
<1>2. StoreFields(SwapModel(lgWanted)) /\ lgWanted' = SwapModel(lgWanted)
  BY <1>1 DEF LgSwapModel, LgEdit
<1>3. lgTaint' \in BOOLEAN
  BY DEF LgSwapModel, LgInv
<1> QED
  BY <1>1, <1>2, <1>3, SwapLeavesFields, StoredReads

LEMMA LgFlagStep ==
  ASSUME LgInv, ~lgTaint, ~lgTaint', NEW flag, LgSetFlag(flag) \/ LgClearFlag(flag)
  PROVE  LgInv'
<1>1. UNCHANGED <<lgStored, lgStream, lgInserted, lgWanted>>
  BY DEF LgSetFlag, LgClearFlag
<1>2. lgTaint' = (lgTaint \/ (flag = "compressed" /\ lgFlags' # lgFlags))
  BY DEF LgSetFlag, LgClearFlag
<1>3. "compressed" \in lgFlags' <=> "compressed" \in lgFlags
  <2>1. CASE flag = "compressed"
    BY <1>2, <2>1
  <2>2. CASE flag # "compressed"
    BY <2>2 DEF LgSetFlag, LgClearFlag
  <2> QED
    BY <2>1, <2>2
<1>4. lgTaint' \in BOOLEAN
  BY <1>2
<1> QED
  BY <1>1, <1>3, <1>4 DEF LgInv, Readable, ReadFields, IsCompressed

LEMMA LgStep == LgInv /\ [LgNext]_lgVars => LgInv'
<1> SUFFICES ASSUME LgInv, [LgNext]_lgVars PROVE LgInv'
  OBVIOUS
<1>1. CASE UNCHANGED lgVars
  BY <1>1 DEF lgVars, LgInv, Readable, ReadFields, IsCompressed
<1>2. CASE LgNext
  <2> DEFINE Taints == lgTaint' \in BOOLEAN /\ (lgTaint => lgTaint')
             Goal == Taints /\ (~lgTaint' => LgInv')
  <2> USE DEF LgInv
  <2>0. ~lgTaint' /\ Taints => ~lgTaint
    OBVIOUS
  <2>1. ASSUME NEW sig, NEW n \in Nat, NEW len, NEW body, LgSetSubrecord(sig, n, len, body)
        PROVE  Goal
    <3>1. Taints
      BY <2>1 DEF LgSetSubrecord
    <3> QED
      BY <2>0, <2>1, <3>1, LgSetStep
  <2>2. ASSUME NEW sig, NEW n \in Nat, NEW end, NEW body, LgPatchSubrecord(sig, n, end, body)
        PROVE  Goal
    <3>1. Taints
      BY <2>2 DEF LgPatchSubrecord
    <3> QED
      BY <2>0, <2>2, <3>1, LgPatchStep
  <2>3. ASSUME NEW sig, NEW n \in Nat, LgDeleteSubrecord(sig, n)
        PROVE  Goal
    <3>1. Taints
      BY <2>3 DEF LgDeleteSubrecord
    <3> QED
      BY <2>0, <2>3, <3>1, LgDeleteStep
  <2>4. ASSUME NEW sig, NEW where, NEW len, NEW body,
               where.at \in {"after", "before", "index", "end"},
               LgInsertSubrecord(sig, where, len, body)
        PROVE  Goal
    <3>1. Taints
      BY <2>4 DEF LgInsertSubrecord
    <3> QED
      BY <2>0, <2>4, <3>1, LgInsertStep
  <2>5. ASSUME NEW flag, LgSetFlag(flag) \/ LgClearFlag(flag)
        PROVE  Goal
    <3>1. Taints
      BY <2>5 DEF LgSetFlag, LgClearFlag
    <3> QED
      BY <2>0, <2>5, <3>1, LgFlagStep
  <2>6. ASSUME NEW body, LgMoveRef(body) PROVE Goal
    <3>1. Taints
      BY <2>6 DEF LgMoveRef
    <3> QED
      BY <2>0, <2>6, <3>1, LgMoveStep
  <2>7. ASSUME LgSwapModel PROVE Goal
    <3>1. Taints
      BY <2>7 DEF LgSwapModel
    <3> QED
      BY <2>0, <2>7, <3>1, LgSwapStep
  <2> HIDE DEF Goal
  <2>8. \A where \in [at : {"after", "before"}, sig : LgSigs]
                     \cup [at : {"index"}, pos : 0 .. MaxLgFields] \cup [at : {"end"}] :
          where.at \in {"after", "before", "index", "end"}
    OBVIOUS
  <2>9. 0 .. MaxLgFields - 1 \subseteq Nat
    BY LegacyFieldsAssumption
  <2>10. LgSwapModel => Goal
    BY <2>7
  <2>11. ASSUME NEW sig \in LgSigs, NEW n \in 0 .. MaxLgFields - 1,
                \/ \E len \in LgLens, body \in LgBodies : LgSetSubrecord(sig, n, len, body)
                \/ \E end \in LgLens, body \in LgBodies : LgPatchSubrecord(sig, n, end, body)
                \/ LgDeleteSubrecord(sig, n)
         PROVE  Goal
    <3>1. n \in Nat
      BY <2>9
    <3> QED
      BY <2>1, <2>2, <2>3, <2>11, <3>1, Zenon
  <2>12. ASSUME NEW sig \in LgSigs, NEW len \in LgLens, NEW body \in LgBodies,
                NEW where \in [at : {"after", "before"}, sig : LgSigs]
                     \cup [at : {"index"}, pos : 0 .. MaxLgFields] \cup [at : {"end"}],
                LgInsertSubrecord(sig, where, len, body)
         PROVE  Goal
    BY <2>4, <2>8, <2>12
  <2>13. Goal
    BY <1>2, <2>5, <2>6, <2>10, <2>11, <2>12, Zenon DEF LgNext
  <2> QED
    BY <2>13 DEF Goal
<1> QED
  BY <1>1, <1>2

\* A record under the older engine, plain or compressed, short or with fields
\* longer than a size can state, reads back as the fields that the calls on it
\* amount to, unless a call wrote an XXXX or switched the compressed flag.
THEOREM StreamReadsBack == LgSpec => []LegacyReadsBack
<1>1. LgInv => LegacyReadsBack
  BY DEF LgInv, LegacyReadsBack
<1> QED
  BY <1>1, LgInitReads, LgStep, PTL DEF LgSpec
=============================================================================
