------------------------- MODULE Realization_proofs -------------------------
(***************************************************************************)
(* Proofs about Realization for any number of compilers, versions of the   *)
(* package and files, edited, killed and restarted any number of times.    *)
(***************************************************************************)
EXTENDS Realization, TLAPS

\* A compile that writes has put something in each file it is past, and opens
\* the manifest when it is past them all.
Written ==
  \A c \in Compilers : Writing(c) =>
    /\ \A k \in 1..Len(Generated[of[c]]) : k < at[c] => disk[Generated[of[c]][k]] # None
    /\ pc[c] = "publish" => at[c] > Len(Generated[of[c]])

\* One that is alone has put its own realization there, and still is alone:
\* what it has yet to read is what it was.
AloneWrites ==
  \A c \in Compilers : Writing(c) /\ alone[c] =>
    /\ closure[c] = of[c]
    /\ pc[c] = "write" => Meshes[source] = Meshes[of[c]]
    /\ \A d \in Others(c) : ~Writing(d)
    /\ \A k \in 1..Len(Generated[of[c]]) :
         k < at[c] => disk[Generated[of[c]][k]] = Realized(of[c])

\* A slot that nobody writes, and that no compile left without a manifest,
\* holds the realization its manifest speaks of, up to removed files.
SlotConsistent ==
  (~spoiled /\ manifest \in Manifests /\ \A c \in Compilers : ~Writing(c)) =>
    /\ manifest.key[1] = manifest.of
    /\ \A f \in ListedFiles(manifest.of) : disk[f] \in {Realized(manifest.of), None}

CacheInv == TypeOK /\ Written /\ AloneWrites /\ SlotConsistent

\* The entries of a version's list are files.
LEMMA GeneratedFiles ==
  ASSUME NEW v \in Versions
  PROVE  /\ Len(Generated[v]) \in Nat
         /\ \A k \in 1..Len(Generated[v]) : Generated[v][k] \in Files
         /\ ListedFiles(v) \subseteq Files
<1>1. Generated[v] \in Seq(Files)
  BY RealizationAssumption
<1>2. Len(Generated[v]) \in Nat /\ \A k \in 1..Len(Generated[v]) : Generated[v][k] \in Files
  BY <1>1
<1>. QED BY <1>2 DEF ListedFiles

\* A cache key is made of a version and of digests.
LEMMA CacheKeyType ==
  ASSUME TypeOK, NEW c \in Compilers
  PROVE  CacheKey(c) \in Keys /\ CacheKey(c)[1] = closure[c]
BY DEF TypeOK, CacheKey, Keys

\* What is written is a realization, whatever the meshes are.
LEMMA RealizedContents ==
  ASSUME NEW v \in Versions, NEW w \in Versions
  PROVE  /\ [of |-> v, meshes |-> Meshes[w]] \in Contents
         /\ Realized(v) \in Contents
BY DEF Contents, Realized

\* What a compile writes: its description, with the meshes of its own package
\* or of the package there is now.
LEMMA WriteFileWrites ==
  ASSUME TypeOK, NEW c \in Compilers, WriteFile(c)
  PROVE  \E w \in {of[c], source} :
           disk' = [disk EXCEPT ![Generated[of[c]][at[c]]] = [of |-> of[c], meshes |-> Meshes[w]]]
<1>1. CASE Generated[of[c]][at[c]] \in Rereading
  BY <1>1 DEF WriteFile
<1>2. CASE Generated[of[c]][at[c]] \notin Rereading
  BY <1>2 DEF WriteFile
<1>. QED BY <1>1, <1>2

\* Every step keeps the variables within their types.
LEMMA TypeStep == TypeOK /\ [Next]_vars => TypeOK'
<1>. SUFFICES ASSUME TypeOK, [Next]_vars PROVE TypeOK'
  OBVIOUS
<1>. USE RealizationAssumption DEF TypeOK
<1>1. ASSUME NEW c \in Compilers, ReadPackage(c) PROVE TypeOK'
  BY <1>1 DEF ReadPackage, Go
<1>2. ASSUME NEW c \in Compilers, HashClosure(c) PROVE TypeOK'
  BY <1>2 DEF HashClosure, Go
<1>3. ASSUME NEW c \in Compilers, Hit(c) PROVE TypeOK'
  BY <1>3 DEF Hit, Cached, Answer, Go
<1>4. ASSUME NEW c \in Compilers, Unreadable(c) PROVE TypeOK'
  BY <1>4 DEF Unreadable, Answer, Go
<1>5. ASSUME NEW c \in Compilers, Miss(c) PROVE TypeOK'
  <2>1. alone' \in [Compilers -> BOOLEAN]
    BY <1>5 DEF Miss
  <2>. QED BY <1>5, <2>1 DEF Miss, Go
<1>6. ASSUME NEW c \in Compilers, WriteFile(c) PROVE TypeOK'
  <2>1. at' \in [Compilers -> Nat]
    BY <1>6 DEF WriteFile
  <2>2. of[c] \in Versions
    OBVIOUS
  <2>3. PICK w \in {of[c], source} :
          disk' = [disk EXCEPT ![Generated[of[c]][at[c]]] = [of |-> of[c], meshes |-> Meshes[w]]]
    BY <1>6, WriteFileWrites
  <2>4. [of |-> of[c], meshes |-> Meshes[w]] \in Contents
    BY <2>2, RealizedContents
  <2>5. disk' \in [Files -> Contents \cup {None, Torn}]
    BY <2>3, <2>4
  <2>. QED BY <1>6, <2>1, <2>5 DEF WriteFile
<1>7. ASSUME NEW c \in Compilers, OpenManifest(c) PROVE TypeOK'
  BY <1>7 DEF OpenManifest, Go
<1>8. ASSUME NEW c \in Compilers, CloseManifest(c) PROVE TypeOK'
  <2>1. manifest' \in Manifests
    BY <1>8, CacheKeyType DEF CloseManifest, Manifests
  <2>. QED BY <1>8, <2>1 DEF CloseManifest, Answer, Go
<1>9. ASSUME NEW c \in Compilers, Raise(c) PROVE TypeOK'
  BY <1>9 DEF Raise, Answer, Go
<1>10. ASSUME NEW c \in Compilers, Crash(c) PROVE TypeOK'
  <2>1. disk' \in [Files -> Contents \cup {None, Torn}]
    BY <1>10 DEF Crash
  <2>. QED BY <1>10, <2>1 DEF Crash, Answer, Go
<1>11. CASE Edit
  <2>1. alone' \in [Compilers -> BOOLEAN]
    BY <1>11 DEF Edit
  <2>. QED BY <1>11, <2>1 DEF Edit
<1>12. CASE Remove
  <2>1. manifest' \in Manifests \cup {None, Torn} /\ disk' \in [Files -> Contents \cup {None, Torn}]
    BY <1>12 DEF Remove
  <2>2. edits' \in Nat
    BY <1>12 DEF Remove
  <2>. QED BY <1>12, <2>1, <2>2 DEF Remove
<1>13. CASE UNCHANGED vars
  BY <1>13 DEF vars
<1>. QED
  BY <1>1, <1>2, <1>3, <1>4, <1>5, <1>6, <1>7, <1>8, <1>9, <1>10, <1>11, <1>12, <1>13
  DEF Next, Compile

\* Files only disappear while nobody compiles.
LEMMA WrittenStep == TypeOK /\ Written /\ [Next]_vars => Written'
<1>. SUFFICES ASSUME TypeOK, Written, [Next]_vars PROVE Written'
  OBVIOUS
<1>. USE RealizationAssumption, GeneratedFiles DEF TypeOK, Written, Writing
<1>1. ASSUME NEW c \in Compilers, ReadPackage(c) PROVE Written'
  BY <1>1 DEF ReadPackage, Go
<1>2. ASSUME NEW c \in Compilers, HashClosure(c) PROVE Written'
  BY <1>2 DEF HashClosure, Go
<1>3. ASSUME NEW c \in Compilers, Hit(c) PROVE Written'
  BY <1>3 DEF Hit, Answer, Go
<1>4. ASSUME NEW c \in Compilers, Unreadable(c) PROVE Written'
  BY <1>4 DEF Unreadable, Answer, Go
<1>5. ASSUME NEW c \in Compilers, Miss(c) PROVE Written'
  BY <1>5 DEF Miss, Go
<1>6. ASSUME NEW c \in Compilers, WriteFile(c) PROVE Written'
  <2>0. PICK w \in {of[c], source} :
          disk' = [disk EXCEPT ![Generated[of[c]][at[c]]] = [of |-> of[c], meshes |-> Meshes[w]]]
    BY <1>6, WriteFileWrites
  <2>4. [of |-> of[c], meshes |-> Meshes[w]] # None
    BY RealizedContents
  <2>1. \A f \in Files : disk[f] # None => disk'[f] # None
    BY <2>0, <2>4
  <2>2. at[c] \in 1..Len(Generated[of[c]]) => disk'[Generated[of[c]][at[c]]] # None
    BY <2>0, <2>4
  <2>3. \A k \in 1..Len(Generated[of[c]]) : k < at'[c] => k < at[c] \/ k = at[c]
    BY <1>6 DEF WriteFile
  <2>. QED BY <1>6, <2>1, <2>2, <2>3 DEF WriteFile
<1>7. ASSUME NEW c \in Compilers, OpenManifest(c) PROVE Written'
  BY <1>7 DEF OpenManifest, Go
<1>8. ASSUME NEW c \in Compilers, CloseManifest(c) PROVE Written'
  BY <1>8 DEF CloseManifest, Answer, Go
<1>9. ASSUME NEW c \in Compilers, Raise(c) PROVE Written'
  BY <1>9 DEF Raise, Answer, Go
<1>10. ASSUME NEW c \in Compilers, Crash(c) PROVE Written'
  <2>1. \A f \in Files : disk[f] # None => disk'[f] # None
    BY <1>10 DEF Crash
  <2>. QED BY <1>10, <2>1 DEF Crash, Answer, Go
<1>11. CASE Edit
  BY <1>11 DEF Edit
<1>12. CASE Remove
  BY <1>12 DEF Remove
<1>13. CASE UNCHANGED vars
  BY <1>13 DEF vars
<1>. QED
  BY <1>1, <1>2, <1>3, <1>4, <1>5, <1>6, <1>7, <1>8, <1>9, <1>10, <1>11, <1>12, <1>13
  DEF Next, Compile

\* Nobody else writes while an undisturbed compile does: whoever starts to
\* write takes the word from it.
LEMMA AloneStep == TypeOK /\ AloneWrites /\ [Next]_vars => AloneWrites'
<1>. SUFFICES ASSUME TypeOK, AloneWrites, [Next]_vars PROVE AloneWrites'
  OBVIOUS
<1>. USE RealizationAssumption, GeneratedFiles DEF TypeOK, AloneWrites, Writing, Others
<1>1. ASSUME NEW c \in Compilers, ReadPackage(c) PROVE AloneWrites'
  BY <1>1 DEF ReadPackage, Go
<1>2. ASSUME NEW c \in Compilers, HashClosure(c) PROVE AloneWrites'
  BY <1>2 DEF HashClosure, Go
<1>3. ASSUME NEW c \in Compilers, Hit(c) PROVE AloneWrites'
  BY <1>3 DEF Hit, Answer, Go
<1>4. ASSUME NEW c \in Compilers, Unreadable(c) PROVE AloneWrites'
  BY <1>4 DEF Unreadable, Answer, Go
<1>5. ASSUME NEW c \in Compilers, Miss(c) PROVE AloneWrites'
  <2>. SUFFICES ASSUME NEW d \in Compilers, Writing(d)', alone'[d]
                PROVE  /\ closure'[d] = of'[d]
                       /\ pc'[d] = "write" => Meshes[source'] = Meshes[of'[d]]
                       /\ \A e \in Others(d) : ~Writing(e)'
                       /\ \A k \in 1..Len(Generated[of'[d]]) :
                            k < at'[d] => disk'[Generated[of'[d]][k]] = Realized(of'[d])
    BY Zenon DEF AloneWrites, Writing
  <2>1. /\ d = c /\ closure[c] = of[c] /\ \A e \in Others(c) : ~Writing(e)
        /\ Meshes[source] = Meshes[of[c]] /\ source' = source
    BY <1>5 DEF Miss
  <2>2. \A e \in Others(d) : ~Writing(e)'
    BY <1>5, <2>1 DEF Miss, Go
  <2>3. at'[c] = 1 /\ of' = of /\ closure' = closure
    BY <1>5 DEF Miss
  <2>4. \A k \in 1..Len(Generated[of[c]]) : ~(k < 1)
    BY GeneratedFiles
  <2>. QED BY <2>1, <2>2, <2>3, <2>4
<1>6. ASSUME NEW c \in Compilers, WriteFile(c) PROVE AloneWrites'
  <2>. SUFFICES ASSUME NEW d \in Compilers, Writing(d)', alone'[d]
                PROVE  /\ closure'[d] = of'[d]
                       /\ pc'[d] = "write" => Meshes[source'] = Meshes[of'[d]]
                       /\ \A e \in Others(d) : ~Writing(e)'
                       /\ \A k \in 1..Len(Generated[of'[d]]) :
                            k < at'[d] => disk'[Generated[of'[d]][k]] = Realized(of'[d])
    BY Zenon DEF AloneWrites, Writing
  <2>1. d = c
    BY <1>6 DEF WriteFile
  <2>2. \A k \in 1..Len(Generated[of[c]]) : k < at'[c] => k < at[c] \/ k = at[c]
    BY <1>6 DEF WriteFile
  <2>3. pc[c] = "write" /\ alone[c] /\ UNCHANGED <<source, pc, of, closure>>
    BY <1>6, <2>1 DEF WriteFile
  <2>4. disk' = [disk EXCEPT ![Generated[of[c]][at[c]]] = Realized(of[c])]
    <3>1. Meshes[source] = Meshes[of[c]]
      BY <2>3
    <3>. QED BY <1>6, <3>1, WriteFileWrites DEF Realized
  <2>5. \A k \in 1..Len(Generated[of[c]]) :
          k < at'[c] => disk'[Generated[of[c]][k]] = Realized(of[c])
    BY <2>2, <2>3, <2>4
  <2>. QED BY <2>1, <2>3, <2>5
<1>7. ASSUME NEW c \in Compilers, OpenManifest(c) PROVE AloneWrites'
  BY <1>7 DEF OpenManifest, Go
<1>8. ASSUME NEW c \in Compilers, CloseManifest(c) PROVE AloneWrites'
  BY <1>8 DEF CloseManifest, Answer, Go
<1>9. ASSUME NEW c \in Compilers, Raise(c) PROVE AloneWrites'
  BY <1>9 DEF Raise, Answer, Go
<1>10. ASSUME NEW c \in Compilers, Crash(c) PROVE AloneWrites'
  <2>. SUFFICES ASSUME NEW d \in Compilers, Writing(d)', alone'[d]
                PROVE  /\ closure'[d] = of'[d]
                       /\ pc'[d] = "write" => Meshes[source'] = Meshes[of'[d]]
                       /\ \A e \in Others(d) : ~Writing(e)'
                       /\ \A k \in 1..Len(Generated[of'[d]]) :
                            k < at'[d] => disk'[Generated[of'[d]][k]] = Realized(of'[d])
    BY Zenon DEF AloneWrites, Writing
  <2>1. /\ d # c /\ Writing(d) /\ alone[d] /\ of' = of /\ closure' = closure /\ at' = at
        /\ pc'[d] = pc[d] /\ source' = source
    BY <1>10 DEF Crash, Answer, Go
  <2>2. ~Writing(c)
    BY <2>1
  <2>3. disk' = disk
    BY <1>10, <2>2 DEF Crash
  <2>4. \A e \in Others(d) : ~Writing(e)'
    BY <1>10, <2>1 DEF Crash, Answer, Go
  <2>. QED BY <2>1, <2>3, <2>4
<1>11. CASE Edit
  <2>1. \A d \in Compilers : /\ alone'[d] => alone[d]
                             /\ alone'[d] /\ pc[d] = "write" => Meshes[source'] = Meshes[of[d]]
    BY <1>11 DEF Edit
  <2>. QED BY <1>11, <2>1 DEF Edit
<1>12. CASE Remove
  BY <1>12 DEF Remove
<1>13. CASE UNCHANGED vars
  BY <1>13 DEF vars
<1>. QED
  BY <1>1, <1>2, <1>3, <1>4, <1>5, <1>6, <1>7, <1>8, <1>9, <1>10, <1>11, <1>12, <1>13
  DEF Next, Compile

\* An undisturbed compile has written all of its files when it publishes.
LEMMA PublishedAlone ==
  ASSUME TypeOK, Written, AloneWrites, NEW c \in Compilers, pc[c] = "publish"
  PROVE  /\ \A f \in ListedFiles(of[c]) : disk[f] # None
         /\ alone[c] => \A f \in ListedFiles(of[c]) : disk[f] = Realized(of[c])
<1>1. Writing(c) /\ at[c] > Len(Generated[of[c]]) /\ of[c] \in Versions /\ at[c] \in Nat
  BY DEF Written, Writing, TypeOK
<1>2. \A k \in 1..Len(Generated[of[c]]) : k < at[c]
  BY <1>1, GeneratedFiles
<1>. QED BY <1>1, <1>2 DEF Written, AloneWrites, ListedFiles

\* The slot is consistent again only by the manifest of an undisturbed compile.
LEMMA SlotStep ==
  TypeOK /\ Written /\ AloneWrites /\ SlotConsistent /\ [Next]_vars => SlotConsistent'
<1>. SUFFICES ASSUME TypeOK, Written, AloneWrites, SlotConsistent, [Next]_vars
              PROVE  SlotConsistent'
  OBVIOUS
<1>. USE RealizationAssumption, GeneratedFiles DEF TypeOK, SlotConsistent, Writing
<1>1. ASSUME NEW c \in Compilers, ReadPackage(c) PROVE SlotConsistent'
  BY <1>1 DEF ReadPackage, Go
<1>2. ASSUME NEW c \in Compilers, HashClosure(c) PROVE SlotConsistent'
  BY <1>2 DEF HashClosure, Go
<1>3. ASSUME NEW c \in Compilers, Hit(c) PROVE SlotConsistent'
  BY <1>3 DEF Hit, Answer, Go
<1>4. ASSUME NEW c \in Compilers, Unreadable(c) PROVE SlotConsistent'
  BY <1>4 DEF Unreadable, Answer, Go
<1>5. ASSUME NEW c \in Compilers, Miss(c) PROVE SlotConsistent'
  BY <1>5 DEF Miss, Go
<1>6. ASSUME NEW c \in Compilers, WriteFile(c) PROVE SlotConsistent'
  BY <1>6 DEF WriteFile
<1>7. ASSUME NEW c \in Compilers, OpenManifest(c) PROVE SlotConsistent'
  BY <1>7 DEF OpenManifest
<1>8. ASSUME NEW c \in Compilers, CloseManifest(c) PROVE SlotConsistent'
  <2>. SUFFICES ASSUME ~spoiled'
                PROVE  /\ manifest'.key[1] = manifest'.of
                       /\ \A f \in ListedFiles(manifest'.of) : disk'[f] \in {Realized(manifest'.of), None}
    BY DEF SlotConsistent
  <2>1. alone[c] /\ manifest'.key = CacheKey(c) /\ manifest'.of = of[c] /\ disk' = disk
    BY <1>8 DEF CloseManifest
  <2>2. closure[c] = of[c]
    BY <1>8, <2>1 DEF CloseManifest, AloneWrites
  <2>3. \A f \in ListedFiles(of[c]) : disk[f] = Realized(of[c])
    BY <1>8, <2>1, PublishedAlone DEF CloseManifest
  <2>. QED BY <2>1, <2>2, <2>3, CacheKeyType
<1>9. ASSUME NEW c \in Compilers, Raise(c) PROVE SlotConsistent'
  BY <1>9 DEF Raise, Answer, Go
<1>10. ASSUME NEW c \in Compilers, Crash(c) PROVE SlotConsistent'
  <2>1. CASE spoiled'
    BY <2>1
  <2>2. CASE ~spoiled'
    BY <1>10, <2>2 DEF Crash, Answer, Go
  <2>. QED BY <2>1, <2>2
<1>11. CASE Edit
  BY <1>11 DEF Edit
<1>12. CASE Remove
  <2>1. CASE manifest' = None
    BY <2>1
  <2>2. ASSUME NEW f \in Files, disk' = [disk EXCEPT ![f] = None], manifest' = manifest
        PROVE  SlotConsistent'
    BY <1>12, <2>2 DEF Remove
  <2>. QED BY <1>12, <2>1, <2>2 DEF Remove
<1>13. CASE UNCHANGED vars
  BY <1>13 DEF vars
<1>. QED
  BY <1>1, <1>2, <1>3, <1>4, <1>5, <1>6, <1>7, <1>8, <1>9, <1>10, <1>11, <1>12, <1>13
  DEF Next, Compile

LEMMA CacheInvInit == Init => CacheInv
<1>. SUFFICES ASSUME Init PROVE CacheInv
  OBVIOUS
<1>. USE RealizationAssumption DEF Init
<1>1. TypeOK
  BY DEF TypeOK
<1>2. \A c \in Compilers : ~Writing(c)
  BY DEF Writing
<1>3. manifest \notin Manifests
  OBVIOUS
<1>. QED BY <1>1, <1>2, <1>3 DEF CacheInv, Written, AloneWrites, SlotConsistent

LEMMA CacheInvStep == CacheInv /\ [Next]_vars => CacheInv'
BY TypeStep, WrittenStep, AloneStep, SlotStep DEF CacheInv

\* Every variable keeps to its type: a slot holds realizations, torn files or
\* nothing, a compile answers with a manifest or a blocker.
THEOREM RealizationTypeOK == Spec => []TypeOK
<1>1. CacheInv => TypeOK
  BY DEF CacheInv
<1>. QED BY <1>1, CacheInvInit, CacheInvStep, PTL DEF Spec

\* Only a hit and a publication answer with a manifest.
LEMMA WhoAnswers ==
  ASSUME TypeOK, [Next]_vars, NEW c \in Compilers, Answers(c)
  PROVE  Hit(c) \/ CloseManifest(c)
<1>. USE RealizationAssumption DEF TypeOK, Answers
<1>1. ~UNCHANGED vars /\ ~Edit /\ ~Remove
  BY DEF vars, Edit, Remove
<1>2. PICK d \in Compilers : Compile(d)
  BY <1>1 DEF Next
<1>3. d = c
  BY <1>2 DEF Compile, ReadPackage, HashClosure, Hit, Unreadable, Miss, WriteFile,
              OpenManifest, CloseManifest, Raise, Crash, Answer, Go
<1>. QED
  BY <1>2, <1>3 DEF Compile, ReadPackage, HashClosure, Hit, Unreadable, Miss, WriteFile,
                    OpenManifest, CloseManifest, Raise, Crash, Answer, Go

LEMMA ListedStep ==
  CacheInv /\ [Next]_vars =>
    \A c \in Compilers : Answers(c) => \A f \in ListedFiles(answer'[c].of) : disk'[f] # None
<1>. SUFFICES ASSUME CacheInv, [Next]_vars, NEW c \in Compilers, Answers(c)
              PROVE  \A f \in ListedFiles(answer'[c].of) : disk'[f] # None
  OBVIOUS
<1>1. CASE Hit(c)
  BY <1>1 DEF Hit, Cached, Answer, CacheInv, TypeOK
<1>2. CASE CloseManifest(c)
  BY <1>2, PublishedAlone DEF CloseManifest, Answer, CacheInv, TypeOK
<1>. QED BY <1>1, <1>2, WhoAnswers DEF CacheInv

\* Every file a manifest lists exists when the manifest is handed out, whatever
\* was killed, edited or compiled at once before.
THEOREM RealizationListedExist == Spec => ListedExist
<1>1. CacheInv /\ [Next]_vars =>
        [\A c \in Compilers : Answers(c) =>
           \A f \in ListedFiles(answer'[c].of) : disk'[f] # None]_vars
  BY ListedStep
<1>. QED BY <1>1, CacheInvInit, CacheInvStep, PTL DEF Spec, ListedExist

LEMMA CurrentStep ==
  CacheInv /\ [Next]_vars =>
    \A c \in Compilers : Answers(c) /\ Undisturbed(c) => Current(c)'
<1>. SUFFICES ASSUME CacheInv, [Next]_vars, NEW c \in Compilers, Answers(c), Undisturbed(c)
              PROVE  Current(c)'
  OBVIOUS
<1>. USE DEF CacheInv
<1>1. CASE Hit(c)
  <2>1. /\ manifest \in Manifests /\ answer'[c] = manifest
        /\ disk' = disk /\ of' = of
        /\ manifest.key[1] = closure[c]
    BY <1>1, CacheKeyType DEF Hit, Cached, Answer, TypeOK
  <2>2. ~spoiled /\ closure[c] = of[c] /\ \A d \in Compilers : ~Writing(d)
    BY <1>1 DEF Hit, Undisturbed
  <2>3. manifest.of = of[c] /\ \A f \in ListedFiles(manifest.of) : disk[f] \in {Realized(manifest.of), None}
    BY <2>1, <2>2 DEF SlotConsistent
  <2>4. \A f \in ListedFiles(manifest.of) : disk[f] # None
    BY <1>1 DEF Hit, Cached
  <2>. QED BY <2>1, <2>3, <2>4 DEF Current
<1>2. CASE CloseManifest(c)
  <2>1. pc[c] = "publish" /\ alone[c] /\ answer'[c].of = of[c] /\ disk' = disk /\ of' = of
    BY <1>2 DEF CloseManifest, Undisturbed, Answer, TypeOK
  <2>2. \A f \in ListedFiles(of[c]) : disk[f] = Realized(of[c])
    BY <2>1, PublishedAlone
  <2>. QED BY <2>1, <2>2 DEF Current
<1>. QED BY <1>1, <1>2, WhoAnswers

\* A compile that is left alone hands out the realization of the package it
\* read, meshes included, for any number of versions, files, edits, crashes
\* and compilers, whichever files are made with meshes read while writing.
THEOREM RealizationCachedIsCurrent == Spec => CachedIsCurrent
<1>1. CacheInv /\ [Next]_vars =>
        [\A c \in Compilers : Answers(c) /\ Undisturbed(c) => Current(c)']_vars
  BY CurrentStep
<1>. QED BY <1>1, CacheInvInit, CacheInvStep, PTL DEF Spec, CachedIsCurrent
=============================================================================
