---------------------------- MODULE Realization ----------------------------
(***************************************************************************)
(* Compiling a scene package into a backend's slot, and the cache that a   *)
(* slot is (compile_openusd_scene_package in robosim/core/mujoco_openusd_  *)
(* package.py; the PyBullet and Gazebo compilers have the same frame).     *)
(*                                                                         *)
(* A compile reads the package, computes the cache key, and answers with   *)
(* the manifest of the slot when its key is that one and the files it      *)
(* lists exist. Otherwise it writes those files IN PLACE, loads and steps  *)
(* what it wrote, and writes manifest.json at the end. Compiles are        *)
(* processes (the command line, a server that is being set up): they run   *)
(* at once, raise and are killed between any two steps, and the package is *)
(* edited under them. A package is a version. Of a file in the slot the    *)
(* model keeps the version it was realized from and the meshes that went   *)
(* into it: the description of a package is read once, at the start, but   *)
(* its OBJ files and the robot's template are read again where a file is   *)
(* written (_write_asset, _visual_parts, _write_robot). They are taken as  *)
(* read at one instant per file.                                           *)
(***************************************************************************)
EXTENDS Integers, Sequences

CONSTANTS
  Versions,   \* what the package may be edited into
  Resources,  \* resource digests of the assets of each version
  Meshes,     \* what the OBJ files and the robot's template of each version hold
  Files,      \* paths in the slot, but for manifest.json
  Generated,  \* the files each version is realized into, in order
  Rereading,  \* the files made with meshes that are read when they are written
  Compilers,  \* processes that compile into the slot
  None,       \* no such file; no answer yet
  Torn,       \* a file whose writer died inside of write_text
  Blocked,    \* the answer of a compile that raised: a blocker
  MaxEdits, MaxFaults  \* bounds: edits and deletions, compiles that give up

ListedFiles(v) == {Generated[v][k] : k \in 1..Len(Generated[v])}
Keys == Versions \X {Resources[v] : v \in Versions}
Manifests == [key : Keys, of : Versions]
Contents == [of : Versions, meshes : {Meshes[v] : v \in Versions}]
Realized(v) == [of |-> v, meshes |-> Meshes[v]]

ASSUME RealizationAssumption ==
  /\ Generated \in [Versions -> Seq(Files)]
  /\ Rereading \subseteq Files
  /\ None \notin Contents \cup Manifests /\ Torn \notin Contents \cup Manifests
  /\ Blocked \notin Manifests /\ Torn # None
  /\ MaxEdits \in Nat /\ MaxFaults \in Nat

VARIABLES
  source,    \* the package as it is on disk
  disk,      \* what each file of the slot was realized from
  manifest,  \* manifest.json: for which key, and listing the files of which version
  pc, of, closure, at,  \* a compile: its place, the package it read, the closure
             \* it hashed (its version), and the next file it writes
  answer,    \* the last answer of each compiler
  edits, faults,
  alone,     \* history: a compile that nothing has disturbed since it wrote
  spoiled    \* history: files may be left over from a compile without manifest

vars == <<source, disk, manifest, pc, of, closure, at, answer, edits, faults,
          alone, spoiled>>

Init ==
  /\ source \in Versions
  /\ disk = [f \in Files |-> None]
  /\ manifest = None
  /\ pc = [c \in Compilers |-> "idle"]
  /\ of = [c \in Compilers |-> source]
  /\ closure = [c \in Compilers |-> source]
  /\ at = [c \in Compilers |-> 1]
  /\ answer = [c \in Compilers |-> None]
  /\ edits = 0 /\ faults = 0
  /\ alone = [c \in Compilers |-> FALSE]
  /\ spoiled = FALSE

Writing(c) == pc[c] \in {"write", "publish"}
Others(c) == Compilers \ {c}
Go(c, place) == pc' = [pc EXCEPT ![c] = place]
Answer(c, a) == Go(c, "idle") /\ answer' = [answer EXCEPT ![c] = a]

-----------------------------------------------------------------------------
(* One compile.                                                            *)

\* read_openusd_scene_package: checksums verified, stage and assets read.
ReadPackage(c) ==
  /\ pc[c] = "idle"
  /\ Go(c, "digest")
  /\ of' = [of EXCEPT ![c] = source]
  /\ UNCHANGED <<source, disk, manifest, closure, at, answer, edits, faults, alone, spoiled>>

\* _dependency_hash reads checksums.sha256 once more.
HashClosure(c) ==
  /\ pc[c] = "digest"
  /\ Go(c, "lookup")
  /\ closure' = [closure EXCEPT ![c] = source]
  /\ UNCHANGED <<source, disk, manifest, of, at, answer, edits, faults, alone, spoiled>>

\* make_csd_realization_cache_key: the closure, the digests of the assets read.
CacheKey(c) == <<closure[c], Resources[of[c]]>>

MutantCachedUnseen(c) == manifest \in Manifests /\ manifest.key = CacheKey(c)
MutantCachedAnyScene(c) ==
  /\ manifest \in Manifests
  /\ manifest.key[2] = CacheKey(c)[2]
  /\ \A f \in ListedFiles(manifest.of) : disk[f] # None

Cached(c) ==
  /\ manifest \in Manifests
  /\ manifest.key = CacheKey(c)
  /\ \A f \in ListedFiles(manifest.of) : disk[f] # None

Hit(c) ==
  /\ pc[c] = "lookup" /\ Cached(c)
  /\ Answer(c, manifest)
  /\ UNCHANGED <<source, disk, manifest, of, closure, at, edits, faults, alone, spoiled>>

\* A manifest that does not parse raises and is not replaced.
Unreadable(c) ==
  /\ pc[c] = "lookup" /\ manifest = Torn
  /\ Answer(c, Blocked)
  /\ UNCHANGED <<source, disk, manifest, of, closure, at, edits, faults, alone, spoiled>>

\* The manifest of the previous realization stays where it is meanwhile.
Miss(c) ==
  /\ pc[c] = "lookup" /\ manifest # Torn /\ ~Cached(c)
  /\ Go(c, "write")
  /\ at' = [at EXCEPT ![c] = 1]
  /\ alone' = [d \in Compilers |->
                 IF d = c THEN /\ of[c] = closure[c] /\ Meshes[source] = Meshes[of[c]]
                               /\ \A e \in Others(c) : ~Writing(e)
                          ELSE FALSE]
  /\ UNCHANGED <<source, disk, manifest, of, closure, answer, edits, faults, spoiled>>

\* From the description that was read, and from the meshes as they are now.
WriteFile(c) ==
  /\ pc[c] = "write" /\ at[c] <= Len(Generated[of[c]])
  /\ LET f == Generated[of[c]][at[c]]
         read == IF f \in Rereading THEN source ELSE of[c]
     IN  disk' = [disk EXCEPT ![f] = [of |-> of[c], meshes |-> Meshes[read]]]
  /\ at' = [at EXCEPT ![c] = @ + 1]
  /\ UNCHANGED <<source, manifest, pc, of, closure, answer, edits, faults, alone, spoiled>>

\* manifest.json is opened, which empties it, ...
OpenManifest(c) ==
  /\ pc[c] = "write" /\ at[c] > Len(Generated[of[c]])
  /\ Go(c, "publish")
  /\ manifest' = Torn
  /\ UNCHANGED <<source, disk, of, closure, at, answer, edits, faults, alone, spoiled>>

\* ... and written.
CloseManifest(c) ==
  /\ pc[c] = "publish"
  /\ manifest' = [key |-> CacheKey(c), of |-> of[c]]
  /\ Answer(c, manifest')
  /\ spoiled' = ~alone[c]
  /\ UNCHANGED <<source, disk, of, closure, at, edits, faults, alone>>

\* A step raises (an asset does not load, the scene is not finite, no renderer,
\* no space): _compile answers with a blocker. What was written stays.
Raise(c) ==
  /\ pc[c] # "idle" /\ faults < MaxFaults
  /\ Answer(c, Blocked)
  /\ faults' = faults + 1
  /\ spoiled' = (spoiled \/ Writing(c))
  /\ UNCHANGED <<source, disk, manifest, of, closure, at, edits, alone>>

\* The process is killed, between two steps or while it writes a file.
Crash(c) ==
  /\ pc[c] # "idle" /\ faults < MaxFaults
  /\ Answer(c, None)
  /\ faults' = faults + 1
  /\ spoiled' = (spoiled \/ Writing(c))
  /\ \/ disk' = disk
     \/ /\ pc[c] = "write" /\ at[c] <= Len(Generated[of[c]])
        /\ disk' = [disk EXCEPT ![Generated[of[c]][at[c]]] = Torn]
  /\ UNCHANGED <<source, manifest, of, closure, at, edits, alone>>

-----------------------------------------------------------------------------
(* The world outside.                                                      *)

\* The package is edited (and its checksums with it), or an edit taken back.
\* That disturbs a compile that writes if its meshes are others now.
Edit ==
  /\ edits < MaxEdits
  /\ source' \in Versions \ {source}
  /\ edits' = edits + 1
  /\ alone' = [c \in Compilers |->
                 alone[c] /\ (pc[c] = "write" => Meshes[source'] = Meshes[of[c]])]
  /\ UNCHANGED <<disk, manifest, pc, of, closure, at, answer, faults, spoiled>>

\* A file of the slot is removed while nobody compiles.
Remove ==
  /\ edits < MaxEdits /\ \A c \in Compilers : pc[c] = "idle"
  /\ edits' = edits + 1
  /\ \/ \E f \in Files : disk' = [disk EXCEPT ![f] = None] /\ manifest' = manifest
     \/ manifest' = None /\ disk' = disk
  /\ UNCHANGED <<source, pc, of, closure, at, answer, faults, alone, spoiled>>

Compile(c) ==
  \/ ReadPackage(c) \/ HashClosure(c) \/ Hit(c) \/ Unreadable(c) \/ Miss(c)
  \/ WriteFile(c) \/ OpenManifest(c) \/ CloseManifest(c) \/ Raise(c) \/ Crash(c)

Next == (\E c \in Compilers : Compile(c)) \/ Edit \/ Remove
Spec == Init /\ [][Next]_vars

-----------------------------------------------------------------------------
(* Properties.                                                             *)

TypeOK ==
  /\ source \in Versions
  /\ disk \in [Files -> Contents \cup {None, Torn}]
  /\ manifest \in Manifests \cup {None, Torn}
  /\ pc \in [Compilers -> {"idle", "digest", "lookup", "write", "publish"}]
  /\ of \in [Compilers -> Versions] /\ closure \in [Compilers -> Versions]
  /\ at \in [Compilers -> Nat]
  /\ answer \in [Compilers -> Manifests \cup {None, Blocked}]
  /\ edits \in Nat /\ faults \in Nat
  /\ alone \in [Compilers -> BOOLEAN] /\ spoiled \in BOOLEAN

\* A compile answers with a manifest in this step.
Answers(c) == pc[c] \in {"lookup", "publish"} /\ pc'[c] = "idle" /\ answer'[c] \in Manifests

\* Nothing came between: neither an edit while the package was read, nor one
\* of its meshes before they were all in the slot, nor another compile, nor
\* the remains of one that was disturbed or gave up.
Undisturbed(c) ==
  IF pc[c] = "lookup"
  THEN ~spoiled /\ closure[c] = of[c] /\ \A d \in Compilers : ~Writing(d)
  ELSE alone[c]

\* What is realized under a manifest is the package the compile read.
Current(c) == \A f \in ListedFiles(answer[c].of) : disk[f] = Realized(of[c])

\* Whatever happened before, a compile that is left alone hands out the
\* realization of the package it read, meshes included, cached or not
\* (mujoco_openusd_package.py:222-228 against the writes of 230-282). Edits
\* beside a compile are allowed as long as they leave the meshes it has yet
\* to read as they were.
CachedIsCurrent == [][\A c \in Compilers : Answers(c) /\ Undisturbed(c) => Current(c)']_vars

\* Every file a manifest lists exists when the manifest is handed out, also
\* after crashes and with two compiles at work (mujoco_openusd_package.py:225).
ListedExist ==
  [][\A c \in Compilers : Answers(c) =>
       \A f \in ListedFiles(answer'[c].of) : disk'[f] # None]_vars

\* The same of a hit, whatever happened before: it is the realization of the
\* package as it was read, the cache being invalidated by any change of the
\* scene (docs/mujoco-openusd-asset-compiler.md:414).
HitIsCurrent ==
  [][\A c \in Compilers :
       Answers(c) /\ pc[c] = "lookup" /\ of[c] = closure[c] => Current(c)']_vars
=============================================================================
