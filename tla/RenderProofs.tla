------------------------------ MODULE RenderProofs ------------------------------
(***************************************************************************)
(* Proofs about Render, for any number of renders of a project, any number *)
(* of scenes and every choice of what may fail.                            *)
(***************************************************************************)
EXTENDS Render, TLAPS

-----------------------------------------------------------------------------
(* Files.                                                                  *)

\* The names of the files of a render differ.
LEMMA Names ==
    /\ \A s \in Scenes : Inputs(s) \in FileNames /\ Clip(s) \in FileNames
    /\ Subtitles \in FileNames /\ Concat \in FileNames /\ Draft \in FileNames
    /\ \A s, t \in Scenes : /\ Inputs(s) # Clip(t)
                            /\ Clip(s) = Clip(t) => s = t
    /\ \A s \in Scenes : /\ Inputs(s) \notin {Subtitles, Concat, Draft}
                         /\ Clip(s) \notin {Subtitles, Concat, Draft}
    /\ Subtitles # Concat /\ Subtitles # Draft /\ Concat # Draft
BY DEF FileNames, Inputs, Clip, Subtitles, Concat, Draft

\* A whole file of r, and one an ffmpeg of r is writing.
Own(r) == [by |-> {r}, open |-> {}, torn |-> FALSE]
BeingWritten(r) == [by |-> {r}, open |-> {r}, torn |-> FALSE]

FilesTypeOK == files \in [FileNames -> Content]

\* No file but Absent has no maker.
FilesHaveMakers == \A f \in FileNames : files[f].by = {} => files[f] = Absent

\* Files are in a directory.
FilesInDirectory == ~isDir => \A f \in FileNames : files[f] = Absent

LEMMA AbsentType == Absent \in Content /\ Absent.by = {} /\ Absent.open = {} /\ Absent.torn = TRUE
BY DEF Absent, Content

LEMMA WriteFile ==
    ASSUME FilesTypeOK, NEW r \in Renders, NEW f \in FileNames, Write(r, f)
    PROVE  /\ FilesTypeOK'
           /\ \A g \in FileNames \ {f} : files'[g] = files[g]
           /\ files'[f].open = files[f].open
           /\ files'[f].by = {r}
           /\ files[f].open = {} => files'[f] = Own(r)
<1> DEFINE new == [by |-> {r}, open |-> files[f].open, torn |-> FALSE]
<1>1. files' = [files EXCEPT ![f] = new]
  BY DEF Write
<1>2. new \in Content
  BY DEF FilesTypeOK, Content
<1>3. new.open = files[f].open /\ new.by = {r} /\ (files[f].open = {} => new = Own(r))
  BY DEF Own
<1> HIDE DEF new
<1>4. QED
  BY <1>1, <1>2, <1>3 DEF FilesTypeOK

LEMMA OpenFile ==
    ASSUME FilesTypeOK, NEW r \in Renders, NEW output \in FileNames,
           NEW inputs \in SUBSET FileNames, Opens(r, output, inputs)
    PROVE  /\ FilesTypeOK'
           /\ \A g \in FileNames \ {output} : files'[g] = files[g]
           /\ files'[output].open = files[output].open \cup {r}
           /\ r \in files'[output].by
           /\ files[output].open = {} /\ (\A f \in inputs : files[f].by = {r})
              => files'[output] = BeingWritten(r)
<1> DEFINE by == {r} \cup UNION {files[f].by : f \in inputs}
           new == [by |-> by, open |-> files[output].open \cup {r},
                   torn |-> files[output].open # {}]
<1>1. files' = [files EXCEPT ![output] = new]
  BY DEF Opens
<1>2. by \in SUBSET Renders
  <2>1. \A f \in inputs : files[f].by \in SUBSET Renders
    BY DEF FilesTypeOK, Content
  <2>2. QED
    BY <2>1
<1>3. (\A f \in inputs : files[f].by = {r}) => by = {r}
  OBVIOUS
<1> HIDE DEF by
<1>4. new \in Content
  BY <1>2 DEF FilesTypeOK, Content
<1>5. /\ new.open = files[output].open \cup {r} /\ new.by = by
      /\ files[output].open = {} /\ by = {r} => new = BeingWritten(r)
  BY DEF BeingWritten
<1>6. r \in by
  BY DEF by
<1> HIDE DEF new
<1>7. QED
  BY <1>1, <1>3, <1>4, <1>5, <1>6 DEF FilesTypeOK

LEMMA CloseFile ==
    ASSUME FilesTypeOK, NEW r \in Renders, NEW output \in FileNames, NEW ok \in BOOLEAN,
           Closes(r, output, ok)
    PROVE  /\ FilesTypeOK'
           /\ \A g \in FileNames \ {output} : files'[g] = files[g]
           /\ files'[output].open = files[output].open \ {r}
           /\ files'[output].by = files[output].by
           /\ r \notin files[output].open => files'[output] = files[output]
           /\ ok /\ files[output] = BeingWritten(r) => files'[output] = Own(r)
<1> DEFINE old == files[output]
           new == [by |-> old.by, open |-> old.open \ {r},
                   torn |-> old.torn \/ (r \in old.open /\ ~ok)]
<1>1. files' = [files EXCEPT ![output] = new]
  BY DEF Closes
<1>2. old \in Content
  BY DEF FilesTypeOK
<1>3. new \in Content /\ new.open = old.open \ {r} /\ new.by = old.by
  BY <1>2 DEF Content
<1>4. ok /\ old = BeingWritten(r) => new = Own(r)
  <2> SUFFICES ASSUME ok, old = BeingWritten(r) PROVE new = Own(r)
    OBVIOUS
  <2>1. old.by = {r} /\ old.open = {r} /\ ~old.torn
    BY DEF BeingWritten
  <2>2. old.open \ {r} = {} /\ (old.torn \/ (r \in old.open /\ ~ok)) = FALSE
    BY <2>1
  <2>3. QED
    BY <2>1, <2>2 DEF Own
<1>5. r \notin old.open => new = old
  BY <1>2 DEF Content
<1> HIDE DEF new
<1>6. QED
  BY <1>1, <1>3, <1>4, <1>5 DEF FilesTypeOK

LEMMA TakeFile ==
    ASSUME FilesTypeOK, NEW f \in FileNames
    PROVE  /\ AsItIs(f) \in Content /\ AsItIs(f).open = {} /\ AsItIs(f).by = files[f].by
           /\ files[f] = Absent => AsItIs(f) = Absent
           /\ \A r \in Renders : files[f] = Own(r) => AsItIs(f) = Own(r)
<1>1. files[f] \in Content
  BY DEF FilesTypeOK
<1>2. AsItIs(f) \in Content /\ AsItIs(f).open = {} /\ AsItIs(f).by = files[f].by
  BY <1>1 DEF AsItIs, Content
<1>3. ASSUME files[f] = Absent PROVE AsItIs(f) = Absent
  <2>1. (files[f].torn \/ files[f].open # {}) = TRUE /\ files[f].by = {}
    BY <1>3, AbsentType
  <2>2. QED
    BY <2>1 DEF AsItIs, Absent
<1>4. ASSUME NEW r \in Renders, files[f] = Own(r) PROVE AsItIs(f) = Own(r)
  <2>1. files[f].by = {r} /\ files[f].open = {} /\ ~files[f].torn
    BY <1>4 DEF Own
  <2>2. (files[f].torn \/ files[f].open # {}) = FALSE
    BY <2>1
  <2>3. QED
    BY <2>1, <2>2 DEF AsItIs, Own
<1>5. QED
  BY <1>2, <1>3, <1>4

-----------------------------------------------------------------------------
(* Type correctness.                                                       *)

Steps == {"new", "subtitles", "inputs", "encode", "encoding", "clip",
          "concat", "concatenating", "burn", "burning", "rename",
          "draft", "manifest", "row", "cleanup", "ended"}

ControlTypeOK ==
    /\ pc \in [Renders -> Steps]
    /\ scene \in [Renders -> Scenes]
    /\ subs \in [Renders -> BOOLEAN]
    /\ isDir \in BOOLEAN

ResultTypeOK ==
    /\ draft \in Content
    /\ manifest \in BOOLEAN
    /\ rows \in Nat
    /\ stored \in [Renders -> Content]
    /\ shared \in SUBSET Renders
    /\ left \in BOOLEAN

FilesOK == FilesTypeOK /\ FilesHaveMakers /\ FilesInDirectory

Types == ControlTypeOK /\ ResultTypeOK /\ FilesOK

LEMMA TypesAreTypeOK == Types => TypeOK
BY DEF Types, ControlTypeOK, ResultTypeOK, FilesOK, FilesTypeOK, FilesInDirectory, TypeOK, Steps

\* How a step of render r changes the directory: not at all, it makes or removes
\* it, or a program opens, ends, renames or writes one file in it.
FilesStep(r) ==
    \/ UNCHANGED files /\ (isDir' = isDir \/ isDir' = TRUE)
    \/ files' = [f \in FileNames |-> Absent]
    \/ files' = [f \in FileNames |-> AsItIs(f)] /\ UNCHANGED isDir
    \/ /\ UNCHANGED isDir
       /\ \E gone \in SUBSET FileNames :
            files' = [f \in FileNames |-> IF f \in gone THEN Absent ELSE files[f]]
    \/ /\ UNCHANGED isDir
       /\ \/ isDir /\ \E f \in FileNames : Write(r, f)
          \/ isDir /\ \E output \in FileNames, inputs \in SUBSET FileNames :
                         Opens(r, output, inputs)
          \/ \E output \in FileNames, ok \in BOOLEAN : Closes(r, output, ok)
          \/ /\ files[Concat] # Absent
             /\ files' = [files EXCEPT ![Concat] = Absent, ![Draft] = AsItIs(Concat)]

LEMMA FilesKept ==
    ASSUME FilesOK, NEW r \in Renders, FilesStep(r)
    PROVE  FilesOK'
<1> USE DEF FilesOK, FilesHaveMakers, FilesInDirectory
<1>1. CASE UNCHANGED files /\ (isDir' = isDir \/ isDir' = TRUE)
  BY <1>1 DEF FilesTypeOK
<1>2. CASE files' = [f \in FileNames |-> Absent]
  BY <1>2, AbsentType DEF FilesTypeOK
<1>3. CASE files' = [f \in FileNames |-> AsItIs(f)] /\ UNCHANGED isDir
  BY <1>3, TakeFile DEF FilesTypeOK
<1>4. ASSUME UNCHANGED isDir, isDir, NEW f \in FileNames, Write(r, f) PROVE FilesOK'
  <2>1. FilesTypeOK' /\ (\A g \in FileNames \ {f} : files'[g] = files[g]) /\ files'[f].by # {}
    BY <1>4, WriteFile
  <2>2. QED
    BY <1>4, <2>1
<1>5. ASSUME UNCHANGED isDir, isDir, NEW output \in FileNames, NEW inputs \in SUBSET FileNames,
             Opens(r, output, inputs)
      PROVE  FilesOK'
  <2>1. FilesTypeOK' /\ (\A g \in FileNames \ {output} : files'[g] = files[g]) /\ files'[output].by # {}
    BY <1>5, OpenFile
  <2>2. QED
    BY <1>5, <2>1
<1>6. ASSUME UNCHANGED isDir, NEW output \in FileNames, NEW ok \in BOOLEAN, Closes(r, output, ok)
      PROVE  FilesOK'
  <2>1. /\ FilesTypeOK' /\ \A g \in FileNames \ {output} : files'[g] = files[g]
        /\ files'[output].by = files[output].by
        /\ r \notin files[output].open => files'[output] = files[output]
    BY <1>6, CloseFile
  <2>2. files[output].by = {} => files'[output] = Absent
    BY <2>1, AbsentType
  <2>3. ~isDir => files'[output] = Absent
    BY <2>1, AbsentType
  <2>4. QED
    BY <1>6, <2>1, <2>2, <2>3
<1>7. ASSUME UNCHANGED isDir, files[Concat] # Absent,
             files' = [files EXCEPT ![Concat] = Absent, ![Draft] = AsItIs(Concat)]
      PROVE  FilesOK'
  <2>1. /\ FilesTypeOK' /\ files'[Concat] = Absent /\ files'[Draft] = AsItIs(Concat)
        /\ \A g \in FileNames \ {Concat, Draft} : files'[g] = files[g]
    BY <1>7, Names, TakeFile, AbsentType DEF FilesTypeOK
  <2>2. isDir /\ AsItIs(Concat).by # {}
    BY <1>7, Names, TakeFile
  <2>3. QED
    BY <1>7, <2>1, <2>2
<1>8. ASSUME UNCHANGED isDir, NEW gone \in SUBSET FileNames,
             files' = [f \in FileNames |-> IF f \in gone THEN Absent ELSE files[f]]
      PROVE  FilesOK'
  <2>1. \A f \in FileNames : files'[f] \in {Absent, files[f]}
    BY <1>8
  <2>2. FilesTypeOK'
    BY <1>8, AbsentType DEF FilesTypeOK
  <2>3. QED
    BY <1>8, <2>1, <2>2
<1>9. QED
  BY <1>1, <1>2, <1>3, <1>4, <1>5, <1>6, <1>7, <1>8 DEF FilesStep

LEMMA TypeInit == Init => Types
<1> SUFFICES ASSUME Init PROVE Types
  OBVIOUS
<1>1. 1 \in Scenes
  BY RenderAssumption DEF Scenes
<1>2. ControlTypeOK
  BY <1>1 DEF Init, ControlTypeOK, Steps
<1>3. ResultTypeOK
  BY AbsentType DEF Init, ResultTypeOK
<1>4. FilesOK
  BY AbsentType DEF Init, FilesOK, FilesTypeOK, FilesHaveMakers, FilesInDirectory
<1>5. QED
  BY <1>2, <1>3, <1>4 DEF Types

\* What is usable is there, and so is its directory.
LEMMA UsableIsThere ==
    ASSUME FilesOK, NEW f \in FileNames, files[f] # Absent \/ Usable(f)
    PROVE  isDir /\ files[f] # Absent
BY AbsentType DEF FilesOK, FilesInDirectory, Usable

LEMMA StepTypes ==
    ASSUME Types, NEW r \in Renders, Begin(r) \/ BeginFails(r) \/ RenderStep(r)
    PROVE  ControlTypeOK' /\ ResultTypeOK' /\ FilesStep(r)
<1> DEFINE Goal == ControlTypeOK' /\ ResultTypeOK' /\ FilesStep(r)
<1> USE DEF Types, ControlTypeOK, ResultTypeOK, Steps, Goto, Return, FilesStep,
            fileVars, resultVars, history
<1>1. CASE Begin(r)
  BY <1>1 DEF Begin
<1>2. CASE BeginFails(r)
  BY <1>2 DEF BeginFails
<1>3. CASE FetchSubtitles(r)
  BY <1>3, Names DEF FetchSubtitles
<1>4. CASE NoSubtitles(r)
  BY <1>4 DEF NoSubtitles
<1>5. CASE FetchInputs(r)
  BY <1>5, Names DEF FetchInputs
<1>6. CASE Encode(r)
  <2>1. Inputs(scene[r]) \in FileNames /\ Clip(scene[r]) \in FileNames
    BY Names
  <2>2. isDir /\ {Inputs(scene[r])} \in SUBSET FileNames
    BY <1>6, <2>1, UsableIsThere DEF Encode
  <2>3. QED
    BY <1>6, <2>1, <2>2 DEF Encode
<1>7. CASE Encoded(r)
  BY <1>7, Names DEF Encoded
<1>8. CASE StoreClip(r)
  <2>1. scene' \in [Renders -> Scenes]
    BY <1>8, RenderAssumption DEF StoreClip, AtLast, Scenes
  <2>2. QED
    BY <1>8, <2>1 DEF StoreClip
<1>9. CASE ConcatClips(r)
  <2>1. 1 \in Scenes /\ {Clip(s) : s \in Scenes} \in SUBSET FileNames
    BY Names, RenderAssumption DEF Scenes
  <2>2. isDir
    BY <1>9, <2>1, Names, UsableIsThere DEF ConcatClips
  <2>3. QED
    BY <1>9, <2>1, <2>2, Names DEF ConcatClips
<1>10. CASE Concatenated(r)
  BY <1>10, Names DEF Concatenated
<1>11. CASE Burn(r)
  <2>1. isDir /\ {Concat, Subtitles} \in SUBSET FileNames
    BY <1>11, Names, UsableIsThere DEF Burn
  <2>2. QED
    BY <1>11, <2>1, Names DEF Burn
<1>12. CASE Burnt(r)
  BY <1>12, Names DEF Burnt
<1>13. CASE BurnFails(r)
  BY <1>13, Names DEF BurnFails
<1>14. CASE RenameConcat(r)
  BY <1>14 DEF RenameConcat
<1>15. CASE StoreDraft(r)
  <2>1. AsItIs(Draft) \in Content
    BY Names, TakeFile DEF FilesOK
  <2>2. draft' \in Content /\ stored' \in [Renders -> Content]
    BY <1>15, <2>1 DEF StoreDraft
  <2>3. QED
    BY <1>15, <2>2 DEF StoreDraft
<1>16. CASE StoreManifest(r)
  BY <1>16 DEF StoreManifest
<1>17. CASE CreateRow(r)
  BY <1>17 DEF CreateRow
<1>18. CASE Error(r)
  <2>1. UNCHANGED files \/ \E output \in FileNames, ok \in BOOLEAN : Closes(r, output, ok)
    BY <1>18, Names DEF Error
  <2>2. QED
    BY <1>18, <2>1 DEF Error
<1>19. CASE CleanUp(r)
  BY <1>19 DEF CleanUp
<1>20. CASE CleanUpFails(r)
  <2>1. \E gone \in SUBSET FileNames :
           files' = [f \in FileNames |-> IF f \in gone THEN Absent ELSE files[f]]
    BY <1>20 DEF CleanUpFails
  <2>2. QED
    BY <1>20, <2>1 DEF CleanUpFails
<1>21. QED
  BY <1>1, <1>2, <1>3, <1>4, <1>5, <1>6, <1>7, <1>8, <1>9, <1>10, <1>11, <1>12, <1>13, <1>14,
     <1>15, <1>16, <1>17, <1>18, <1>19, <1>20 DEF RenderStep

LEMMA CrashTypes ==
    ASSUME Types, Crash
    PROVE  ControlTypeOK' /\ ResultTypeOK' /\ FilesOK'
<1>1. PICK r \in Renders : Active(r)
  BY DEF Crash
<1>2. FilesStep(r)
  BY DEF Crash, FilesStep
<1>3. FilesOK'
  BY <1>2, FilesKept DEF Types
<1>4. QED
  BY <1>3 DEF Crash, Types, ControlTypeOK, ResultTypeOK, Steps, resultVars

LEMMA TypeStep ==
    ASSUME Types, [Next]_vars
    PROVE  Types'
<1>1. ASSUME NEW r \in Renders, Begin(r) \/ BeginFails(r) \/ RenderStep(r) PROVE Types'
  BY <1>1, StepTypes, FilesKept DEF Types
<1>2. CASE Crash
  BY <1>2, CrashTypes DEF Types
<1>3. CASE UNCHANGED vars
  BY <1>3 DEF vars, Types, ControlTypeOK, ResultTypeOK, FilesOK, FilesTypeOK, FilesHaveMakers,
              FilesInDirectory
<1>4. QED
  BY <1>1, <1>2, <1>3 DEF Next

LEMMA Typed == Spec => []Types
BY TypeInit, TypeStep, PTL DEF Spec

\* Type correctness, whatever fails or crashes; and no file outlasts its directory.
THEOREM TypeCorrect == Spec => []TypeOK
BY Typed, TypesAreTypeOK, PTL

-----------------------------------------------------------------------------
(* The directory and the row.                                              *)

\* A step of r makes r active or keeps it so, except when it ends it.
LEMMA NothingLeftStep ==
    ASSUME Types, NothingLeftBehind, [Next]_vars
    PROVE  NothingLeftBehind'
<1> USE DEF NothingLeftBehind, Active, Goto, Return, fileVars, history
<1>1. ASSUME NEW r \in Renders, CleanUp(r) \/ CleanUpFails(r) PROVE NothingLeftBehind'
  BY <1>1 DEF CleanUp, CleanUpFails
<1>2. ASSUME NEW r \in Renders, BeginFails(r) PROVE NothingLeftBehind'
  BY <1>2 DEF BeginFails, Types, ControlTypeOK
<1>3. ASSUME NEW r \in Renders, Begin(r) \/ RenderStep(r), ~CleanUp(r), ~CleanUpFails(r)
      PROVE  NothingLeftBehind'
  <2>1. Active(r)'
    BY <1>3 DEF Types, ControlTypeOK, RenderStep, Begin, FetchSubtitles, NoSubtitles, FetchInputs,
       Encode, Encoded, StoreClip, ConcatClips, Concatenated, Burn, Burnt, BurnFails,
       RenameConcat, StoreDraft, StoreManifest, CreateRow, Error
  <2>2. QED
    BY <2>1
<1>4. CASE Crash
  BY <1>4 DEF Crash
<1>5. CASE UNCHANGED vars
  BY <1>5 DEF vars
<1>6. QED
  BY <1>1, <1>2, <1>3, <1>4, <1>5 DEF Next, RenderStep

\* The deferred RemoveAll runs however Render returns: once no render is under way
\* the directory is gone, unless the last one crashed or could not remove it.
THEOREM DirectoryIsRemoved == Spec => []NothingLeftBehind
<1>1. Init => NothingLeftBehind
  BY DEF Init, NothingLeftBehind
<1>2. Types /\ NothingLeftBehind /\ [Next]_vars => NothingLeftBehind'
  BY NothingLeftStep
<1>3. QED
  BY <1>1, <1>2, Typed, PTL DEF Spec

\* A render that has stored its draft, and its manifest.
Stored ==
    /\ (\E r \in Renders : pc[r] \in {"manifest", "row"}) => draft # Absent
    /\ (\E r \in Renders : pc[r] = "row") => manifest
    /\ RowHasVideo

LEMMA StoredStep ==
    ASSUME Types, Stored, [Next]_vars
    PROVE  Stored'
<1> USE DEF Stored, RowHasVideo, Goto, Return, resultVars, Types, ControlTypeOK
<1>1. ASSUME NEW r \in Renders, StoreDraft(r) PROVE Stored'
  <2>1. AsItIs(Draft) # Absent
    BY <1>1, Names, TakeFile, AbsentType DEF StoreDraft, FilesOK, FilesHaveMakers
  <2>2. QED
    BY <1>1, <2>1 DEF StoreDraft
<1>2. ASSUME NEW r \in Renders, StoreManifest(r) PROVE Stored'
  BY <1>2 DEF StoreManifest
<1>3. ASSUME NEW r \in Renders, CreateRow(r) PROVE Stored'
  BY <1>3 DEF CreateRow
<1>4. ASSUME NEW r \in Renders,
             Begin(r) \/ BeginFails(r) \/ FetchSubtitles(r) \/ NoSubtitles(r) \/ FetchInputs(r)
               \/ Encode(r) \/ Encoded(r) \/ StoreClip(r)
      PROVE  Stored'
  BY <1>4 DEF Begin, BeginFails, FetchSubtitles, NoSubtitles, FetchInputs, Encode, Encoded, StoreClip
<1>5. ASSUME NEW r \in Renders,
             ConcatClips(r) \/ Concatenated(r) \/ Burn(r) \/ Burnt(r) \/ BurnFails(r)
               \/ RenameConcat(r) \/ Error(r) \/ CleanUp(r) \/ CleanUpFails(r)
      PROVE  Stored'
  BY <1>5 DEF ConcatClips, Concatenated, Burn, Burnt, BurnFails, RenameConcat, Error, CleanUp,
     CleanUpFails
<1>6. CASE Crash
  BY <1>6 DEF Crash
<1>7. CASE UNCHANGED vars
  BY <1>7 DEF vars
<1>8. QED
  BY <1>1, <1>2, <1>3, <1>4, <1>5, <1>6, <1>7 DEF Next, RenderStep

\* Render creates its row last: whoever finds one finds a video and a manifest.
THEOREM RowsHaveVideos == Spec => []RowHasVideo
<1>1. Init => Stored
  BY DEF Init, Stored, RowHasVideo
<1>2. Types /\ Stored /\ [Next]_vars => Stored'
  BY StoredStep
<1>3. Stored => RowHasVideo
  BY DEF Stored
<1>4. QED
  BY <1>1, <1>2, <1>3, Typed, PTL DEF Spec

-----------------------------------------------------------------------------
(* A render that nobody overlapped.                                        *)

\* The file an ffmpeg of r writes at its present step.
WritesTo(r, f) ==
    \/ pc[r] = "encoding" /\ f = Clip(scene[r])
    \/ pc[r] = "concatenating" /\ f = Concat
    \/ pc[r] = "burning" /\ f = Draft

\* Only a render at the step of an ffmpeg has a file open: the one it writes.
OpenIsWriting == \A f \in FileNames : \A r \in files[f].open : WritesTo(r, f)

\* Two renders under way know of each other.
Overlap == \A r, v \in Renders : r # v /\ Active(r) /\ Active(v) => r \in shared

IsOwn(r, f) == files[f] = Own(r)

\* What a lone render has written so far, as far as it needs it.
OwnFiles(r) ==
    /\ subs[r] /\ pc[r] \notin {"rename", "draft", "manifest", "row", "cleanup"}
         => IsOwn(r, Subtitles)
    /\ pc[r] = "encode" => IsOwn(r, Inputs(scene[r]))
    /\ pc[r] = "encoding" => files[Clip(scene[r])] = BeingWritten(r)
    /\ pc[r] = "clip" => IsOwn(r, Clip(scene[r]))
    /\ pc[r] \in {"inputs", "encode", "encoding", "clip"} =>
         \A s \in 1..(scene[r] - 1) : IsOwn(r, Clip(s))
    /\ pc[r] = "concat" => \A s \in Scenes : IsOwn(r, Clip(s))
    /\ pc[r] = "concatenating" => files[Concat] = BeingWritten(r)
    /\ pc[r] \in {"burn", "burning", "rename"} => IsOwn(r, Concat)
    /\ pc[r] \in {"burn", "burning"} => subs[r]
    /\ pc[r] = "burning" => files[Draft] = BeingWritten(r)
    /\ pc[r] = "draft" => IsOwn(r, Draft)

Lone(r) ==
    /\ pc[r] \in {"new", "subtitles"} => scene[r] = 1 /\ ~subs[r]
    /\ Active(r) => isDir /\ OwnFiles(r)
    /\ stored[r] # Absent => stored[r] = Own(r)

LoneInv == OpenIsWriting /\ Overlap /\ \A r \in Renders \ shared : Lone(r)

LEMMA LoneInit == Init => LoneInv
BY AbsentType DEF Init, LoneInv, OpenIsWriting, Overlap, Lone, Active

\* If r opens no file but the one it is about to write, and closes it before it
\* goes on, only writers have files open.
LEMMA OnlyWritersOpen ==
    ASSUME Types, OpenIsWriting, NEW r \in Renders,
           \A v \in Renders \ {r} : pc'[v] = pc[v] /\ scene'[v] = scene[v],
           \A f \in FileNames : files'[f].open \ {r} \subseteq files[f].open,
           \A f \in FileNames : r \in files'[f].open => WritesTo(r, f)'
    PROVE  OpenIsWriting'
<1> SUFFICES ASSUME NEW f \in FileNames, NEW v \in files'[f].open
             PROVE  WritesTo(v, f)'
  BY DEF OpenIsWriting
<1>1. CASE v = r
  BY <1>1
<1>2. CASE v # r
  <2>1. v \in files[f].open
    BY <1>2
  <2>2. v \in Renders
    BY <2>1 DEF Types, FilesOK, FilesTypeOK, Content
  <2>3. pc'[v] = pc[v] /\ scene'[v] = scene[v] /\ WritesTo(v, f)
    BY <1>2, <2>1, <2>2 DEF OpenIsWriting
  <2>4. QED
    BY <2>3 DEF WritesTo
<1>3. QED
  BY <1>1, <1>2

LEMMA OpenStep ==
    ASSUME Types, OpenIsWriting, NEW r \in Renders,
           Begin(r) \/ BeginFails(r) \/ RenderStep(r)
    PROVE  OpenIsWriting'
<1> USE DEF Goto, Return, fileVars
<1>1. \A v \in Renders \ {r} : pc'[v] = pc[v] /\ scene'[v] = scene[v]
  BY DEF Types, ControlTypeOK, RenderStep, Begin, BeginFails, FetchSubtitles, NoSubtitles, FetchInputs,
         Encode, Encoded, StoreClip, ConcatClips, Concatenated, Burn, Burnt, BurnFails, RenameConcat,
         StoreDraft, StoreManifest, CreateRow, Error, CleanUp,
         CleanUpFails
<1>2. ASSUME pc[r] \notin {"encoding", "concatenating", "burning"},
             \A f \in FileNames : files'[f].open \subseteq files[f].open
      PROVE  OpenIsWriting'
  <2>1. \A f \in FileNames : r \notin files'[f].open
    BY <1>2 DEF OpenIsWriting, WritesTo
  <2>2. QED
    BY <1>1, <1>2, <2>1, OnlyWritersOpen
<1>3. ASSUME NEW output \in FileNames, NEW inputs \in SUBSET FileNames, Opens(r, output, inputs),
             pc[r] \notin {"encoding", "concatenating", "burning"}, WritesTo(r, output)'
      PROVE  OpenIsWriting'
  <2>1. /\ \A g \in FileNames \ {output} : files'[g] = files[g]
        /\ files'[output].open = files[output].open \cup {r}
    BY <1>3, OpenFile DEF Types, FilesOK
  <2>2. \A f \in FileNames : r \notin files[f].open
    BY <1>3 DEF OpenIsWriting, WritesTo
  <2>3. \A f \in FileNames : files'[f].open \ {r} \subseteq files[f].open
    BY <2>1
  <2>4. \A f \in FileNames : r \in files'[f].open => f = output
    BY <2>1, <2>2
  <2>5. QED
    BY <1>1, <1>3, <2>3, <2>4, OnlyWritersOpen
<1>4. ASSUME NEW output \in FileNames, NEW ok \in BOOLEAN, Closes(r, output, ok), WritesTo(r, output)
      PROVE  OpenIsWriting'
  <2>1. /\ \A g \in FileNames \ {output} : files'[g] = files[g]
        /\ files'[output].open = files[output].open \ {r}
    BY <1>4, CloseFile DEF Types, FilesOK
  <2>2. \A f \in FileNames : r \in files[f].open => f = output
    BY <1>4 DEF OpenIsWriting, WritesTo
  <2>3. \A f \in FileNames : files'[f].open \subseteq files[f].open /\ r \notin files'[f].open
    BY <2>1, <2>2
  <2>4. QED
    BY <1>1, <2>3, OnlyWritersOpen
<1>5. CASE \/ Begin(r) \/ BeginFails(r) \/ NoSubtitles(r) \/ StoreClip(r) \/ StoreDraft(r)
           \/ StoreManifest(r) \/ CreateRow(r)
  BY <1>2, <1>5 DEF Begin, BeginFails, NoSubtitles, StoreClip, StoreDraft, StoreManifest, CreateRow
<1>6. CASE FetchSubtitles(r) \/ FetchInputs(r)
  <2>1. PICK f \in FileNames : Write(r, f) /\ pc[r] \notin {"encoding", "concatenating", "burning"}
    BY <1>6, Names DEF FetchSubtitles, FetchInputs, Types, ControlTypeOK
  <2>2. /\ \A g \in FileNames \ {f} : files'[g] = files[g]
        /\ files'[f].open = files[f].open
    BY <2>1, WriteFile DEF Types, FilesOK
  <2>3. QED
    BY <1>2, <2>1, <2>2
<1>7. CASE Encode(r)
  <2>1. Inputs(scene[r]) \in FileNames /\ Clip(scene[r]) \in FileNames
    BY Names DEF Types, ControlTypeOK
  <2>2. WritesTo(r, Clip(scene[r]))'
    BY <1>7 DEF Encode, WritesTo, Types, ControlTypeOK
  <2>3. QED
    BY <1>3, <1>7, <2>1, <2>2 DEF Encode
<1>8. CASE ConcatClips(r)
  <2>1. {Clip(s) : s \in Scenes} \in SUBSET FileNames /\ Concat \in FileNames
    BY Names
  <2>2. WritesTo(r, Concat)'
    BY <1>8 DEF ConcatClips, WritesTo, Types, ControlTypeOK
  <2>3. QED
    BY <1>3, <1>8, <2>1, <2>2 DEF ConcatClips
<1>9. CASE Burn(r)
  <2>1. {Concat, Subtitles} \in SUBSET FileNames /\ Draft \in FileNames
    BY Names
  <2>2. WritesTo(r, Draft)'
    BY <1>9 DEF Burn, WritesTo, Types, ControlTypeOK
  <2>3. QED
    BY <1>3, <1>9, <2>1, <2>2 DEF Burn
<1>10. CASE Encoded(r) \/ Concatenated(r) \/ Burnt(r)
  <2>1. PICK output \in FileNames : Closes(r, output, TRUE) /\ WritesTo(r, output)
    BY <1>10, Names DEF Encoded, Concatenated, Burnt, WritesTo, Types, ControlTypeOK
  <2>2. QED
    BY <1>4, <2>1
<1>11. CASE BurnFails(r) \/ Error(r)
  <2>1. CASE pc[r] \notin {"encoding", "concatenating", "burning"}
    BY <1>2, <1>11, <2>1 DEF BurnFails, Error
  <2>2. CASE pc[r] \in {"encoding", "concatenating", "burning"}
    <3>1. PICK output \in FileNames : Closes(r, output, FALSE) /\ WritesTo(r, output)
      BY <1>11, <2>2, Names
         DEF BurnFails, Error, MissesFile, CallFails, WritesTo, Types, ControlTypeOK
    <3>2. QED
      BY <1>4, <3>1
  <2>3. QED
    BY <2>1, <2>2
<1>12. CASE RenameConcat(r)
  <2>1. /\ files'[Concat] = Absent /\ files'[Draft] = AsItIs(Concat)
        /\ \A g \in FileNames \ {Concat, Draft} : files'[g] = files[g]
    BY <1>12, Names DEF RenameConcat, Types, FilesOK, FilesTypeOK
  <2>2. AsItIs(Concat).open = {} /\ Absent.open = {}
    BY Names, TakeFile, AbsentType DEF Types, FilesOK
  <2>3. QED
    BY <1>2, <1>12, <2>1, <2>2 DEF RenameConcat
<1>13. CASE CleanUp(r)
  BY <1>2, <1>13, AbsentType DEF CleanUp
<1>14. CASE CleanUpFails(r)
  <2>1. pc[r] = "cleanup" /\ \A f \in FileNames : files'[f] \in {Absent, files[f]}
    BY <1>14 DEF CleanUpFails
  <2>2. QED
    BY <1>2, <2>1, AbsentType
<1>15. QED
  BY <1>5, <1>6, <1>7, <1>8, <1>9, <1>10, <1>11, <1>12, <1>13, <1>14 DEF RenderStep

LEMMA OverlapStep ==
    ASSUME Types, Overlap, NEW r \in Renders, Begin(r) \/ BeginFails(r) \/ RenderStep(r)
    PROVE  Overlap' /\ shared \subseteq shared'
<1> USE DEF Goto, Return, history, Active, Types, ControlTypeOK, Overlap
<1>1. CASE Begin(r)
  <2> DEFINE others == {v \in Renders \ {r} : Active(v)}
  <2>1. shared' = shared \cup (IF others = {} THEN {} ELSE others \cup {r})
    BY <1>1 DEF Begin
  <2>2. ASSUME NEW a \in Renders, NEW b \in Renders, a # b, Active(a)', Active(b)'
        PROVE  a \in shared'
    <3>1. CASE a = r
      <4>1. b \in others
        BY <1>1, <2>2, <3>1 DEF Begin
      <4>2. QED
        BY <2>1, <3>1, <4>1
    <3>2. CASE a # r
      <4>1. a \in others
        BY <1>1, <2>2, <3>2 DEF Begin
      <4>2. QED
        BY <2>1, <4>1
    <3>3. QED
      BY <3>1, <3>2
  <2>3. QED
    BY <2>1, <2>2
<1>2. CASE BeginFails(r)
  BY <1>2 DEF BeginFails
<1>3. CASE RenderStep(r)
  <2>1. UNCHANGED shared /\ Active(r) /\ \A v \in Renders \ {r} : pc'[v] = pc[v]
    BY <1>3 DEF RenderStep, FetchSubtitles, NoSubtitles, FetchInputs, Encode, Encoded, StoreClip,
       ConcatClips, Concatenated, Burn, Burnt, BurnFails, RenameConcat, StoreDraft, StoreManifest,
       CreateRow, Error, CleanUp, CleanUpFails, MissesFile, CallFails
  <2>2. QED
    BY <2>1
<1>4. QED
  BY <1>1, <1>2, <1>3

\* No other render has a file of a lone one open.
LEMMA NoOtherWriter ==
    ASSUME Types, LoneInv, NEW r \in Renders \ shared, Active(r),
           NEW f \in FileNames, ~WritesTo(r, f)
    PROVE  files[f].open = {}
<1> SUFFICES ASSUME NEW v \in files[f].open PROVE FALSE
  OBVIOUS
<1>1. v \in Renders
  BY DEF Types, FilesOK, FilesTypeOK, Content
<1>2. WritesTo(v, f)
  BY DEF LoneInv, OpenIsWriting
<1>3. Active(v)
  BY <1>2 DEF WritesTo, Active
<1>4. v # r
  BY <1>2
<1>5. r \in shared
  BY <1>1, <1>3, <1>4 DEF LoneInv, Overlap
<1>6. QED
  BY <1>5

\* A lone render keeps what it owns and adds to it, step by step.
LEMMA OwnStep ==
    ASSUME Types, LoneInv, NEW r \in Renders \ shared, RenderStep(r), Active(r)
    PROVE  Lone(r)'
<1> USE DEF Goto, Return, fileVars, resultVars, IsOwn
<1>1. /\ isDir /\ OwnFiles(r)
      /\ pc[r] \in {"new", "subtitles"} => scene[r] = 1 /\ ~subs[r]
      /\ stored[r] # Absent => stored[r] = Own(r)
  BY DEF LoneInv, Lone
<1>2. \A f \in FileNames : ~WritesTo(r, f) => files[f].open = {}
  BY NoOtherWriter
<1>3. /\ pc \in [Renders -> Steps] /\ scene \in [Renders -> Scenes]
      /\ subs \in [Renders -> BOOLEAN] /\ stored \in [Renders -> Content]
      /\ FilesTypeOK /\ r \in Renders /\ scene[r] \in Scenes
  BY DEF Types, ControlTypeOK, ResultTypeOK, FilesOK
<1>4. \A s \in 1..(scene[r] - 1) : s \in Scenes /\ s # scene[r]
  BY <1>3, RenderAssumption DEF Scenes
<1>5. CASE FetchSubtitles(r)
  <2>1. files'[Subtitles] = Own(r)
    BY <1>2, <1>3, <1>5, Names, WriteFile DEF FetchSubtitles, WritesTo
  <2>2. pc'[r] = "inputs" /\ scene'[r] = 1 /\ isDir' /\ stored'[r] = stored[r]
    BY <1>1, <1>3, <1>5 DEF FetchSubtitles
  <2>3. QED
    BY <1>1, <2>1, <2>2 DEF Lone, OwnFiles
<1>6. CASE NoSubtitles(r)
  <2>1. pc'[r] = "inputs" /\ scene'[r] = 1 /\ ~subs'[r] /\ isDir' /\ stored'[r] = stored[r]
    BY <1>1, <1>3, <1>6 DEF NoSubtitles
  <2>2. QED
    BY <1>1, <2>1 DEF Lone, OwnFiles
<1>7. CASE FetchInputs(r)
  <2> DEFINE f == Inputs(scene[r])
  <2>1. f \in FileNames /\ ~WritesTo(r, f)
    BY <1>3, <1>7, Names DEF FetchInputs, WritesTo
  <2>2. files'[f] = Own(r) /\ \A g \in FileNames \ {f} : files'[g] = files[g]
    BY <1>2, <1>3, <1>7, <2>1, WriteFile DEF FetchInputs
  <2>3. /\ pc[r] = "inputs" /\ pc'[r] = "encode" /\ scene'[r] = scene[r] /\ subs'[r] = subs[r]
        /\ isDir' /\ stored'[r] = stored[r]
    BY <1>1, <1>3, <1>7 DEF FetchInputs
  <2>4. /\ files'[Subtitles] = files[Subtitles]
        /\ \A s \in 1..(scene[r] - 1) : files'[Clip(s)] = files[Clip(s)]
    BY <1>3, <1>4, <2>2, Names
  <2>5. QED
    BY <1>1, <2>2, <2>3, <2>4 DEF Lone, OwnFiles
<1>8. CASE Encode(r)
  <2> DEFINE f == Clip(scene[r])
             in == Inputs(scene[r])
  <2>1. f \in FileNames /\ {in} \in SUBSET FileNames /\ ~WritesTo(r, f)
    BY <1>3, <1>8, Names DEF Encode, WritesTo
  <2>2. files[in].by = {r} /\ files[f].open = {}
    BY <1>1, <1>2, <1>8, <2>1 DEF Encode, OwnFiles, Own
  <2>3. files'[f] = BeingWritten(r) /\ \A g \in FileNames \ {f} : files'[g] = files[g]
    BY <1>3, <1>8, <2>1, <2>2, OpenFile DEF Encode
  <2>4. /\ pc[r] = "encode" /\ pc'[r] = "encoding" /\ scene'[r] = scene[r] /\ subs'[r] = subs[r]
        /\ isDir' /\ stored'[r] = stored[r]
    BY <1>1, <1>3, <1>8 DEF Encode
  <2>5. /\ files'[Subtitles] = files[Subtitles]
        /\ \A s \in 1..(scene[r] - 1) : files'[Clip(s)] = files[Clip(s)]
    BY <1>3, <1>4, <2>3, Names
  <2>6. QED
    BY <1>1, <2>3, <2>4, <2>5 DEF Lone, OwnFiles
<1>9. CASE Encoded(r)
  <2> DEFINE f == Clip(scene[r])
  <2>1. f \in FileNames /\ files[f] = BeingWritten(r)
    BY <1>1, <1>3, <1>9, Names DEF Encoded, OwnFiles
  <2>2. files'[f] = Own(r) /\ \A g \in FileNames \ {f} : files'[g] = files[g]
    BY <1>3, <1>9, <2>1, CloseFile DEF Encoded
  <2>3. /\ pc[r] = "encoding" /\ pc'[r] = "clip" /\ scene'[r] = scene[r] /\ subs'[r] = subs[r]
        /\ isDir' /\ stored'[r] = stored[r]
    BY <1>1, <1>3, <1>9 DEF Encoded
  <2>4. /\ files'[Subtitles] = files[Subtitles]
        /\ \A s \in 1..(scene[r] - 1) : files'[Clip(s)] = files[Clip(s)]
    BY <1>3, <1>4, <2>2, Names
  <2>5. QED
    BY <1>1, <2>2, <2>3, <2>4 DEF Lone, OwnFiles
<1>10. CASE StoreClip(r)
  <2>1. \A s \in 1..scene[r] : files[Clip(s)] = Own(r)
    <3>1. \A s \in 1..scene[r] : s \in 1..(scene[r] - 1) \/ s = scene[r]
      BY <1>3 DEF Scenes
    <3>2. QED
      BY <1>1, <1>10, <3>1 DEF StoreClip, OwnFiles
  <2>2. /\ UNCHANGED files /\ subs'[r] = subs[r] /\ isDir' /\ stored'[r] = stored[r]
        /\ pc[r] = "clip"
    BY <1>1, <1>10 DEF StoreClip
  <2>3. CASE ~AtLast(r)
    <3>1. pc'[r] = "inputs" /\ scene'[r] = scene[r] + 1 /\ 1..(scene'[r] - 1) = 1..scene[r]
      BY <1>3, <1>10, <2>3 DEF StoreClip, Scenes
    <3>2. QED
      BY <1>1, <2>1, <2>2, <3>1 DEF Lone, OwnFiles
  <2>4. CASE AtLast(r)
    <3>1. pc'[r] = "concat" /\ 1..scene[r] = Scenes
      BY <1>3, <1>10, <2>4 DEF StoreClip, Scenes, AtLast
    <3>2. QED
      BY <1>1, <2>1, <2>2, <3>1 DEF Lone, OwnFiles
  <2>5. QED
    BY <2>3, <2>4
<1>11. CASE ConcatClips(r)
  <2> DEFINE in == {Clip(s) : s \in Scenes}
  <2>1. in \in SUBSET FileNames /\ Concat \in FileNames /\ ~WritesTo(r, Concat)
    BY <1>3, <1>11, Names DEF ConcatClips, WritesTo
  <2>2. (\A f \in in : files[f].by = {r}) /\ files[Concat].open = {}
    BY <1>1, <1>2, <1>11, <2>1 DEF ConcatClips, OwnFiles, Own
  <2>3. files'[Concat] = BeingWritten(r) /\ \A g \in FileNames \ {Concat} : files'[g] = files[g]
    BY <1>3, <1>11, <2>1, <2>2, OpenFile DEF ConcatClips
  <2>4. /\ pc[r] = "concat" /\ pc'[r] = "concatenating" /\ subs'[r] = subs[r]
        /\ isDir' /\ stored'[r] = stored[r] /\ files'[Subtitles] = files[Subtitles]
    BY <1>1, <1>3, <1>11, <2>3, Names DEF ConcatClips
  <2>5. QED
    BY <1>1, <2>3, <2>4 DEF Lone, OwnFiles
<1>12. CASE Concatenated(r)
  <2>1. Concat \in FileNames /\ files[Concat] = BeingWritten(r)
    BY <1>1, <1>12, Names DEF Concatenated, OwnFiles
  <2>2. files'[Concat] = Own(r) /\ \A g \in FileNames \ {Concat} : files'[g] = files[g]
    BY <1>3, <1>12, <2>1, CloseFile DEF Concatenated
  <2>3. /\ pc[r] = "concatenating" /\ pc'[r] = (IF subs[r] THEN "burn" ELSE "rename")
        /\ subs'[r] = subs[r] /\ isDir' /\ stored'[r] = stored[r]
        /\ files'[Subtitles] = files[Subtitles]
    BY <1>1, <1>3, <1>12, <2>2, Names DEF Concatenated
  <2>4. pc'[r] \in {"burn", "rename"} /\ (pc'[r] = "burn" => subs[r])
    BY <1>3, <2>3
  <2>5. QED
    BY <1>1, <2>2, <2>3, <2>4 DEF Lone, OwnFiles
<1>13. CASE Burn(r)
  <2> DEFINE in == {Concat, Subtitles}
  <2>1. in \in SUBSET FileNames /\ Draft \in FileNames /\ ~WritesTo(r, Draft)
    BY <1>3, <1>13, Names DEF Burn, WritesTo
  <2>2. (\A f \in in : files[f].by = {r}) /\ files[Draft].open = {}
    BY <1>1, <1>2, <1>13, <2>1 DEF Burn, OwnFiles, Own
  <2>3. files'[Draft] = BeingWritten(r) /\ \A g \in FileNames \ {Draft} : files'[g] = files[g]
    BY <1>3, <1>13, <2>1, <2>2, OpenFile DEF Burn
  <2>4. /\ pc[r] = "burn" /\ pc'[r] = "burning" /\ subs'[r] = subs[r]
        /\ isDir' /\ stored'[r] = stored[r]
        /\ files'[Subtitles] = files[Subtitles] /\ files'[Concat] = files[Concat]
    BY <1>1, <1>3, <1>13, <2>3, Names DEF Burn
  <2>5. QED
    BY <1>1, <2>3, <2>4 DEF Lone, OwnFiles
<1>14. CASE Burnt(r)
  <2>1. Draft \in FileNames /\ files[Draft] = BeingWritten(r)
    BY <1>1, <1>14, Names DEF Burnt, OwnFiles
  <2>2. files'[Draft] = Own(r)
    BY <1>3, <1>14, <2>1, CloseFile DEF Burnt
  <2>3. pc'[r] = "draft" /\ isDir' /\ stored'[r] = stored[r]
    BY <1>1, <1>3, <1>14 DEF Burnt
  <2>4. QED
    BY <1>1, <2>2, <2>3 DEF Lone, OwnFiles
<1>15. CASE BurnFails(r)
  <2>1. files'[Concat] = files[Concat]
    BY <1>3, <1>15, Names, CloseFile DEF BurnFails
  <2>2. pc[r] \in {"burn", "burning"} /\ pc'[r] = "rename" /\ isDir' /\ stored'[r] = stored[r]
    BY <1>1, <1>3, <1>15 DEF BurnFails
  <2>3. QED
    BY <1>1, <2>1, <2>2 DEF Lone, OwnFiles
<1>16. CASE RenameConcat(r)
  <2>1. files[Concat] = Own(r) /\ Concat \in FileNames
    BY <1>1, <1>16, Names DEF RenameConcat, OwnFiles
  <2>2. AsItIs(Concat) = Own(r)
    BY <1>3, <2>1, TakeFile
  <2>3. files'[Draft] = Own(r)
    BY <1>3, <1>16, <2>2, Names DEF RenameConcat, FilesTypeOK
  <2>4. pc'[r] = "draft" /\ isDir' /\ stored'[r] = stored[r]
    BY <1>1, <1>3, <1>16 DEF RenameConcat
  <2>5. QED
    BY <1>1, <2>3, <2>4 DEF Lone, OwnFiles
<1>17. CASE StoreDraft(r)
  <2>1. files[Draft] = Own(r) /\ Draft \in FileNames
    BY <1>1, <1>17, Names DEF StoreDraft, OwnFiles
  <2>2. AsItIs(Draft) = Own(r)
    BY <1>3, <2>1, TakeFile
  <2>3. stored'[r] = Own(r) /\ pc'[r] = "manifest" /\ isDir'
    BY <1>1, <1>3, <1>17, <2>2 DEF StoreDraft
  <2>4. QED
    BY <2>3 DEF Lone, OwnFiles
<1>18. CASE StoreManifest(r) \/ CreateRow(r) \/ Error(r)
  <2>1. pc'[r] \in {"row", "cleanup"} /\ isDir' /\ stored'[r] = stored[r]
    BY <1>1, <1>3, <1>18 DEF StoreManifest, CreateRow, Error
  <2>2. QED
    BY <1>1, <2>1 DEF Lone, OwnFiles
<1>19. CASE CleanUp(r) \/ CleanUpFails(r)
  <2>1. pc'[r] = "ended" /\ stored'[r] = stored[r]
    BY <1>3, <1>19 DEF CleanUp, CleanUpFails
  <2>2. QED
    BY <1>1, <2>1 DEF Lone, Active
<1>20. QED
  BY <1>5, <1>6, <1>7, <1>8, <1>9, <1>10, <1>11, <1>12, <1>13, <1>14, <1>15, <1>16, <1>17,
     <1>18, <1>19 DEF RenderStep

\* What the others do leaves a lone render as it is, or makes it one of two.
LEMMA OthersStep ==
    ASSUME Types, LoneInv, NEW r \in Renders, NEW x \in Renders \ shared', x # r, x \notin shared,
           Begin(r) \/ BeginFails(r) \/ RenderStep(r)
    PROVE  Lone(x)'
<1> USE DEF Goto, Return, fileVars, resultVars, history
<1>1. /\ pc'[x] = pc[x] /\ scene'[x] = scene[x] /\ subs'[x] = subs[x] /\ stored'[x] = stored[x]
  BY DEF Types, ControlTypeOK, ResultTypeOK, RenderStep, Begin, BeginFails, FetchSubtitles,
         NoSubtitles, FetchInputs, Encode, Encoded, StoreClip, ConcatClips, Concatenated, Burn,
         Burnt, BurnFails, RenameConcat, StoreDraft, StoreManifest, CreateRow, Error, CleanUp,
         CleanUpFails
<1>2. Lone(x)
  BY DEF LoneInv
<1>3. CASE ~Active(x)
  BY <1>1, <1>2, <1>3 DEF Lone, Active
<1>4. CASE Active(x) /\ Begin(r)
  <2>1. x \in {v \in Renders \ {r} : Active(v)}
    BY <1>4
  <2>2. x \in shared'
    BY <1>4, <2>1 DEF Begin
  <2>3. QED
    BY <2>2
<1>5. CASE Active(x) /\ BeginFails(r)
  <2>1. UNCHANGED <<isDir, files>>
    BY <1>5 DEF BeginFails
  <2>2. QED
    BY <1>1, <1>2, <2>1 DEF Lone, Active, OwnFiles, IsOwn
<1>6. CASE Active(x) /\ RenderStep(r)
  <2>1. Active(r)
    BY <1>6 DEF Active, RenderStep, FetchSubtitles, NoSubtitles, FetchInputs, Encode, Encoded,
       StoreClip, ConcatClips, Concatenated, Burn, Burnt, BurnFails, RenameConcat, StoreDraft,
       StoreManifest, CreateRow, Error, CleanUp, CleanUpFails, MissesFile, CallFails
  <2>2. x \in shared
    BY <1>6, <2>1 DEF LoneInv, Overlap
  <2>3. QED
    BY <2>2
<1>7. QED
  BY <1>3, <1>4, <1>5, <1>6

LEMMA CrashLone == Types /\ LoneInv /\ Crash => LoneInv'
<1> SUFFICES ASSUME Types, LoneInv, Crash PROVE LoneInv'
  OBVIOUS
<1>1. \A r \in Renders : ~Active(r)' /\ (pc'[r] = "new" => pc[r] = "new") /\ pc'[r] # "subtitles"
  BY DEF Crash, Active, Types, ControlTypeOK
<1>2. UNCHANGED <<scene, subs, stored, shared>>
  BY DEF Crash, resultVars
<1>3. \A f \in FileNames : files'[f].open = {}
  BY TakeFile DEF Crash, Types, FilesOK
<1>4. OpenIsWriting'
  BY <1>3 DEF OpenIsWriting
<1>5. Overlap'
  BY <1>1 DEF Overlap
<1>6. \A r \in Renders \ shared' : Lone(r)'
  BY <1>1, <1>2 DEF LoneInv, Lone
<1>7. QED
  BY <1>4, <1>5, <1>6 DEF LoneInv

LEMMA LoneStep == Types /\ LoneInv /\ [Next]_vars => LoneInv'
<1> SUFFICES ASSUME Types, LoneInv, [Next]_vars PROVE LoneInv'
  OBVIOUS
<1>1. ASSUME NEW r \in Renders, Begin(r) \/ BeginFails(r) \/ RenderStep(r) PROVE LoneInv'
  <2>1. OpenIsWriting'
    BY <1>1, OpenStep DEF LoneInv
  <2>2. Overlap' /\ shared \subseteq shared'
    BY <1>1, OverlapStep DEF LoneInv
  <2>3. ASSUME NEW x \in Renders \ shared' PROVE Lone(x)'
    <3>1. x \in Renders \ shared
      BY <2>2
    <3>2. CASE x # r
      BY <1>1, <3>1, <3>2, OthersStep
    <3>3. CASE x = r /\ RenderStep(r)
      <4>1. Active(r)
        BY <3>3 DEF Active, RenderStep, FetchSubtitles, NoSubtitles, FetchInputs, Encode, Encoded,
           StoreClip, ConcatClips, Concatenated, Burn, Burnt, BurnFails, RenameConcat, StoreDraft,
           StoreManifest, CreateRow, Error, CleanUp, CleanUpFails, MissesFile, CallFails
      <4>2. QED
        BY <3>1, <3>3, <4>1, OwnStep
    <3>4. CASE x = r /\ Begin(r)
      <4>1. /\ pc[r] = "new" /\ pc'[r] = "subtitles" /\ isDir' /\ scene'[r] = scene[r]
            /\ subs'[r] = subs[r] /\ stored'[r] = stored[r]
        BY <3>4 DEF Begin, Goto, resultVars, Types, ControlTypeOK
      <4>2. Lone(r)
        BY <3>1, <3>4 DEF LoneInv
      <4>3. QED
        BY <3>4, <4>1, <4>2 DEF Lone, OwnFiles
    <3>5. CASE x = r /\ BeginFails(r)
      <4>1. pc'[r] = "ended" /\ stored'[r] = stored[r]
        BY <3>5 DEF BeginFails, Goto, resultVars, Types, ControlTypeOK
      <4>2. Lone(r)
        BY <3>1, <3>5 DEF LoneInv
      <4>3. QED
        BY <3>5, <4>1, <4>2 DEF Lone, Active
    <3>6. QED
      BY <1>1, <3>2, <3>3, <3>4, <3>5
  <2>4. QED
    BY <2>1, <2>2, <2>3 DEF LoneInv
<1>2. CASE UNCHANGED vars
  BY <1>2 DEF vars, LoneInv, OpenIsWriting, WritesTo, Overlap, Active, Lone, OwnFiles, IsOwn
<1>3. QED
  BY <1>1, <1>2, CrashLone DEF Next

LEMMA LoneHolds == Spec => []LoneInv
<1>1. Init => LoneInv
  BY LoneInit
<1>2. Types /\ LoneInv /\ [Next]_vars => LoneInv'
  BY LoneStep
<1>3. QED
  BY <1>1, <1>2, Typed, PTL DEF Spec

\* However many renders of a project there are and whatever earlier ones left
\* behind, Render stores a whole video of its own files unless another render overlapped it.
THEOREM LoneDrafts == Spec => []LoneDraftIsOwn
<1>1. LoneInv => LoneDraftIsOwn
  BY DEF LoneInv, Lone, LoneDraftIsOwn, Own
<1>2. QED
  BY <1>1, LoneHolds, PTL

\* A render that no other one overlapped finds every file it needs, whatever failed
\* before: Render returns an error only when a call fails.
THEOREM LoneRendersFindFiles == Spec => []LoneRenderMissesNothing
<1>1. ASSUME Types, LoneInv, NEW r \in Renders \ shared PROVE ~MissesFile(r)
  <2>1. CASE ~Active(r)
    BY <2>1 DEF Active, MissesFile
  <2>2. CASE Active(r)
    <3>1. isDir /\ OwnFiles(r)
      BY <1>1, <2>2 DEF LoneInv, Lone
    <3>2. scene[r] \in Scenes
      BY <1>1 DEF Types, ControlTypeOK
    <3>3. Own(r) # Absent /\ ~Own(r).torn
      BY DEF Own, Absent
    <3>4. ASSUME NEW f \in FileNames, files[f] = Own(r) PROVE Usable(f)
      BY <3>4 DEF Usable, Own
    <3>5. CASE pc[r] = "encode"
      BY <3>1, <3>2, <3>4, <3>5, Names DEF MissesFile, OwnFiles, IsOwn
    <3>6. CASE pc[r] = "concat"
      BY <3>1, <3>4, <3>6, Names DEF MissesFile, OwnFiles, IsOwn
    <3>7. CASE pc[r] \notin {"encode", "concat"}
      BY <3>1, <3>3, <3>7 DEF MissesFile, OwnFiles, IsOwn
    <3>8. QED
      BY <3>5, <3>6, <3>7
  <2>3. QED
    BY <2>1, <2>2
<1>2. Types /\ LoneInv => LoneRenderMissesNothing
  BY <1>1 DEF LoneRenderMissesNothing
<1>3. QED
  BY <1>2, LoneHolds, Typed, PTL
=============================================================================
