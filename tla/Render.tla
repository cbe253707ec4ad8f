-------------------------------- MODULE Render --------------------------------
(***************************************************************************)
(* Render of internal/render/service.go, run by several workers for the    *)
(* same project: the files of its temporary directory, which is named      *)
(* after the project, and what it leaves in storage and in table renders.  *)
(*                                                                         *)
(* A program that writes a file truncates it first, so ffmpeg is two       *)
(* steps: it opens its output, and it ends.  A file is known by the        *)
(* renders it was made by, by the ffmpegs that have it open and by whether *)
(* it is torn.  A crash takes the process and its ffmpegs: they share a    *)
(* container (deploy/docker/Dockerfile).  concat.txt, whose text is the    *)
(* same for every render of a project, is left out.                        *)
(***************************************************************************)
EXTENDS Naturals, FiniteSets

CONSTANTS Renders,     \* the calls of Render, one per attempt of a render job
          NumScenes,   \* scenes of the project
          Faults       \* what may fail: "files", "storage", "ffmpeg", "database", "crash"

ASSUME RenderAssumption ==
    /\ NumScenes \in Nat \ {0}
    /\ Faults \subseteq {"files", "storage", "ffmpeg", "database", "crash"}

VARIABLES pc,        \* pc[r]: the next step of render r
          scene,     \* scene[r]: the scene its loop is at
          subs,      \* subs[r]: subtitlePath is set
          isDir,     \* the temporary directory exists
          files,     \* files[f]: the file f in it, or Absent
          draft,     \* storage: the draft video, or Absent
          manifest,  \* storage: the manifest is there
          rows,      \* rows of table renders
          stored,    \* history: stored[r]: the draft r stored, or Absent
          shared,    \* history: renders that were under way with another one
          left       \* history: the last render to end crashed or failed to
                     \* remove the directory

vars == <<pc, scene, subs, isDir, files, draft, manifest, rows, stored, shared, left>>
fileVars == <<isDir, files>>
resultVars == <<draft, manifest, rows, stored>>
history == <<shared, left>>

-----------------------------------------------------------------------------
Scenes == 1..NumScenes
Inputs(s) == <<"inputs", s>>    \* scene_<s>.png and scene_<s>.mp3
Clip(s)   == <<"clip", s>>      \* scene_<s>.mp4
Subtitles == <<"subtitles", 0>>
Concat    == <<"concat", 0>>
Draft     == <<"draft", 0>>
FileNames == {Inputs(s) : s \in Scenes} \cup {Clip(s) : s \in Scenes}
                \cup {Subtitles, Concat, Draft}

Absent == [by |-> {}, open |-> {}, torn |-> TRUE]
Content == [by : SUBSET Renders, open : SUBSET Renders, torn : BOOLEAN]

\* What ffmpeg needs of an input; a plain read takes the file as it is.
Usable(f) == files[f].open = {} /\ ~files[f].torn

\* A file as a reader, a rename or the end of its writers finds it now: not whole
\* while it is being written.
AsItIs(f) ==
    [by |-> files[f].by, open |-> {}, torn |-> files[f].torn \/ files[f].open # {}]

Active(r) == pc[r] \notin {"new", "ended"}

Goto(r, step) == pc' = [pc EXCEPT ![r] = step]

\* An error returns from Render; the deferred RemoveAll comes first.
WrongReturnNoDefer(r) == Goto(r, "ended")
Return(r) == Goto(r, "cleanup")

\* os.WriteFile: r's bytes, unless an ffmpeg has the file open.
Write(r, f) ==
    files' = [files EXCEPT ![f] = [by |-> {r}, open |-> @.open, torn |-> FALSE]]

-----------------------------------------------------------------------------
Init ==
    /\ pc = [r \in Renders |-> "new"]
    /\ scene = [r \in Renders |-> 1]
    /\ subs = [r \in Renders |-> FALSE]
    /\ isDir = FALSE
    /\ files = [f \in FileNames |-> Absent]
    /\ draft = Absent
    /\ manifest = FALSE
    /\ rows = 0
    /\ stored = [r \in Renders |-> Absent]
    /\ shared = {}
    /\ left = FALSE

\* MkdirAll makes the directory unless it is there, with what it holds.
Begin(r) ==
    /\ pc[r] = "new"
    /\ isDir' = TRUE
    /\ LET others == {v \in Renders \ {r} : Active(v)} IN
         shared' = shared \cup (IF others = {} THEN {} ELSE others \cup {r})
    /\ Goto(r, "subtitles")
    /\ UNCHANGED <<scene, subs, files, resultVars, left>>

\* Without the directory Render returns before it defers its removal.
BeginFails(r) ==
    /\ pc[r] = "new"
    /\ "files" \in Faults
    /\ Goto(r, "ended")
    /\ UNCHANGED <<scene, subs, fileVars, resultVars, history>>

\* The subtitles are fetched and written; without them the render goes on.
FetchSubtitles(r) ==
    /\ pc[r] = "subtitles"
    /\ isDir
    /\ Write(r, Subtitles)
    /\ subs' = [subs EXCEPT ![r] = TRUE]
    /\ Goto(r, "inputs")
    /\ UNCHANGED <<scene, isDir, resultVars, history>>

NoSubtitles(r) ==
    /\ pc[r] = "subtitles"
    /\ ~isDir \/ Faults \cap {"storage", "files"} # {}
    /\ Goto(r, "inputs")
    /\ UNCHANGED <<scene, subs, fileVars, resultVars, history>>

\* renderScene: image and audio are fetched and written.
FetchInputs(r) ==
    /\ pc[r] = "inputs"
    /\ isDir
    /\ Write(r, Inputs(scene[r]))
    /\ Goto(r, "encode")
    /\ UNCHANGED <<scene, subs, isDir, resultVars, history>>

\* An ffmpeg of r truncates its output, which is then made of the files it reads.
\* With another ffmpeg on the same file the two write over each other.
WrongOpens(r, output, inputs) ==
    files' = [files EXCEPT ![output] =
        [by |-> {r} \cup @.by \cup UNION {files[f].by : f \in inputs},
         open |-> @.open \cup {r}, torn |-> FALSE]]

Opens(r, output, inputs) ==
    files' = [files EXCEPT ![output] =
        [by |-> {r} \cup UNION {files[f].by : f \in inputs},
         open |-> @.open \cup {r}, torn |-> @.open # {}]]

\* An ffmpeg ends, well or not.  The name may be gone, or another file's.
Closes(r, output, ok) ==
    files' = [files EXCEPT ![output] =
        [by |-> @.by, open |-> @.open \ {r}, torn |-> @.torn \/ (r \in @.open /\ ~ok)]]

\* renderScene: the clip of a scene.
Encode(r) ==
    /\ pc[r] = "encode"
    /\ Usable(Inputs(scene[r]))
    /\ Opens(r, Clip(scene[r]), {Inputs(scene[r])})
    /\ Goto(r, "encoding")
    /\ UNCHANGED <<scene, subs, isDir, resultVars, history>>

Encoded(r) ==
    /\ pc[r] = "encoding"
    /\ Closes(r, Clip(scene[r]), TRUE)
    /\ Goto(r, "clip")
    /\ UNCHANGED <<scene, subs, isDir, resultVars, history>>

AtLast(r) == scene[r] = NumScenes

\* The clip is read and stored; the loop goes on.
StoreClip(r) ==
    /\ pc[r] = "clip"
    /\ files[Clip(scene[r])] # Absent
    /\ \/ /\ ~AtLast(r)
          /\ scene' = [scene EXCEPT ![r] = @ + 1]
          /\ Goto(r, "inputs")
       \/ /\ AtLast(r)
          /\ UNCHANGED scene
          /\ Goto(r, "concat")
    /\ UNCHANGED <<subs, fileVars, resultVars, history>>

\* concatenateClips: ffmpeg refuses a clip that is missing or not whole.
ConcatClips(r) ==
    /\ pc[r] = "concat"
    /\ \A s \in Scenes : Usable(Clip(s))
    /\ Opens(r, Concat, {Clip(s) : s \in Scenes})
    /\ Goto(r, "concatenating")
    /\ UNCHANGED <<scene, subs, isDir, resultVars, history>>

Concatenated(r) ==
    /\ pc[r] = "concatenating"
    /\ Closes(r, Concat, TRUE)
    /\ Goto(r, IF subs[r] THEN "burn" ELSE "rename")
    /\ UNCHANGED <<scene, subs, isDir, resultVars, history>>

\* burnSubtitles; if it fails the video is used without subtitles.
Burn(r) ==
    /\ pc[r] = "burn"
    /\ Usable(Concat) /\ Usable(Subtitles)
    /\ Opens(r, Draft, {Concat, Subtitles})
    /\ Goto(r, "burning")
    /\ UNCHANGED <<scene, subs, isDir, resultVars, history>>

Burnt(r) ==
    /\ pc[r] = "burning"
    /\ Closes(r, Draft, TRUE)
    /\ Goto(r, "draft")
    /\ UNCHANGED <<scene, subs, isDir, resultVars, history>>

WrongBurnFails(r) ==
    /\ pc[r] = "burn" /\ "ffmpeg" \in Faults
    /\ Goto(r, "draft")
    /\ UNCHANGED <<scene, subs, fileVars, resultVars, history>>

BurnFails(r) ==
    /\ \/ /\ pc[r] = "burn"
          /\ ~Usable(Concat) \/ ~Usable(Subtitles) \/ "ffmpeg" \in Faults
          /\ UNCHANGED files
       \/ /\ pc[r] = "burning" /\ "ffmpeg" \in Faults
          /\ Closes(r, Draft, FALSE)
    /\ Goto(r, "rename")
    /\ UNCHANGED <<scene, subs, isDir, resultVars, history>>

\* A file renamed under its writer counts as torn.
RenameConcat(r) ==
    /\ pc[r] = "rename"
    /\ files[Concat] # Absent
    /\ files' = [files EXCEPT ![Concat] = Absent, ![Draft] = AsItIs(Concat)]
    /\ Goto(r, "draft")
    /\ UNCHANGED <<scene, subs, isDir, resultVars, history>>

\* What a read of the draft returns now is stored.
WrongStoreDraft(r) ==
    /\ pc[r] = "draft"
    /\ files[Draft] # Absent
    /\ draft' = AsItIs(Draft)
    /\ stored' = [stored EXCEPT ![r] = AsItIs(Draft)]
    /\ Goto(r, "row")
    /\ UNCHANGED <<scene, subs, fileVars, manifest, rows, history>>

StoreDraft(r) ==
    /\ pc[r] = "draft"
    /\ files[Draft] # Absent
    /\ draft' = AsItIs(Draft)
    /\ stored' = [stored EXCEPT ![r] = AsItIs(Draft)]
    /\ Goto(r, "manifest")
    /\ UNCHANGED <<scene, subs, fileVars, manifest, rows, history>>

StoreManifest(r) ==
    /\ pc[r] = "manifest"
    /\ manifest' = TRUE
    /\ Goto(r, "row")
    /\ UNCHANGED <<scene, subs, fileVars, draft, rows, stored, history>>

CreateRow(r) ==
    /\ pc[r] = "row"
    /\ rows' = rows + 1
    /\ Return(r)
    /\ UNCHANGED <<scene, subs, fileVars, draft, manifest, stored, history>>

\* The file or directory a step needs is missing or not whole.
MissesFile(r) ==
    \/ pc[r] = "inputs" /\ ~isDir
    \/ pc[r] = "encode" /\ ~Usable(Inputs(scene[r]))
    \/ pc[r] = "clip" /\ files[Clip(scene[r])] = Absent
    \/ pc[r] = "concat" /\ \E s \in Scenes : ~Usable(Clip(s))
    \/ pc[r] = "rename" /\ files[Concat] = Absent
    \/ pc[r] = "draft" /\ files[Draft] = Absent

\* A call fails: the system's, storage's, ffmpeg's or the database's.
CallFails(r) ==
    \/ "files" \in Faults /\ pc[r] \in {"inputs", "clip", "concat", "rename", "draft"}
    \/ "storage" \in Faults /\ pc[r] \in {"inputs", "clip", "draft", "manifest"}
    \/ "ffmpeg" \in Faults /\ pc[r] \in {"encode", "encoding", "concat", "concatenating"}
    \/ "database" \in Faults /\ pc[r] = "row"

\* What an ffmpeg that fails leaves of its output stays in the directory.
Error(r) ==
    /\ MissesFile(r) \/ CallFails(r)
    /\ CASE pc[r] = "encoding"      -> Closes(r, Clip(scene[r]), FALSE)
         [] pc[r] = "concatenating" -> Closes(r, Concat, FALSE)
         [] OTHER                   -> UNCHANGED files
    /\ Return(r)
    /\ UNCHANGED <<scene, subs, isDir, resultVars, history>>

\* RemoveAll, whoever else is using the directory.
CleanUp(r) ==
    /\ pc[r] = "cleanup"
    /\ isDir' = FALSE
    /\ files' = [f \in FileNames |-> Absent]
    /\ left' = FALSE
    /\ Goto(r, "ended")
    /\ UNCHANGED <<scene, subs, resultVars, shared>>

\* RemoveAll fails, perhaps half way: the directory stays, and nobody is told.
CleanUpFails(r) ==
    /\ pc[r] = "cleanup"
    /\ "files" \in Faults
    /\ isDir
    /\ \E gone \in SUBSET {f \in FileNames : files[f] # Absent} :
         files' = [f \in FileNames |-> IF f \in gone THEN Absent ELSE files[f]]
    /\ left' = TRUE
    /\ Goto(r, "ended")
    /\ UNCHANGED <<scene, subs, isDir, resultVars, shared>>

\* The worker process ends with all its renders; the directory stays.
Crash ==
    /\ "crash" \in Faults
    /\ \E r \in Renders : Active(r)
    /\ pc' = [r \in Renders |-> IF Active(r) THEN "ended" ELSE pc[r]]
    /\ files' = [f \in FileNames |-> AsItIs(f)]
    /\ left' = TRUE
    /\ UNCHANGED <<scene, subs, isDir, resultVars, shared>>

-----------------------------------------------------------------------------
RenderStep(r) ==
    \/ FetchSubtitles(r) \/ NoSubtitles(r) \/ FetchInputs(r) \/ Encode(r)
    \/ Encoded(r) \/ StoreClip(r) \/ ConcatClips(r) \/ Concatenated(r)
    \/ Burn(r) \/ Burnt(r) \/ BurnFails(r) \/ RenameConcat(r) \/ StoreDraft(r)
    \/ StoreManifest(r) \/ CreateRow(r) \/ Error(r)
    \/ CleanUp(r) \/ CleanUpFails(r)

Next == (\E r \in Renders : Begin(r) \/ BeginFails(r) \/ RenderStep(r)) \/ Crash

Spec == Init /\ [][Next]_vars

-----------------------------------------------------------------------------
(* Properties.                                                             *)

\* Every variable holds what its comment says; files are in a directory.
TypeOK ==
    /\ pc \in [Renders -> {"new", "subtitles", "inputs", "encode", "encoding", "clip",
                           "concat", "concatenating", "burn", "burning", "rename",
                           "draft", "manifest", "row", "cleanup", "ended"}]
    /\ scene \in [Renders -> Scenes]
    /\ subs \in [Renders -> BOOLEAN]
    /\ isDir \in BOOLEAN
    /\ files \in [FileNames -> Content]
    /\ draft \in Content
    /\ manifest \in BOOLEAN
    /\ rows \in Nat
    /\ stored \in [Renders -> Content]
    /\ shared \in SUBSET Renders
    /\ left \in BOOLEAN
    /\ ~isDir => \A f \in FileNames : files[f] = Absent

\* A render that no other one overlapped stores a whole video made of its own
\* files, whatever an earlier render that crashed, or could not remove the
\* directory, left in it.
LoneDraftIsOwn ==
    \A r \in Renders \ shared :
        stored[r] # Absent => stored[r] = [by |-> {r}, open |-> {}, torn |-> FALSE]

\* A render that no other one overlapped finds all the files it needs.
LoneRenderMissesNothing == \A r \in Renders \ shared : ~MissesFile(r)

\* A row of table renders has its video and its manifest in storage.
RowHasVideo == rows > 0 => draft # Absent /\ manifest

\* Once no render is under way the directory is gone, however the renders ended,
\* unless the last one crashed or could not remove it: what an earlier one left
\* goes with the next render whose removal succeeds.
NothingLeftBehind == isDir => left \/ \E r \in Renders : Active(r)
=============================================================================
