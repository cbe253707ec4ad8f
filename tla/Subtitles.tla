------------------------------- MODULE Subtitles -------------------------------
(***************************************************************************)
(* How long the scenes of a video are and when its subtitles are shown:    *)
(* Generate of the Polly provider (internal/providers/voice/polly) asks    *)
(* for the audio of each scene and for its speech marks, which it puts     *)
(* into a file under a key of the scene; from these files                  *)
(* generateSRTWithSpeechMarks (internal/subtitles/service.go) lays out the *)
(* cues of the SRT file, scene after scene.  The voice job of a scene is   *)
(* tried again when its row cannot be inserted, and finds the file of the  *)
(* attempt before.                                                         *)
(*                                                                         *)
(* Times are counted in tenths of a second.  A speech mark is a word or a  *)
(* sentence with the time it starts at; of its text only the punctuation   *)
(* matters.  The scene lengths planned by the script are never used:       *)
(* every provider returns at least one second.                             *)
(***************************************************************************)
EXTENDS Naturals, Sequences, SequencesExt

CONSTANTS NumScenes,          \* scenes of the project
          MaxWordsPerChunk,   \* 5 in generateSRTWithSpeechMarks
          Speeches,           \* what Polly may say of a narration: its marks
          Estimates           \* lengths estimated from the size of an audio

Mark == [time : Nat, word : BOOLEAN, ends : BOOLEAN]

\* Polly sends the marks of a narration in the order of their times; <<>> is
\* also what Generate goes on with when they could not be fetched.
ASSUME SubtitlesAssumption ==
    /\ NumScenes \in Nat
    /\ MaxWordsPerChunk \in Nat \ {0}
    /\ Estimates \subseteq Nat
    /\ \A marks \in Speeches :
         /\ marks \in Seq(Mark)
         /\ \A i, k \in 1..Len(marks) : i <= k => marks[i].time <= marks[k].time

VARIABLES pc,       \* the next step
          stored,   \* the file of marks of the scene that is synthesized
          audio,    \* audio[s]: length of the row and file of marks, of scene s
          scene,    \* the scene the loop of generateSRT... is at
          time,     \* currentTimeMs
          words,    \* the words among the marks of the scene
          word,     \* the mark, then the word, the loop over them is at
          chunk,    \* groupWordsIntoChunks: currentChunk
          chunks,   \* groupWordsIntoChunks: chunks
          cues      \* the cues written so far; subtitleIndex is the next one

vars == <<pc, stored, audio, scene, time, words, word, chunk, chunks, cues>>

-----------------------------------------------------------------------------
Longer(a, b) == IF a >= b THEN a ELSE b

\* Definitions named Wrong... are mutants of the one that follows them.
WrongLengthNoPause(marks, estimate) ==
    Longer(10, IF marks # <<>> THEN marks[Len(marks)].time ELSE estimate)

\* The length of an audio: half a second after the last mark, or estimated;
\* never less than a second.
Length(marks, estimate) ==
    Longer(10, IF marks # <<>> THEN marks[Len(marks)].time + 5 ELSE estimate)

\* Storage: the file of the marks is there, is not, or holds something that is
\* no JSON.  Generate returns its key also when nothing was stored; "none" is
\* also an audio without a key and a file that cannot be fetched.
Files == {"whole", "none", "torn"}
NoFile == [file |-> "none", marks |-> <<>>]

\* What a Put of the marks leaves under the key: an error is only logged, and
\* without marks nothing is put; then the file of an earlier attempt stays.
Put(marks) ==
    {stored} \cup (IF marks = <<>> THEN {}
                   ELSE {[file |-> "whole", marks |-> marks],
                         [file |-> "torn", marks |-> <<>>]})

\* Of the marks in the file only words become subtitles.
IsWord(m) == m.word

-----------------------------------------------------------------------------
Init ==
    /\ pc = "synthesize"
    /\ stored = NoFile
    /\ audio = <<>>
    /\ scene = 1
    /\ time = 0
    /\ words = <<>>
    /\ word = 1
    /\ chunk = <<>>
    /\ chunks = <<>>
    /\ cues = <<>>

\* One attempt of the voice job of the next scene: what Generate returns goes
\* into its row, or the insert fails and there will be another attempt.  The file
\* goes with the length of the last attempt, whichever attempt put it there.
Synthesize ==
    /\ pc = "synthesize"
    /\ Len(audio) < NumScenes
    /\ \E marks \in Speeches \cup {<<>>}, estimate \in Estimates :
         \/ \E f \in Put(marks) \cup {NoFile} :
              /\ audio' = Append(audio, [length |-> Length(marks, estimate),
                                         marks  |-> f.marks,
                                         file   |-> f.file])
              /\ stored' = NoFile
         \/ /\ stored' \in Put(marks)
            /\ UNCHANGED audio
    /\ UNCHANGED <<pc, scene, time, words, word, chunk, chunks, cues>>

\* All assets exist, the subtitle job runs.
StartSubtitles ==
    /\ pc = "synthesize"
    /\ Len(audio) = NumScenes
    /\ pc' = "scene"
    /\ UNCHANGED <<stored, audio, scene, time, words, word, chunk, chunks, cues>>

NextScene == scene' = scene + 1
Advance == time' = time + audio[scene].length

\* The marks of a scene parse: its words are taken out of them, one by one.
StartFilter ==
    /\ pc = "scene"
    /\ scene <= Len(audio)
    /\ audio[scene].file = "whole"
    /\ pc' = "filter"
    /\ words' = <<>>
    /\ word' = 1
    /\ UNCHANGED <<stored, audio, scene, time, chunk, chunks, cues>>

Filter ==
    /\ pc = "filter"
    /\ word <= Len(audio[scene].marks)
    /\ LET m == audio[scene].marks[word] IN
         words' = IF IsWord(m) THEN Append(words, m) ELSE words
    /\ word' = word + 1
    /\ UNCHANGED <<pc, stored, audio, scene, time, chunk, chunks, cues>>

Filtered == pc = "filter" /\ word > Len(audio[scene].marks)

\* Without words to time, one cue with the narration spans the whole scene.
WholeScene ==
    /\ \/ pc = "scene" /\ scene <= Len(audio) /\ audio[scene].file = "none"
       \/ Filtered /\ words = <<>>
    /\ cues' = Append(cues, [scene |-> scene, from |-> time,
                             to |-> time + audio[scene].length, text |-> <<>>])
    /\ Advance /\ NextScene
    /\ pc' = "scene"
    /\ UNCHANGED <<stored, audio, words, word, chunk, chunks>>

\* Marks that do not parse: the loop goes on, the time does not.
SkipScene ==
    /\ pc = "scene"
    /\ scene <= Len(audio)
    /\ audio[scene].file = "torn"
    /\ NextScene
    /\ UNCHANGED <<pc, stored, audio, time, words, word, chunk, chunks, cues>>

\* groupWordsIntoChunks, from its first word ...
StartGrouping ==
    /\ Filtered /\ words # <<>>
    /\ pc' = "group"
    /\ word' = 1
    /\ chunk' = <<>>
    /\ chunks' = <<>>
    /\ UNCHANGED <<stored, audio, scene, time, words, cues>>

WrongShouldEndLate(c) == c[Len(c)].ends \/ Len(c) > MaxWordsPerChunk

\* A chunk ends at punctuation and when it is full.
ShouldEnd(c) == c[Len(c)].ends \/ Len(c) >= MaxWordsPerChunk

\* ... over one word after the other ...
GroupWord ==
    /\ pc = "group"
    /\ word <= Len(words)
    /\ LET c == Append(chunk, words[word]) IN
         /\ chunk' = IF ShouldEnd(c) THEN <<>> ELSE c
         /\ chunks' = IF ShouldEnd(c) THEN Append(chunks, c) ELSE chunks
    /\ word' = word + 1
    /\ UNCHANGED <<pc, stored, audio, scene, time, words, cues>>

WrongRemaining == <<>>
Remaining == IF chunk # <<>> THEN <<chunk>> ELSE <<>>

\* ... to the words that remain.
EndGrouping ==
    /\ pc = "group"
    /\ word > Len(words)
    /\ chunks' = chunks \o Remaining
    /\ pc' = "write"
    /\ UNCHANGED <<stored, audio, scene, time, words, word, chunk, cues>>

\* A cue lasts from its first word to 400 ms after the start of its last.
WordCue(c) ==
    [scene |-> scene, from |-> time + c[1].time, to |-> time + c[Len(c)].time + 4,
     text |-> c]

WrongWriteCues ==
    /\ pc = "write"
    /\ cues' = cues \o [i \in 1..Len(chunks) |-> WordCue(chunks[i])]
    /\ NextScene
    /\ pc' = "scene"
    /\ UNCHANGED <<stored, audio, time, words, word, chunk, chunks>>
WriteCues ==
    /\ pc = "write"
    /\ cues' = cues \o [i \in 1..Len(chunks) |-> WordCue(chunks[i])]
    /\ Advance /\ NextScene
    /\ pc' = "scene"
    /\ UNCHANGED <<stored, audio, words, word, chunk, chunks>>

Next ==
    \/ Synthesize \/ StartSubtitles \/ StartFilter \/ Filter \/ WholeScene
    \/ SkipScene \/ StartGrouping \/ GroupWord \/ EndGrouping \/ WriteCues

Spec == Init /\ [][Next]_vars

-----------------------------------------------------------------------------
(* formatSRTTimeMs: a time in milliseconds as an SRT file shows it.        *)

SrtTime(ms) ==
    [hours   |-> ms \div 3600000,
     minutes |-> (ms % 3600000) \div 60000,
     seconds |-> ((ms % 3600000) % 60000) \div 1000,
     millis  |-> ((ms % 3600000) % 60000) % 1000]

-----------------------------------------------------------------------------
(* Properties.                                                             *)

Audio == [length : Nat, marks : Seq(Mark), file : Files]
Cue == [scene : Nat, from : Nat, to : Nat, text : Seq(Mark)]

\* Every variable holds what its comment says; the chunks of a scene have words.
TypeOK ==
    /\ stored \in [file : Files, marks : Seq(Mark)]
    /\ pc \in {"synthesize", "scene", "filter", "group", "write"}
    /\ pc \in {"filter", "group", "write"} => scene <= Len(audio)
    /\ audio \in Seq(Audio) /\ Len(audio) <= NumScenes
    /\ scene \in Nat /\ scene >= 1
    /\ time \in Nat
    /\ words \in Seq(Mark)
    /\ word \in Nat /\ word >= 1
    /\ chunk \in Seq(Mark)
    /\ chunks \in Seq(Seq(Mark) \ {<<>>})
    /\ cues \in Seq(Cue)

Parses(s) == audio[s].file # "torn"

\* The length of scene s is that of the marks in its file.  It is not when the
\* file is of another attempt than the row.
Timed(s) == audio[s].file = "whole" => audio[s].length = Length(audio[s].marks, 0)

\* Subtitles come and go in the order of the file: none starts, and none ends,
\* before the one above it.  They may overlap (a cue lasts 400 ms after the start
\* of its last word, a next word may come sooner), but a viewer never sees a
\* later one go first.  Only a scene that is not timed by the marks in its file
\* may have cues that outlast those of the next.
CuesInOrder ==
    \A i, k \in 1..Len(cues) :
        i < k /\ (cues[i].scene = cues[k].scene \/ Timed(cues[i].scene)) =>
            cues[i].from <= cues[k].from /\ cues[i].to <= cues[k].to

\* No subtitle of a scene timed by the marks in its file is still shown when one
\* of a later scene comes: the 500 ms Polly's provider adds to the last mark
\* outlast the 400 ms of a cue.
ScenesDoNotOverlap ==
    \A i, k \in 1..Len(cues) :
        cues[i].scene < cues[k].scene /\ Timed(cues[i].scene) =>
            cues[i].to <= cues[k].from

\* When the audio of scene s starts in the video.
Start(s) ==
    LET end[r \in 0..Len(audio)] == IF r = 0 THEN 0 ELSE end[r - 1] + audio[r].length
    IN  end[s - 1]

\* Subtitles are never late: those of a scene timed by the marks in its file are
\* over when its audio is, whatever became of the scenes before.  And they come
\* too early only after marks that did not parse: such a scene is left out of the
\* file without its length being counted.
CuesWithTheirAudio ==
    \A i \in 1..Len(cues) :
        LET s == cues[i].scene IN
        /\ Timed(s) => cues[i].to <= Start(s) + audio[s].length
        /\ (\A r \in 1..(s - 1) : Parses(r)) => Start(s) <= cues[i].from

\* The words among the first n marks, and what the first n cues show of scene s.
Spoken(marks, n) == FlattenSeq([i \in 1..n |-> IF IsWord(marks[i]) THEN <<marks[i]>> ELSE <<>>])
Shown(s, n) == FlattenSeq([i \in 1..n |-> IF cues[i].scene = s THEN cues[i].text ELSE <<>>])

\* Each word in the file of a scene whose marks parse is shown once, in its place,
\* also the last ones that fill no chunk; a scene without words is shown as one cue.
EveryWordShown ==
    \A s \in 1..(scene - 1) :
        Parses(s) =>
            /\ \E i \in 1..Len(cues) : cues[i].scene = s
            /\ Shown(s, Len(cues)) =
                 IF audio[s].file = "none" THEN <<>>
                 ELSE Spoken(audio[s].marks, Len(audio[s].marks))

\* A subtitle has at most MaxWordsPerChunk words, goes on over no punctuation,
\* and is cut short only by punctuation or by the end of its scene.
ChunksAreReadable ==
    \A i \in 1..Len(cues) :
        LET text == cues[i].text IN
        /\ Len(text) <= MaxWordsPerChunk
        /\ \A k \in 1..(Len(text) - 1) : ~text[k].ends
        /\ i < Len(cues) /\ cues[i + 1].scene = cues[i].scene =>
             Len(text) = MaxWordsPerChunk \/ text[Len(text)].ends
=============================================================================
