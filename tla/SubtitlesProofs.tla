---------------------------- MODULE SubtitlesProofs ----------------------------
(***************************************************************************)
(* Proofs about Subtitles, for every number of scenes, every chunk size,   *)
(* all narrations whose marks come in the order of their times, and any    *)
(* estimated lengths.                                                      *)
(***************************************************************************)
EXTENDS Subtitles, FiniteSetTheorems, TLAPS

-----------------------------------------------------------------------------
(* Sequences.                                                              *)

LEMMA AppendFacts ==
    ASSUME NEW S, NEW s \in Seq(S), NEW e \in S
    PROVE  /\ Append(s, e) \in Seq(S) /\ Append(s, e) # <<>>
           /\ Len(s) \in Nat /\ Len(Append(s, e)) = Len(s) + 1
           /\ \A i \in 1..Len(s) : s[i] \in S /\ Append(s, e)[i] = s[i]
           /\ Append(s, e)[Len(s) + 1] = e
OBVIOUS

LEMMA ConcatFacts ==
    ASSUME NEW S, NEW s \in Seq(S), NEW t \in Seq(S)
    PROVE  /\ s \o t \in Seq(S)
           /\ Len(s) \in Nat /\ Len(t) \in Nat /\ Len(s \o t) = Len(s) + Len(t)
           /\ \A i \in 1..Len(s) : s[i] \in S /\ (s \o t)[i] = s[i]
           /\ \A i \in 1..Len(t) : t[i] \in S /\ (s \o t)[Len(s) + i] = t[i]
           /\ \A i \in (Len(s) + 1)..Len(s \o t) : (s \o t)[i] = t[i - Len(s)]
OBVIOUS

-----------------------------------------------------------------------------
(* Type correctness.                                                       *)

\* The constants give marks in order, and the length computed from marks outlasts
\* the last of them by half a second.
Sorted(marks) ==
    \A i, k \in 1..Len(marks) : i <= k => marks[i].time <= marks[k].time
Within(marks, length) ==
    \A i \in 1..Len(marks) : marks[i].time + 5 <= length

LEMMA LengthCovers ==
    ASSUME NEW marks \in Speeches \cup {<<>>}, NEW estimate \in Nat
    PROVE  /\ marks \in Seq(Mark) /\ Sorted(marks)
           /\ Length(marks, estimate) \in Nat /\ Length(marks, estimate) >= 10
           /\ Within(marks, Length(marks, estimate))
<1>1. CASE marks = <<>>
  BY <1>1 DEF Sorted, Within, Length, Longer
<1>2. CASE marks # <<>> /\ marks \in Speeches
  <2>1. /\ marks \in Seq(Mark)
        /\ \A i, k \in 1..Len(marks) : i <= k => marks[i].time <= marks[k].time
    BY <1>2, SubtitlesAssumption
  <2>2. /\ Len(marks) \in Nat \ {0}
        /\ \A i \in 1..Len(marks) : marks[i].time \in Nat
    <3>1. Len(marks) \in Nat \ {0} /\ \A i \in 1..Len(marks) : marks[i] \in Mark
      BY <1>2, <2>1
    <3>2. QED
      BY <3>1 DEF Mark
  <2>3. /\ Length(marks, estimate) \in Nat /\ Length(marks, estimate) >= 10
        /\ marks[Len(marks)].time + 5 <= Length(marks, estimate)
    BY <1>2, <2>2 DEF Length, Longer
  <2>4. ASSUME NEW i \in 1..Len(marks)
        PROVE  marks[i].time + 5 <= Length(marks, estimate)
    <3>1. marks[i].time <= marks[Len(marks)].time
      BY <2>1, <2>2
    <3>2. QED
      BY <2>2, <2>3, <3>1
  <2>5. QED
    BY <2>1, <2>3, <2>4 DEF Sorted, Within
<1>3. QED
  BY <1>1, <1>2

\* What a Put leaves is a file of marks that some attempt was given.
SpeechFile ==
    {f \in [file : Files, marks : Speeches \cup {<<>>}] : f.file # "whole" => f.marks = <<>>}

LEMMA PutLeaves ==
    ASSUME stored \in SpeechFile, NEW marks \in Speeches \cup {<<>>}
    PROVE  Put(marks) \subseteq SpeechFile /\ NoFile \in SpeechFile
BY DEF Put, SpeechFile, NoFile, Files

LEMMA PutType ==
    ASSUME TypeOK, NEW marks \in Seq(Mark)
    PROVE  Put(marks) \cup {NoFile} \subseteq [file : Files, marks : Seq(Mark)]
<1> DEFINE S == Seq(Mark)
<1>1. stored \in [file : Files, marks : S] /\ marks \in S /\ <<>> \in S
  BY DEF TypeOK
<1> HIDE DEF S
<1>2. Put(marks) \cup {NoFile} \subseteq [file : Files, marks : S]
  BY <1>1 DEF Put, NoFile, Files
<1>3. QED
  BY <1>2 DEF S

LEMMA RemainingType ==
    ASSUME TypeOK
    PROVE  Remaining \in Seq(Seq(Mark) \ {<<>>})
<1>1. CASE chunk = <<>>
  BY <1>1 DEF Remaining
<1>2. CASE chunk # <<>>
  <2>1. chunk \in Seq(Mark) \ {<<>>}
    BY <1>2 DEF TypeOK
  <2>2. QED
    BY <1>2, <2>1 DEF Remaining
<1>3. QED
  BY <1>1, <1>2

\* The cues WriteCues adds.
NewCues == [i \in 1..Len(chunks) |-> WordCue(chunks[i])]

LEMMA NewCuesType ==
    ASSUME TypeOK
    PROVE  NewCues \in Seq(Cue) /\ Len(NewCues) = Len(chunks) /\ Len(chunks) \in Nat
<1>1. Len(chunks) \in Nat /\ \A i \in 1..Len(chunks) : chunks[i] \in Seq(Mark) \ {<<>>}
  BY DEF TypeOK
<1>2. ASSUME NEW i \in 1..Len(chunks) PROVE WordCue(chunks[i]) \in Cue
  <2>1. chunks[i] \in Seq(Mark) /\ Len(chunks[i]) \in Nat \ {0}
    BY <1>1
  <2>2. chunks[i][1] \in Mark /\ chunks[i][Len(chunks[i])] \in Mark
    BY <2>1
  <2>3. chunks[i][1].time \in Nat /\ chunks[i][Len(chunks[i])].time \in Nat
    BY <2>2 DEF Mark
  <2>4. scene \in Nat /\ time \in Nat
    BY DEF TypeOK
  <2>5. QED
    BY <2>1, <2>3, <2>4 DEF WordCue, Cue
<1>3. QED
  BY <1>1, <1>2 DEF NewCues

LEMMA TypeInit == Init => TypeOK
BY SubtitlesAssumption DEF Init, TypeOK, NoFile, Files

LEMMA TypeStep ==
    ASSUME TypeOK, [Next]_vars
    PROVE  TypeOK'
<1>1. CASE Synthesize
  <2>1. PICK marks \in Speeches \cup {<<>>}, estimate \in Estimates :
           \/ \E f \in Put(marks) \cup {NoFile} :
                /\ audio' = Append(audio, [length |-> Length(marks, estimate),
                                           marks  |-> f.marks,
                                           file   |-> f.file])
                /\ stored' = NoFile
           \/ stored' \in Put(marks) /\ UNCHANGED audio
    BY <1>1 DEF Synthesize
  <2>2. marks \in Seq(Mark) /\ Length(marks, estimate) \in Nat
    BY LengthCovers, SubtitlesAssumption
  <2>3. Put(marks) \cup {NoFile} \subseteq [file : Files, marks : Seq(Mark)]
    BY <2>2, PutType
  <2>4. stored' \in [file : Files, marks : Seq(Mark)]
    BY <2>1, <2>3
  <2>5. audio' \in Seq(Audio) /\ Len(audio') <= NumScenes
    <3>1. Len(audio) < NumScenes /\ NumScenes \in Nat /\ Len(audio) \in Nat
      BY <1>1, SubtitlesAssumption DEF Synthesize, TypeOK
    <3>2. ASSUME NEW f \in Put(marks) \cup {NoFile},
                 audio' = Append(audio, [length |-> Length(marks, estimate),
                                         marks  |-> f.marks,
                                         file   |-> f.file])
          PROVE  audio' \in Seq(Audio) /\ Len(audio') = Len(audio) + 1
      <4>1. [length |-> Length(marks, estimate), marks |-> f.marks, file |-> f.file] \in Audio
        BY <2>2, <2>3 DEF Audio
      <4>2. QED
        BY <3>2, <4>1, AppendFacts DEF TypeOK
    <3>3. audio \in Seq(Audio) /\ Len(audio) <= NumScenes
      BY DEF TypeOK
    <3>4. \/ audio' = audio
          \/ audio' \in Seq(Audio) /\ Len(audio') = Len(audio) + 1
      BY <2>1, <3>2
    <3>5. QED
      BY <3>1, <3>3, <3>4
  <2>6. QED
    BY <1>1, <2>4, <2>5 DEF Synthesize, TypeOK
<1>2. CASE StartSubtitles
  BY <1>2 DEF StartSubtitles, TypeOK
<1>3. CASE StartFilter
  BY <1>3 DEF StartFilter, TypeOK
<1>4. CASE Filter
  <2> DEFINE m == audio[scene].marks[word]
  <2>1. /\ scene \in 1..Len(audio) /\ audio[scene] \in Audio /\ words \in Seq(Mark)
        /\ word \in Nat /\ word >= 1
    BY <1>4 DEF Filter, TypeOK
  <2>2. audio[scene].marks \in Seq(Mark) /\ word \in 1..Len(audio[scene].marks)
    BY <1>4, <2>1 DEF Filter, Audio
  <2>3. m \in Mark
    BY <2>2
  <2>4. Append(words, m) \in Seq(Mark)
    BY <2>1, <2>3, AppendFacts
  <2>5. words' \in Seq(Mark) /\ word' \in Nat /\ word' >= 1
    BY <1>4, <2>1, <2>4 DEF Filter
  <2>6. QED
    BY <1>4, <2>5 DEF Filter, TypeOK
<1>5. CASE WholeScene
  <2> DEFINE c == [scene |-> scene, from |-> time,
                   to |-> time + audio[scene].length, text |-> <<>>]
  <2>1. scene \in 1..Len(audio) /\ audio[scene] \in Audio /\ time \in Nat /\ scene \in Nat
    BY <1>5 DEF WholeScene, Filtered, TypeOK
  <2>2. c \in Cue /\ time' \in Nat /\ scene' \in Nat /\ scene' >= 1
    BY <1>5, <2>1 DEF WholeScene, Advance, NextScene, Cue, Audio
  <2>3. cues' \in Seq(Cue)
    BY <1>5, <2>2, AppendFacts DEF WholeScene, TypeOK
  <2>4. QED
    BY <1>5, <2>2, <2>3 DEF WholeScene, TypeOK
<1>6. CASE SkipScene
  BY <1>6 DEF SkipScene, NextScene, TypeOK
<1>7. CASE StartGrouping
  BY <1>7 DEF StartGrouping, Filtered, TypeOK
<1>8. CASE GroupWord
  <2> DEFINE c == Append(chunk, words[word])
  <2>1. word \in 1..Len(words) /\ words \in Seq(Mark) /\ chunk \in Seq(Mark) /\ word \in Nat
    BY <1>8 DEF GroupWord, TypeOK
  <2>2. words[word] \in Mark
    BY <2>1
  <2>3. c \in Seq(Mark) \ {<<>>}
    BY <2>1, <2>2, AppendFacts
  <2>4. Append(chunks, c) \in Seq(Seq(Mark) \ {<<>>})
    BY <2>3, AppendFacts DEF TypeOK
  <2>5. chunk' \in Seq(Mark) /\ chunks' \in Seq(Seq(Mark) \ {<<>>}) /\ word' \in Nat /\ word' >= 1
    <3>1. chunk' \in {<<>>, c} /\ chunks' \in {chunks, Append(chunks, c)} /\ word' = word + 1
      BY <1>8 DEF GroupWord
    <3>2. chunk' \in Seq(Mark)
      <4>1. <<>> \in Seq(Mark) /\ c \in Seq(Mark)
        BY <2>3
      <4>2. QED
        BY <3>1, <4>1, Zenon
    <3>3. chunks' \in Seq(Seq(Mark) \ {<<>>})
      <4>1. chunks \in Seq(Seq(Mark) \ {<<>>})
        BY DEF TypeOK
      <4>2. QED
        BY <3>1, <4>1, <2>4, Zenon
    <3>4. QED
      BY <3>1, <3>2, <3>3, <2>1
  <2>6. QED
    BY <1>8, <2>5 DEF GroupWord, TypeOK
<1>9. CASE EndGrouping
  <2>1. chunks' \in Seq(Seq(Mark) \ {<<>>})
    BY <1>9, RemainingType, ConcatFacts DEF EndGrouping, TypeOK
  <2>2. QED
    BY <1>9, <2>1 DEF EndGrouping, TypeOK
<1>10. CASE WriteCues
  <2>1. cues' \in Seq(Cue)
    <3>1. cues' = cues \o NewCues
      BY <1>10 DEF WriteCues, NewCues
    <3>2. QED
      BY <3>1, NewCuesType, ConcatFacts DEF TypeOK
  <2>2. audio[scene] \in Audio /\ time \in Nat /\ scene \in Nat /\ scene >= 1
    BY <1>10 DEF WriteCues, TypeOK
  <2>3. time' \in Nat /\ scene' \in Nat /\ scene' >= 1
    BY <1>10, <2>2 DEF WriteCues, Advance, NextScene, Audio
  <2>4. QED
    BY <1>10, <2>1, <2>3 DEF WriteCues, TypeOK
<1>11. CASE UNCHANGED vars
  BY <1>11 DEF vars, TypeOK
<1>12. QED
  BY <1>1, <1>2, <1>3, <1>4, <1>5, <1>6, <1>7, <1>8, <1>9, <1>10, <1>11 DEF Next

\* Type correctness: every mark, chunk and cue has its times, for any narrations.
THEOREM TypeCorrect == Spec => []TypeOK
<1>1. QED
  BY TypeInit, TypeStep, PTL DEF Spec

-----------------------------------------------------------------------------
(* The order of the cues.                                                  *)

LastTime(c) == c[Len(c)].time

\* Where the marks in the file of scene s end, with their half second.
Reach(s) == Length(audio[s].marks, 0)

\* Scenes that are timed by the marks in their file outlast them.
AudioCovered ==
    /\ stored \in SpeechFile
    /\ \A s \in 1..Len(audio) :
         /\ Sorted(audio[s].marks) /\ Within(audio[s].marks, Reach(s))
         /\ Reach(s) \in Nat /\ (Timed(s) => Reach(s) <= audio[s].length)

\* The words of the scene come in order, in the reach of its marks; those found
\* come before the marks still to be looked at.
WordsCovered ==
    pc \in {"filter", "group", "write"} =>
        /\ Sorted(words) /\ Within(words, Reach(scene))
        /\ pc = "filter" =>
             \A i \in 1..Len(words), k \in word..Len(audio[scene].marks) :
                 words[i].time <= audio[scene].marks[k].time

\* No mark of c is later than a word still to be grouped.
Ahead(c) == \A i \in 1..Len(c), k \in word..Len(words) : c[i].time <= words[k].time

ChunkCovered ==
    pc = "group" => Sorted(chunk) /\ Within(chunk, Reach(scene)) /\ Ahead(chunk)

\* Every chunk ends before the next one starts.
ChunksCovered ==
    pc \in {"group", "write"} =>
        /\ \A i \in 1..Len(chunks) :
             /\ Sorted(chunks[i]) /\ Within(chunks[i], Reach(scene))
             /\ pc = "group" => Ahead(chunks[i])
             /\ pc = "group" /\ chunk # <<>> => LastTime(chunks[i]) <= chunk[1].time
        /\ \A i, k \in 1..Len(chunks) : i < k => LastTime(chunks[i]) <= chunks[k][1].time

\* The cues written so far are over when the current scene starts, if their scene
\* is timed by its marks.
CuesSoFar ==
    /\ pc = "synthesize" => cues = <<>>
    /\ \A i \in 1..Len(cues) :
         /\ cues[i].scene < scene /\ cues[i].from <= cues[i].to
         /\ Timed(cues[i].scene) => cues[i].to <= time

Order ==
    /\ AudioCovered /\ WordsCovered /\ ChunkCovered /\ ChunksCovered
    /\ CuesSoFar /\ CuesInOrder /\ ScenesDoNotOverlap

LEMMA OrderInit == Init => Order
BY DEF Init, Order, AudioCovered, WordsCovered, ChunkCovered, ChunksCovered, CuesSoFar,
       CuesInOrder, ScenesDoNotOverlap, SpeechFile, NoFile, Files

\* A mark that is not earlier goes at the end.
LEMMA MarkAppended ==
    ASSUME NEW c \in Seq(Mark), NEW m \in Mark, NEW length \in Nat,
           Sorted(c), Within(c, length), m.time + 5 <= length,
           \A i \in 1..Len(c) : c[i].time <= m.time
    PROVE  Sorted(Append(c, m)) /\ Within(Append(c, m), length)
<1> DEFINE a == Append(c, m)
<1>1. /\ Len(c) \in Nat /\ Len(a) = Len(c) + 1 /\ a[Len(c) + 1] = m
      /\ \A i \in 1..Len(c) : c[i] \in Mark /\ a[i] = c[i]
  BY AppendFacts
<1>2. m.time \in Nat /\ \A i \in 1..Len(c) : c[i].time \in Nat
  BY <1>1 DEF Mark
<1> HIDE DEF a
<1>3. Sorted(a)
  BY <1>1, <1>2 DEF Sorted
<1>4. Within(a, length)
  BY <1>1, <1>2 DEF Within
<1>5. QED
  BY <1>3, <1>4 DEF a

\* The cues of a scene go after all others, after its start and, if it is timed
\* by its marks, before its end.
LEMMA CuesAppended ==
    ASSUME TypeOK, Order, NEW new \in Seq(Cue),
           cues' = cues \o new, scene' = scene + 1,
           time' \in Nat, time <= time', UNCHANGED audio, pc' # "synthesize",
           \A i \in 1..Len(new) :
               /\ new[i].scene = scene /\ time <= new[i].from
               /\ new[i].from <= new[i].to /\ (Timed(scene) => new[i].to <= time'),
           \A i, k \in 1..Len(new) :
               i < k => new[i].from <= new[k].from /\ new[i].to <= new[k].to
    PROVE  CuesSoFar' /\ CuesInOrder' /\ ScenesDoNotOverlap'
<1> DEFINE n == Len(cues)
<1>1. /\ n \in Nat /\ Len(new) \in Nat /\ Len(cues') = n + Len(new)
      /\ \A i \in 1..n : cues[i] \in Cue /\ cues'[i] = cues[i]
      /\ \A i \in (n + 1)..Len(cues') : cues'[i] = new[i - n]
      /\ \A i \in 1..Len(new) : new[i] \in Cue
  <2>1. cues \in Seq(Cue)
    BY DEF TypeOK
  <2>2. QED
    BY <2>1, ConcatFacts
<1>2. /\ scene \in Nat /\ time \in Nat
      /\ \A i \in 1..n : cues[i].scene \in Nat /\ cues[i].from \in Nat /\ cues[i].to \in Nat
      /\ \A i \in 1..Len(new) : new[i].from \in Nat /\ new[i].to \in Nat
  BY <1>1 DEF TypeOK, Cue
<1> HIDE DEF n
<1>0. \A s : Timed(s)' = Timed(s)
  BY DEF Timed
<1>3. \A i \in 1..n : /\ cues'[i] = cues[i] /\ cues[i].scene < scene
                      /\ cues[i].from <= cues[i].to
                      /\ (Timed(cues[i].scene) => cues[i].to <= time)
  BY <1>1 DEF Order, CuesSoFar, n
<1>4. \A i \in (n + 1)..Len(cues') :
         /\ i - n \in 1..Len(new) /\ cues'[i] = new[i - n] /\ cues'[i].scene = scene
         /\ cues'[i].from \in Nat /\ cues'[i].to \in Nat
         /\ time <= cues'[i].from /\ cues'[i].from <= cues'[i].to
         /\ (Timed(scene) => cues'[i].to <= time')
  BY <1>1, <1>2
<1>5. CuesSoFar'
  BY <1>0, <1>1, <1>2, <1>3, <1>4 DEF CuesSoFar
<1>6. ASSUME NEW i \in 1..Len(cues'), NEW k \in 1..Len(cues'), i < k,
             cues'[i].scene = cues'[k].scene \/ Timed(cues'[i].scene)
      PROVE  cues'[i].from <= cues'[k].from /\ cues'[i].to <= cues'[k].to
  <2>1. CASE k <= n
    BY <1>1, <1>3, <1>6, <2>1 DEF Order, CuesInOrder, n
  <2>2. CASE i <= n /\ k > n
    <3>1. cues[i].scene < scene /\ cues'[k].scene = scene /\ cues'[i] = cues[i] /\ i \in 1..n
      BY <1>1, <1>3, <1>4, <2>2
    <3>2. Timed(cues[i].scene)
      BY <1>2, <1>6, <3>1
    <3>3. /\ cues[i].from <= cues[i].to /\ cues[i].to <= time
          /\ cues[i].from \in Nat /\ cues[i].to \in Nat
      BY <1>2, <1>3, <3>1, <3>2
    <3>4. /\ time <= cues'[k].from /\ cues'[k].from <= cues'[k].to
          /\ cues'[k].from \in Nat /\ cues'[k].to \in Nat
      BY <1>1, <1>4, <2>2
    <3>5. time \in Nat /\ cues'[i] = cues[i]
      BY <1>2, <3>1
    <3>6. cues[i].from <= cues'[k].from /\ cues[i].to <= cues'[k].to
      <4> DEFINE a == cues[i].from
                 b == cues[i].to
                 c == cues'[k].from
                 d == cues'[k].to
      <4>1. a <= b /\ b <= time /\ time <= c /\ c <= d
        BY <3>3, <3>4
      <4>2. a \in Nat /\ b \in Nat /\ time \in Nat /\ c \in Nat /\ d \in Nat
        BY <3>3, <3>4, <3>5
      <4> HIDE DEF a, b, c, d
      <4>3. a <= c /\ b <= d
        BY <4>1, <4>2
      <4>4. QED
        BY <4>3 DEF a, b, c, d
    <3>7. QED
      BY <3>5, <3>6
  <2>3. CASE i > n
    <3>1. i - n \in 1..Len(new) /\ k - n \in 1..Len(new) /\ i - n < k - n
      BY <1>1, <1>6, <2>3
    <3>2. new[i - n].from <= new[k - n].from /\ new[i - n].to <= new[k - n].to
      BY <3>1
    <3>3. cues'[i] = new[i - n] /\ cues'[k] = new[k - n]
      BY <1>1, <1>6, <2>3
    <3>4. QED
      BY <3>2, <3>3
  <2>4. QED
    BY <1>1, <2>1, <2>2, <2>3
<1>7. ASSUME NEW i \in 1..Len(cues'), NEW k \in 1..Len(cues'), cues'[i].scene < cues'[k].scene,
             Timed(cues'[i].scene)
      PROVE  cues'[i].to <= cues'[k].from
  <2>1. CASE i <= n /\ k <= n
    BY <1>1, <1>3, <1>7, <2>1 DEF Order, ScenesDoNotOverlap, n
  <2>2. CASE i <= n /\ k > n
    <3>1. cues'[i] = cues[i] /\ cues[i].to <= time /\ cues[i].to \in Nat
      BY <1>1, <1>2, <1>3, <1>7, <2>2
    <3>2. time <= cues'[k].from /\ cues'[k].from \in Nat
      BY <1>1, <1>4, <2>2
    <3>3. QED
      BY <1>2, <3>1, <3>2
  <2>3. CASE i > n
    <3>1. cues'[i].scene = scene
      BY <1>1, <1>4, <2>3
    <3>2. cues'[k].scene \in Nat /\ cues'[k].scene <= scene
      <4>1. CASE k <= n
        BY <1>1, <1>2, <1>3, <4>1
      <4>2. CASE k > n
        BY <1>1, <1>2, <1>4, <4>2
      <4>3. QED
        BY <1>1, <4>1, <4>2
    <3>3. QED
      BY <1>2, <1>7, <3>1, <3>2
  <2>4. QED
    BY <1>1, <2>1, <2>2, <2>3
<1>8. QED
  BY <1>0, <1>5, <1>6, <1>7 DEF CuesInOrder, ScenesDoNotOverlap

\* A chunk goes after all others and before the words that remain.
LEMMA ChunkAppended ==
    ASSUME NEW cs \in Seq(Seq(Mark) \ {<<>>}), NEW c \in Seq(Mark) \ {<<>>},
           NEW length,
           \A i \in 1..Len(cs) : Sorted(cs[i]) /\ Within(cs[i], length),
           Sorted(c), Within(c, length),
           \A i, k \in 1..Len(cs) : i < k => LastTime(cs[i]) <= cs[k][1].time,
           \A i \in 1..Len(cs) : LastTime(cs[i]) <= c[1].time
    PROVE  LET a == Append(cs, c) IN
           /\ \A i \in 1..Len(a) : Sorted(a[i]) /\ Within(a[i], length)
           /\ \A i, k \in 1..Len(a) : i < k => LastTime(a[i]) <= a[k][1].time
<1> DEFINE a == Append(cs, c)
<1>1. /\ Len(cs) \in Nat /\ Len(a) = Len(cs) + 1 /\ a[Len(cs) + 1] = c
      /\ \A i \in 1..Len(cs) : a[i] = cs[i]
  BY AppendFacts
<1> HIDE DEF a
<1>2. \A i \in 1..Len(a) : i \in 1..Len(cs) \/ i = Len(cs) + 1
  BY <1>1
<1>3. \A i \in 1..Len(a) : Sorted(a[i]) /\ Within(a[i], length)
  BY <1>1, <1>2
<1>4. ASSUME NEW i \in 1..Len(a), NEW k \in 1..Len(a), i < k
      PROVE  LastTime(a[i]) <= a[k][1].time
  <2>1. i \in 1..Len(cs)
    BY <1>1, <1>4
  <2>2. CASE k \in 1..Len(cs)
    BY <1>1, <1>4, <2>1, <2>2
  <2>3. CASE k = Len(cs) + 1
    BY <1>1, <2>1, <2>3
  <2>4. QED
    BY <1>2, <2>2, <2>3
<1>5. QED
  BY <1>3, <1>4 DEF a

\* In the end the words of a chunk are those that were ahead of the loop.
LEMMA GroupWordKeeps ==
    ASSUME TypeOK, Order, GroupWord
    PROVE  ChunkCovered' /\ ChunksCovered'
<1> DEFINE m == words[word]
           c == Append(chunk, m)
           length == Reach(scene)
<1>1. /\ pc = "group" /\ pc' = "group" /\ word' = word + 1
      /\ UNCHANGED <<audio, scene, words>>
      /\ word \in Nat /\ Len(words) \in Nat /\ word \in 1..Len(words)
      /\ \A k \in 1..Len(words) : words[k] \in Mark
  BY DEF GroupWord, TypeOK
<1>2. /\ chunk \in Seq(Mark) /\ chunks \in Seq(Seq(Mark) \ {<<>>}) /\ m \in Mark
      /\ c \in Seq(Mark) \ {<<>>} /\ Len(chunk) \in Nat /\ Len(c) = Len(chunk) + 1
      /\ c[Len(c)] = m /\ (\A i \in 1..Len(chunk) : c[i] = chunk[i])
  <2>1. chunk \in Seq(Mark) /\ chunks \in Seq(Seq(Mark) \ {<<>>}) /\ m \in Mark
    BY <1>1 DEF TypeOK
  <2>2. QED
    BY <2>1, AppendFacts
<1>3. length \in Nat
  <2>1. scene \in 1..Len(audio)
    BY <1>1 DEF TypeOK
  <2>2. QED
    BY <2>1 DEF Order, AudioCovered
<1>4. /\ Sorted(words) /\ Within(words, length)
      /\ Sorted(chunk) /\ Within(chunk, length) /\ Ahead(chunk)
  BY <1>1 DEF Order, WordsCovered, ChunkCovered
<1>5. Sorted(c) /\ Within(c, length)
  <2>1. m.time + 5 <= length /\ \A i \in 1..Len(chunk) : chunk[i].time <= m.time
    BY <1>1, <1>4 DEF Within, Ahead
  <2>2. QED
    BY <1>2, <1>3, <1>4, <2>1, MarkAppended
<1>6. \A i \in 1..Len(c), k \in (word + 1)..Len(words) : c[i].time <= words[k].time
  <2> SUFFICES ASSUME NEW i \in 1..Len(c), NEW k \in (word + 1)..Len(words)
               PROVE  c[i].time <= words[k].time
    OBVIOUS
  <2>1. k \in word..Len(words) /\ k \in 1..Len(words) /\ word <= k
    BY <1>1
  <2>2. CASE i \in 1..Len(chunk)
    BY <1>2, <1>4, <2>1, <2>2 DEF Ahead
  <2>3. CASE i = Len(c)
    BY <1>1, <1>2, <1>4, <2>1, <2>3 DEF Sorted
  <2>4. QED
    BY <1>2, <2>2, <2>3
<1>7. /\ \A i \in 1..Len(chunks) :
           /\ Sorted(chunks[i]) /\ Within(chunks[i], length) /\ Ahead(chunks[i])
           /\ chunk # <<>> => LastTime(chunks[i]) <= chunk[1].time
      /\ \A i, k \in 1..Len(chunks) : i < k => LastTime(chunks[i]) <= chunks[k][1].time
  BY <1>1 DEF Order, ChunksCovered
<1>8. \A i \in 1..Len(chunks) : LastTime(chunks[i]) <= c[1].time
  <2> SUFFICES ASSUME NEW i \in 1..Len(chunks) PROVE LastTime(chunks[i]) <= c[1].time
    OBVIOUS
  <2>1. CASE chunk = <<>>
    <3>1. c[1] = m
      BY <1>2, <2>1
    <3>2. chunks[i] \in Seq(Mark) /\ Len(chunks[i]) \in 1..Len(chunks[i])
      BY <1>2
    <3>3. word \in word..Len(words)
      BY <1>1
    <3>4. QED
      BY <1>7, <3>1, <3>2, <3>3 DEF Ahead, LastTime
  <2>2. CASE chunk # <<>>
    <3>1. 1 \in 1..Len(chunk)
      BY <1>2, <2>2
    <3>2. QED
      BY <1>2, <1>7, <2>2, <3>1
  <2>3. QED
    BY <2>1, <2>2
<1>9. \A i \in 1..Len(chunks) : \A a \in 1..Len(chunks[i]), k \in (word + 1)..Len(words) :
         chunks[i][a].time <= words[k].time
  BY <1>1, <1>7 DEF Ahead
<1> HIDE DEF m, c, length
<1>10. CASE ShouldEnd(c)
  <2>1. chunk' = <<>> /\ chunks' = Append(chunks, c)
    BY <1>10 DEF GroupWord, c, m
  <2>2. ChunkCovered'
    BY <2>1 DEF ChunkCovered, Sorted, Within, Ahead
  <2>3. /\ \A i \in 1..Len(chunks') : Sorted(chunks'[i]) /\ Within(chunks'[i], length)
        /\ \A i, k \in 1..Len(chunks') : i < k => LastTime(chunks'[i]) <= chunks'[k][1].time
    BY <1>2, <1>5, <1>7, <1>8, <2>1, ChunkAppended
  <2>4. /\ Len(chunks) \in Nat /\ Len(chunks') = Len(chunks) + 1 /\ chunks'[Len(chunks) + 1] = c
        /\ \A i \in 1..Len(chunks) : chunks'[i] = chunks[i]
    BY <1>2, <2>1, AppendFacts
  <2>5. \A i \in 1..Len(chunks') : \A a \in 1..Len(chunks'[i]), k \in (word + 1)..Len(words) :
           chunks'[i][a].time <= words[k].time
    <3> SUFFICES ASSUME NEW i \in 1..Len(chunks')
                 PROVE  \A a \in 1..Len(chunks'[i]), k \in (word + 1)..Len(words) :
                           chunks'[i][a].time <= words[k].time
      OBVIOUS
    <3>1. CASE i \in 1..Len(chunks)
      BY <1>9, <2>4, <3>1
    <3>2. CASE i = Len(chunks) + 1
      BY <1>6, <2>4, <3>2
    <3>3. QED
      BY <2>4, <3>1, <3>2
  <2>6. QED
    BY <1>1, <2>1, <2>2, <2>3, <2>5 DEF ChunksCovered, Ahead, length, Reach
<1>11. CASE ~ShouldEnd(c)
  <2>1. chunk' = c /\ chunks' = chunks
    BY <1>11 DEF GroupWord, c, m
  <2>2. ChunkCovered'
    BY <1>1, <1>5, <1>6, <2>1 DEF ChunkCovered, Ahead, length, Reach
  <2>3. ChunksCovered'
    BY <1>1, <1>7, <1>8, <1>9, <2>1 DEF ChunksCovered, Ahead, length, Reach
  <2>4. QED
    BY <2>2, <2>3
<1>12. QED
  BY <1>10, <1>11

LEMMA OrderStep ==
    ASSUME TypeOK, Order, [Next]_vars
    PROVE  Order'
<1> USE DEF AudioCovered, WordsCovered, ChunkCovered, ChunksCovered, CuesSoFar,
            CuesInOrder, ScenesDoNotOverlap
<1> DEFINE length == audio[scene].length
           reach == Reach(scene)
<1>0. UNCHANGED <<audio, stored>> =>
          AudioCovered' /\ \A s : Timed(s)' = Timed(s) /\ Reach(s)' = Reach(s)
  BY DEF Order, Timed, Reach
<1>1. CASE Synthesize
  <2>1. PICK marks \in Speeches \cup {<<>>}, estimate \in Estimates :
           \/ \E f \in Put(marks) \cup {NoFile} :
                /\ audio' = Append(audio, [length |-> Length(marks, estimate),
                                           marks  |-> f.marks,
                                           file   |-> f.file])
                /\ stored' = NoFile
           \/ stored' \in Put(marks) /\ UNCHANGED audio
    BY <1>1 DEF Synthesize
  <2>2. Put(marks) \subseteq SpeechFile /\ NoFile \in SpeechFile
    BY PutLeaves DEF Order
  <2>3. Length(marks, estimate) \in Nat /\ Length(marks, estimate) >= 10
    BY LengthCovers, SubtitlesAssumption
  <2>4. AudioCovered'
    <3>1. CASE stored' \in Put(marks) /\ UNCHANGED audio
      BY <2>2, <3>1 DEF Order, Timed, Reach
    <3>2. ASSUME NEW f \in Put(marks) \cup {NoFile},
                 audio' = Append(audio, [length |-> Length(marks, estimate),
                                         marks  |-> f.marks,
                                         file   |-> f.file]),
                 stored' = NoFile
          PROVE  AudioCovered'
      <4> DEFINE a == [length |-> Length(marks, estimate), marks |-> f.marks, file |-> f.file]
      <4>1. /\ f.marks \in Speeches \cup {<<>>} /\ f.file \in Files
            /\ f.file # "whole" => f.marks = <<>>
        BY <2>2 DEF SpeechFile
      <4>2. /\ f.marks \in Seq(Mark) /\ Sorted(f.marks) /\ Length(f.marks, 0) \in Nat
            /\ Within(f.marks, Length(f.marks, 0))
        BY <4>1, LengthCovers
      <4>3. a \in Audio
        BY <2>3, <4>1, <4>2 DEF Audio
      <4>4. (a.file = "whole" => a.length = Length(a.marks, 0)) => Length(a.marks, 0) <= a.length
        <5>1. CASE a.file = "whole"
          BY <4>2, <5>1
        <5>2. CASE a.file # "whole"
          BY <2>3, <4>1, <5>2 DEF Length, Longer
        <5>3. QED
          BY <5>1, <5>2
      <4>5. Sorted(a.marks) /\ Within(a.marks, Length(a.marks, 0)) /\ Length(a.marks, 0) \in Nat
        BY <4>2
      <4> HIDE DEF a
      <4>6. /\ Len(audio) \in Nat /\ Len(audio') = Len(audio) + 1 /\ audio'[Len(audio) + 1] = a
            /\ \A s \in 1..Len(audio) : audio'[s] = audio[s]
        <5>1. audio \in Seq(Audio) /\ audio' = Append(audio, a)
          BY <3>2 DEF TypeOK, a
        <5>2. QED
          BY <4>3, <5>1, AppendFacts
      <4>7. ASSUME NEW s \in 1..Len(audio')
            PROVE  /\ Sorted(audio'[s].marks) /\ Within(audio'[s].marks, Reach(s)')
                   /\ Reach(s)' \in Nat /\ (Timed(s)' => Reach(s)' <= audio'[s].length)
        <5>1. CASE s \in 1..Len(audio)
          BY <4>6, <5>1 DEF Order, Reach, Timed
        <5>2. CASE s = Len(audio) + 1
          BY <4>4, <4>5, <4>6, <5>2 DEF Reach, Timed
        <5>3. QED
          BY <4>6, <5>1, <5>2
      <4>8. QED
        BY <2>2, <3>2, <4>7
    <3>3. QED
      BY <2>1, <3>1, <3>2
  <2>5. QED
    BY <1>1, <2>4 DEF Synthesize, Order
<1>2. CASE StartSubtitles
  BY <1>0, <1>2 DEF StartSubtitles, Order
<1>3. CASE StartFilter
  <2>1. WordsCovered'
    BY <1>3 DEF StartFilter, Sorted, Within
  <2>2. QED
    BY <1>0, <1>3, <2>1 DEF StartFilter, Order
<1>4. CASE Filter
  <2> DEFINE marks == audio[scene].marks
             m == marks[word]
  <2>1. /\ pc = "filter" /\ pc' = "filter" /\ word' = word + 1
        /\ UNCHANGED <<stored, audio, scene, time, chunk, chunks, cues>>
        /\ words' = IF IsWord(m) THEN Append(words, m) ELSE words
        /\ scene \in 1..Len(audio) /\ audio[scene] \in Audio /\ word \in Nat
        /\ words \in Seq(Mark)
    BY <1>4 DEF Filter, TypeOK
  <2>2. marks \in Seq(Mark) /\ reach \in Nat /\ word \in 1..Len(marks) /\ Len(marks) \in Nat
    <3>1. marks \in Seq(Mark) /\ reach \in Nat
      BY <2>1 DEF Audio, Order
    <3>2. word <= Len(marks) /\ word >= 1
      BY <1>4 DEF Filter, TypeOK
    <3>3. QED
      BY <2>1, <3>1, <3>2
  <2>3. m \in Mark
    BY <2>2
  <2>4. /\ Sorted(marks) /\ Within(marks, reach) /\ Sorted(words) /\ Within(words, reach)
        /\ \A i \in 1..Len(words), k \in word..Len(marks) : words[i].time <= marks[k].time
    BY <2>1 DEF Order
  <2>5. m.time + 5 <= reach /\ \A i \in 1..Len(words) : words[i].time <= m.time
    <3>1. word \in word..Len(marks) /\ word \in 1..Len(marks)
      BY <2>2
    <3>2. m.time + 5 <= reach
      BY <2>4, <3>1 DEF Within
    <3>3. \A i \in 1..Len(words) : words[i].time <= m.time
      BY <2>4, <3>1
    <3>4. QED
      BY <3>2, <3>3
  <2>6. Sorted(Append(words, m)) /\ Within(Append(words, m), reach)
    BY <2>1, <2>2, <2>3, <2>4, <2>5, MarkAppended
  <2>7. \A i \in 1..Len(words), k \in (word + 1)..Len(marks) : words[i].time <= marks[k].time
    BY <2>1, <2>4
  <2>8. \A k \in (word + 1)..Len(marks) : m.time <= marks[k].time
    BY <2>2, <2>4 DEF Sorted
  <2>9. \A i \in 1..Len(Append(words, m)), k \in (word + 1)..Len(marks) :
           Append(words, m)[i].time <= marks[k].time
    <3>1. /\ Len(words) \in Nat /\ Len(Append(words, m)) = Len(words) + 1
          /\ Append(words, m)[Len(words) + 1] = m
          /\ \A i \in 1..Len(words) : Append(words, m)[i] = words[i]
      BY <2>1, <2>3, AppendFacts
    <3>2. \A i \in 1..Len(Append(words, m)) : i \in 1..Len(words) \/ i = Len(words) + 1
      BY <3>1
    <3>3. QED
      BY <2>7, <2>8, <3>1, <3>2
  <2> HIDE DEF m, marks, reach
  <2>10. WordsCovered'
    <3>1. CASE words' = words
      BY <2>1, <2>4, <2>7, <3>1 DEF marks, reach, Reach
    <3>2. CASE words' = Append(words, m)
      BY <2>1, <2>6, <2>9, <3>2 DEF marks, reach, Reach
    <3>3. QED
      BY <2>1, <3>1, <3>2
  <2>11. QED
    BY <1>0, <2>1, <2>10 DEF Order
<1>5. CASE WholeScene
  <2> DEFINE c == [scene |-> scene, from |-> time, to |-> time + length, text |-> <<>>]
  <2>1. scene \in 1..Len(audio) /\ audio[scene] \in Audio /\ time \in Nat /\ scene \in Nat
    BY <1>5 DEF WholeScene, Filtered, TypeOK
  <2>2. length \in Nat
    BY <2>1 DEF Audio
  <2>3. c \in Cue
    BY <2>1, <2>2 DEF Cue
  <2>4. /\ <<c>> \in Seq(Cue) /\ Len(<<c>>) = 1 /\ <<c>>[1] = c
        /\ cues' = cues \o <<c>> /\ scene' = scene + 1 /\ time' = time + length
    <3>1. cues \in Seq(Cue)
      BY DEF TypeOK
    <3>2. QED
      BY <1>5, <2>3, <3>1 DEF WholeScene, Advance, NextScene
  <2>5. /\ c.scene = scene /\ c.from = time /\ c.to = time'
        /\ time' \in Nat /\ time <= time' /\ time <= time
    BY <2>1, <2>2, <2>4
  <2>8. UNCHANGED audio /\ pc' # "synthesize"
    BY <1>5 DEF WholeScene
  <2> HIDE DEF c, length
  <2>6. CuesSoFar' /\ CuesInOrder' /\ ScenesDoNotOverlap'
    <3>1. \A i \in 1..Len(<<c>>) : i = 1
      BY <2>4
    <3>2. QED
      <4> DEFINE new == <<c>>
      <4>1. /\ new \in Seq(Cue) /\ cues' = cues \o new /\ Len(new) = 1
            /\ \A i \in 1..Len(new) : new[i] = c /\ i = 1
        BY <2>4, <3>1
      <4> HIDE DEF new
      <4>2. \A i \in 1..Len(new) :
               /\ new[i].scene = scene /\ time <= new[i].from
               /\ new[i].from <= new[i].to /\ (Timed(scene) => new[i].to <= time')
        BY <2>1, <2>5, <4>1
      <4>3. \A i, k \in 1..Len(new) :
               i < k => new[i].from <= new[k].from /\ new[i].to <= new[k].to
        BY <4>1
      <4>4. QED
        BY <2>4, <2>5, <2>8, <4>1, <4>2, <4>3, CuesAppended
  <2>7. QED
    BY <1>0, <1>5, <2>6 DEF WholeScene, Order
<1>6. CASE SkipScene
  <2>1. scene \in Nat /\ scene' = scene + 1
    BY <1>6 DEF SkipScene, NextScene, TypeOK
  <2>2. \A i \in 1..Len(cues) : cues[i].scene \in Nat
    <3>1. \A i \in 1..Len(cues) : cues[i] \in Cue
      BY DEF TypeOK
    <3>2. QED
      BY <3>1 DEF Cue
  <2>3. QED
    BY <1>0, <1>6, <2>1, <2>2 DEF SkipScene, Order
<1>7. CASE StartGrouping
  <2>1. ChunkCovered' /\ ChunksCovered'
    BY <1>7 DEF StartGrouping, Sorted, Within, Ahead
  <2>2. QED
    BY <1>0, <1>7, <2>1 DEF StartGrouping, Filtered, Order
<1>8. CASE GroupWord
  <2>1. ChunkCovered' /\ ChunksCovered'
    BY <1>8, GroupWordKeeps
  <2>2. QED
    BY <1>0, <1>8, <2>1 DEF GroupWord, Order
<1>9. CASE EndGrouping
  <2>1. ChunksCovered'
    <3>1. CASE chunk = <<>>
      <4>1. chunks' = chunks
        BY <1>9, <3>1 DEF EndGrouping, Remaining, TypeOK
      <4>2. QED
        BY <1>0, <1>9, <4>1 DEF EndGrouping, Order
    <3>2. CASE chunk # <<>>
      <4>1. chunks \in Seq(Seq(Mark) \ {<<>>}) /\ chunk \in Seq(Mark) \ {<<>>}
        BY <3>2 DEF TypeOK
      <4>2. chunks' = Append(chunks, chunk)
        BY <1>9, <3>2, <4>1 DEF EndGrouping, Remaining
      <4>3. /\ \A i \in 1..Len(chunks') : Sorted(chunks'[i]) /\ Within(chunks'[i], reach)
            /\ \A i, k \in 1..Len(chunks') : i < k => LastTime(chunks'[i]) <= chunks'[k][1].time
        BY <1>9, <3>2, <4>1, <4>2, ChunkAppended DEF EndGrouping, Order
      <4>4. QED
        BY <1>0, <1>9, <4>3 DEF EndGrouping
    <3>3. QED
      BY <3>1, <3>2
  <2>2. QED
    BY <1>0, <1>9, <2>1 DEF EndGrouping, Order
<1>10. CASE WriteCues
  <2>1. scene \in 1..Len(audio) /\ audio[scene] \in Audio /\ time \in Nat /\ scene \in Nat
    BY <1>10 DEF WriteCues, TypeOK
  <2>2. length \in Nat /\ reach \in Nat /\ (Timed(scene) => reach <= length)
    BY <2>1 DEF Audio, Order
  <2>3. cues' = cues \o NewCues /\ scene' = scene + 1 /\ time' = time + length
    BY <1>10 DEF WriteCues, Advance, NextScene, NewCues
  <2>4. /\ \A i \in 1..Len(chunks) : Sorted(chunks[i]) /\ Within(chunks[i], reach)
        /\ \A i, k \in 1..Len(chunks) : i < k => LastTime(chunks[i]) <= chunks[k][1].time
    BY <1>10 DEF WriteCues, Order
  <2>5. ASSUME NEW i \in 1..Len(chunks)
        PROVE  /\ chunks[i][1].time \in Nat /\ LastTime(chunks[i]) \in Nat
               /\ chunks[i][1].time <= LastTime(chunks[i])
               /\ LastTime(chunks[i]) + 5 <= reach
    <3>1. chunks[i] \in Seq(Mark) \ {<<>>}
      BY DEF TypeOK
    <3>2. /\ Len(chunks[i]) \in Nat /\ 1 \in 1..Len(chunks[i])
          /\ Len(chunks[i]) \in 1..Len(chunks[i]) /\ 1 <= Len(chunks[i])
      BY <3>1
    <3>3. chunks[i][1] \in Mark /\ chunks[i][Len(chunks[i])] \in Mark
      BY <3>1, <3>2
    <3>4. chunks[i][1].time \in Nat /\ LastTime(chunks[i]) \in Nat
      BY <3>3 DEF LastTime, Mark
    <3>5. Sorted(chunks[i]) /\ Within(chunks[i], reach)
      BY <2>4
    <3>6. QED
      BY <3>2, <3>4, <3>5 DEF Sorted, Within, LastTime
  <2>6. \A i \in 1..Len(NewCues) :
           /\ i \in 1..Len(chunks) /\ NewCues[i].scene = scene
           /\ NewCues[i].from = time + chunks[i][1].time
           /\ NewCues[i].to = time + LastTime(chunks[i]) + 4
    BY NewCuesType DEF NewCues, WordCue, LastTime
  <2> HIDE DEF length, reach
  <2>7. \A i \in 1..Len(NewCues) :
           /\ NewCues[i].scene = scene /\ time <= NewCues[i].from
           /\ NewCues[i].from <= NewCues[i].to /\ (Timed(scene) => NewCues[i].to <= time')
    <3> SUFFICES ASSUME NEW i \in 1..Len(NewCues)
                 PROVE  /\ NewCues[i].scene = scene /\ time <= NewCues[i].from
                        /\ NewCues[i].from <= NewCues[i].to /\ (Timed(scene) => NewCues[i].to <= time')
      OBVIOUS
    <3> DEFINE first == chunks[i][1].time
               last == LastTime(chunks[i])
    <3>1. first \in Nat /\ last \in Nat /\ first <= last /\ last + 5 <= reach
      BY <2>5, <2>6
    <3>2. NewCues[i].scene = scene /\ NewCues[i].from = time + first /\ NewCues[i].to = time + last + 4
      BY <2>6
    <3> HIDE DEF first, last
    <3>3. QED
      BY <2>1, <2>2, <2>3, <3>1, <3>2
  <2>8. \A i, k \in 1..Len(NewCues) :
           i < k => NewCues[i].from <= NewCues[k].from /\ NewCues[i].to <= NewCues[k].to
    <3> SUFFICES ASSUME NEW i \in 1..Len(NewCues), NEW k \in 1..Len(NewCues), i < k
                 PROVE  NewCues[i].from <= NewCues[k].from /\ NewCues[i].to <= NewCues[k].to
      OBVIOUS
    <3>1. i \in 1..Len(chunks) /\ k \in 1..Len(chunks)
      BY <2>6
    <3> DEFINE first(n) == chunks[n][1].time
               last(n) == LastTime(chunks[n])
    <3>2. last(i) <= first(k)
      BY <2>4, <3>1
    <3>3. /\ first(i) \in Nat /\ last(i) \in Nat /\ first(i) <= last(i)
          /\ first(k) \in Nat /\ last(k) \in Nat /\ first(k) <= last(k)
      BY <2>5, <3>1
    <3>4. /\ NewCues[i].from = time + first(i) /\ NewCues[i].to = time + last(i) + 4
          /\ NewCues[k].from = time + first(k) /\ NewCues[k].to = time + last(k) + 4
      BY <2>6
    <3> HIDE DEF first, last
    <3>5. first(i) <= first(k) /\ last(i) <= last(k) /\ time \in Nat
      BY <2>1, <3>2, <3>3
    <3>6. time + first(i) <= time + first(k) /\ time + last(i) + 4 <= time + last(k) + 4
      BY <3>3, <3>5
    <3>7. QED
      BY <3>4, <3>6
  <2>9. time' \in Nat /\ time <= time' /\ NewCues \in Seq(Cue)
    BY <2>1, <2>2, <2>3, NewCuesType
  <2>10. CuesSoFar' /\ CuesInOrder' /\ ScenesDoNotOverlap'
    <3>1. UNCHANGED audio /\ pc' # "synthesize"
      BY <1>10 DEF WriteCues
    <3>2. QED
      BY <2>3, <2>7, <2>8, <2>9, <3>1, CuesAppended
  <2>11. QED
    BY <1>0, <1>10, <2>10 DEF WriteCues, Order
<1>11. CASE UNCHANGED vars
  BY <1>0, <1>11 DEF vars, Order, Ahead
<1>12. QED
  BY <1>1, <1>2, <1>3, <1>4, <1>5, <1>6, <1>7, <1>8, <1>9, <1>10, <1>11 DEF Next

LEMMA Ordered == Spec => []Order
<1>1. TypeOK /\ Order /\ [Next]_vars => Order'
  BY OrderStep
<1>2. QED
  BY OrderInit, <1>1, TypeCorrect, PTL DEF Spec

\* The cues of generateSRTWithSpeechMarks start and end in the order of the file,
\* except that those of a scene whose file of marks is of another attempt than its
\* row may outlast the next scene's.
THEOREM CuesAreInOrder == Spec => []CuesInOrder
<1>1. Order => CuesInOrder
  BY DEF Order
<1>2. QED
  BY <1>1, Ordered, PTL

\* The half second Polly's provider adds to the last mark outlasts the 400 ms of
\* a scene's last cue, for any marks: no cue of a scene timed by the marks in its
\* file runs into a later scene.
THEOREM ScenesAreApart == Spec => []ScenesDoNotOverlap
<1>1. Order => ScenesDoNotOverlap
  BY DEF Order
<1>2. QED
  BY <1>1, Ordered, PTL

-----------------------------------------------------------------------------
(* What is in a cue.                                                       *)

ReadableText(c) ==
    Len(c) <= MaxWordsPerChunk /\ \A k \in 1..(Len(c) - 1) : ~c[k].ends
CutOff(c) == Len(c) = MaxWordsPerChunk \/ c[Len(c)].ends

\* Chunks are readable, and all but the last of a scene were cut off; the one
\* that is being filled has room and no punctuation.
ChunksReadable ==
    /\ pc = "group" =>
         /\ Len(chunk) < MaxWordsPerChunk /\ \A k \in 1..Len(chunk) : ~chunk[k].ends
         /\ \A i \in 1..Len(chunks) : CutOff(chunks[i])
    /\ pc \in {"group", "write"} => \A i \in 1..Len(chunks) : ReadableText(chunks[i])
    /\ pc = "write" => \A i \in 1..(Len(chunks) - 1) : CutOff(chunks[i])

LEMMA ReadableInit == Init => ChunksReadable /\ ChunksAreReadable
BY DEF Init, ChunksReadable, ChunksAreReadable

LEMMA ChunksReadableStep ==
    ASSUME TypeOK, ChunksReadable, [Next]_vars
    PROVE  ChunksReadable'
<1> USE DEF ChunksReadable
<1>1. CASE Synthesize \/ StartSubtitles \/ StartFilter \/ Filter \/ WholeScene \/ SkipScene
  BY <1>1 DEF Synthesize, StartSubtitles, StartFilter, Filter, WholeScene, SkipScene
<1>2. CASE StartGrouping
  BY <1>2, SubtitlesAssumption DEF StartGrouping
<1>3. CASE GroupWord
  <2> DEFINE c == Append(chunk, words[word])
  <2>1. /\ pc = "group" /\ pc' = "group" /\ word \in 1..Len(words)
        /\ words \in Seq(Mark) /\ chunk \in Seq(Mark) /\ chunks \in Seq(Seq(Mark) \ {<<>>})
    BY <1>3 DEF GroupWord, TypeOK
  <2>2. words[word] \in Mark
    BY <2>1
  <2>3. /\ c \in Seq(Mark) \ {<<>>} /\ Len(chunk) \in Nat /\ Len(c) = Len(chunk) + 1
        /\ \A k \in 1..Len(chunk) : c[k] = chunk[k]
    <3>1. chunk \in Seq(Mark)
      BY <2>1
    <3>2. QED
      BY <2>2, <3>1, AppendFacts
  <2> HIDE DEF c
  <2>4. ReadableText(c)
    <3>1. Len(chunk) < MaxWordsPerChunk /\ \A k \in 1..Len(chunk) : ~chunk[k].ends
      BY <2>1
    <3>2. Len(c) <= MaxWordsPerChunk /\ 1..(Len(c) - 1) = 1..Len(chunk)
      BY <2>3, <3>1, SubtitlesAssumption
    <3>3. \A k \in 1..Len(chunk) : ~c[k].ends
      BY <2>3, <3>1
    <3>4. QED
      BY <3>2, <3>3 DEF ReadableText
  <2>5. CASE ShouldEnd(c)
    <3>1. chunk' = <<>> /\ chunks' = Append(chunks, c)
      BY <1>3, <2>5 DEF GroupWord, c
    <3>2. CutOff(c)
      BY <2>3, <2>4, <2>5, SubtitlesAssumption DEF ShouldEnd, CutOff, ReadableText
    <3>3. /\ Len(chunks) \in Nat /\ Len(chunks') = Len(chunks) + 1 /\ chunks'[Len(chunks) + 1] = c
          /\ \A i \in 1..Len(chunks) : chunks'[i] = chunks[i]
      BY <2>1, <2>3, <3>1, AppendFacts
    <3>4. \A i \in 1..Len(chunks') : CutOff(chunks'[i]) /\ ReadableText(chunks'[i])
      <4> SUFFICES ASSUME NEW i \in 1..Len(chunks')
                   PROVE  CutOff(chunks'[i]) /\ ReadableText(chunks'[i])
        OBVIOUS
      <4>1. i \in 1..Len(chunks) \/ i = Len(chunks) + 1
        BY <3>3
      <4>2. QED
        BY <2>1, <2>4, <3>2, <3>3, <4>1
    <3>5. QED
      BY <2>1, <3>1, <3>4, SubtitlesAssumption
  <2>6. CASE ~ShouldEnd(c)
    <3>1. chunk' = c /\ chunks' = chunks
      BY <1>3, <2>6 DEF GroupWord, c
    <3>2. Len(c) < MaxWordsPerChunk /\ \A k \in 1..Len(c) : ~c[k].ends
      <4>1. ~c[Len(c)].ends /\ ~(Len(c) >= MaxWordsPerChunk)
        BY <2>6 DEF ShouldEnd
      <4>2. \A k \in 1..Len(c) : k \in 1..(Len(c) - 1) \/ k = Len(c)
        BY <2>3
      <4>3. \A k \in 1..(Len(c) - 1) : ~c[k].ends
        BY <2>4 DEF ReadableText
      <4>4. \A k \in 1..Len(c) : ~c[k].ends
        BY <4>1, <4>2, <4>3
      <4>5. QED
        BY <2>3, <4>1, <4>4, SubtitlesAssumption
    <3>3. QED
      BY <2>1, <3>1, <3>2
  <2>7. QED
    BY <2>5, <2>6
<1>4. CASE EndGrouping
  <2>1. CASE chunk = <<>>
    <3>1. chunks' = chunks /\ Len(chunks) \in Nat
      BY <1>4, <2>1 DEF EndGrouping, Remaining, TypeOK
    <3>2. QED
      BY <1>4, <3>1 DEF EndGrouping
  <2>2. CASE chunk # <<>>
    <3>1. chunks \in Seq(Seq(Mark) \ {<<>>}) /\ chunk \in Seq(Mark) \ {<<>>}
      BY <2>2 DEF TypeOK
    <3>2. chunks' = Append(chunks, chunk)
      BY <1>4, <2>2, <3>1 DEF EndGrouping, Remaining
    <3>3. /\ Len(chunks) \in Nat /\ Len(chunks') = Len(chunks) + 1 /\ chunks'[Len(chunks) + 1] = chunk
          /\ \A i \in 1..Len(chunks) : chunks'[i] = chunks[i]
      BY <3>1, <3>2, AppendFacts
    <3>4. ReadableText(chunk)
      <4>1. Len(chunk) \in Nat
        BY <3>1
      <4>2. QED
        BY <1>4, <4>1, SubtitlesAssumption DEF EndGrouping, ReadableText
    <3>5. QED
      BY <1>4, <3>3, <3>4 DEF EndGrouping
  <2>3. QED
    BY <2>1, <2>2
<1>5. CASE WriteCues
  BY <1>5 DEF WriteCues
<1>6. CASE UNCHANGED vars
  BY <1>6 DEF vars
<1>7. QED
  BY <1>1, <1>2, <1>3, <1>4, <1>5, <1>6 DEF Next

\* Cues of a new scene are readable if their texts are.
LEMMA ReadableAppended ==
    ASSUME TypeOK, Order, ChunksAreReadable, NEW new \in Seq(Cue),
           cues' = cues \o new,
           \A i \in 1..Len(new) : new[i].scene = scene /\ ReadableText(new[i].text),
           \A i \in 1..(Len(new) - 1) : CutOff(new[i].text)
    PROVE  ChunksAreReadable'
<1> DEFINE n == Len(cues)
<1>1. cues \in Seq(Cue) /\ scene \in Nat
  BY DEF TypeOK
<1>2. /\ n \in Nat /\ Len(new) \in Nat /\ Len(cues') = n + Len(new)
      /\ \A i \in 1..n : cues'[i] = cues[i] /\ cues[i] \in Cue
      /\ \A i \in (n + 1)..Len(cues') : cues'[i] = new[i - n]
  BY <1>1, ConcatFacts
<1>3. \A i \in 1..n : cues[i].scene \in Nat /\ cues[i].scene < scene
  BY <1>2 DEF Order, CuesSoFar, Cue
<1> HIDE DEF n
<1>4. \A i \in 1..Len(cues') : i \in 1..n \/ (i \in (n + 1)..Len(cues') /\ i - n \in 1..Len(new))
  BY <1>2
<1>5. ASSUME NEW i \in 1..Len(cues') PROVE ReadableText(cues'[i].text)
  <2>1. CASE i \in 1..n
    BY <1>2, <2>1 DEF ChunksAreReadable, ReadableText, n
  <2>2. CASE i \in (n + 1)..Len(cues') /\ i - n \in 1..Len(new)
    BY <1>2, <2>2
  <2>3. QED
    BY <1>4, <2>1, <2>2
<1>6. ASSUME NEW i \in 1..Len(cues'), i < Len(cues'), cues'[i + 1].scene = cues'[i].scene
      PROVE  CutOff(cues'[i].text)
  <2>1. CASE i \in 1..n /\ i + 1 \in 1..n
    <3>1. i < Len(cues) /\ cues[i + 1].scene = cues[i].scene
      BY <1>2, <1>6, <2>1 DEF n
    <3>2. QED
      BY <1>2, <2>1, <3>1 DEF ChunksAreReadable, CutOff, n
  <2>2. CASE i \in 1..n /\ i + 1 \notin 1..n
    <3>1. i + 1 \in (n + 1)..Len(cues') /\ i + 1 - n \in 1..Len(new)
      BY <1>2, <1>6, <2>2
    <3>2. cues'[i + 1].scene = scene /\ cues'[i].scene = cues[i].scene
      BY <1>2, <2>2, <3>1
    <3>3. cues[i].scene = scene
      BY <1>6, <3>2
    <3>4. cues[i].scene < scene
      BY <1>3, <2>2
    <3>5. QED
      BY <1>1, <3>3, <3>4
  <2>3. CASE i \notin 1..n
    <3>1. i \in (n + 1)..Len(cues') /\ i - n \in 1..(Len(new) - 1)
      BY <1>2, <1>6, <2>3
    <3>2. cues'[i] = new[i - n] /\ CutOff(new[i - n].text)
      BY <1>2, <3>1
    <3>3. QED
      BY <3>2
  <2>4. QED
    BY <2>1, <2>2, <2>3
<1>7. QED
  BY <1>5, <1>6 DEF ChunksAreReadable, ReadableText, CutOff

LEMMA ReadableStep ==
    ASSUME TypeOK, Order, ChunksReadable, ChunksAreReadable, [Next]_vars
    PROVE  ChunksAreReadable'
<1>1. CASE UNCHANGED cues
  BY <1>1 DEF ChunksAreReadable
<1>2. CASE WholeScene
  <2> DEFINE c == [scene |-> scene, from |-> time, to |-> time + audio[scene].length, text |-> <<>>]
             new == <<c>>
  <2>1. audio[scene] \in Audio /\ time \in Nat /\ scene \in Nat
    BY <1>2 DEF WholeScene, Filtered, TypeOK
  <2>2. c \in Cue
    BY <2>1 DEF Cue, Audio
  <2>3. /\ new \in Seq(Cue) /\ Len(new) = 1 /\ cues' = cues \o new
        /\ \A i \in 1..Len(new) : new[i] = c
    <3>1. cues \in Seq(Cue)
      BY DEF TypeOK
    <3>2. QED
      BY <1>2, <2>2, <3>1 DEF WholeScene
  <2>4. c.scene = scene /\ ReadableText(c.text)
    BY SubtitlesAssumption DEF ReadableText
  <2> HIDE DEF c, new
  <2>5. /\ \A i \in 1..Len(new) : new[i].scene = scene /\ ReadableText(new[i].text)
        /\ \A i \in 1..(Len(new) - 1) : CutOff(new[i].text)
    BY <2>3, <2>4
  <2>6. QED
    BY <2>3, <2>5, ReadableAppended
<1>3. CASE WriteCues
  <2>1. cues' = cues \o NewCues /\ NewCues \in Seq(Cue) /\ Len(NewCues) = Len(chunks)
    BY <1>3, NewCuesType DEF WriteCues, NewCues
  <2>2. \A i \in 1..Len(chunks) : NewCues[i].scene = scene /\ NewCues[i].text = chunks[i]
    BY DEF NewCues, WordCue
  <2>3. /\ \A i \in 1..Len(chunks) : ReadableText(chunks[i])
        /\ \A i \in 1..(Len(chunks) - 1) : CutOff(chunks[i])
    BY <1>3 DEF WriteCues, ChunksReadable
  <2>4. /\ \A i \in 1..Len(NewCues) : NewCues[i].scene = scene /\ ReadableText(NewCues[i].text)
        /\ \A i \in 1..(Len(NewCues) - 1) : CutOff(NewCues[i].text)
    BY <2>1, <2>2, <2>3, NewCuesType
  <2>5. QED
    BY <2>1, <2>4, ReadableAppended
<1>4. QED
  BY <1>1, <1>2, <1>3
     DEF Next, vars, Synthesize, StartSubtitles, StartFilter, Filter, SkipScene, StartGrouping,
         GroupWord, EndGrouping

\* groupWordsIntoChunks never makes a cue longer than MaxWordsPerChunk words or
\* goes on over punctuation, and cuts one short only at the end of its scene.
THEOREM CuesAreReadable == Spec => []ChunksAreReadable
<1>1. TypeOK /\ Order /\ ChunksReadable /\ ChunksAreReadable /\ [Next]_vars
      => ChunksReadable' /\ ChunksAreReadable'
  BY ChunksReadableStep, ReadableStep
<1>2. QED
  BY ReadableInit, <1>1, TypeCorrect, Ordered, PTL DEF Spec

-----------------------------------------------------------------------------
(* Recursive functions.  The theorems on induction of the library take an  *)
(* operator; here the property and the step are sets.                      *)

\* Induction over the numbers in a set: strict inclusion of the finite sets 1..n is
\* well-founded, so a least number outside S cannot be.
LEMMA SetInduction ==
    ASSUME NEW S, 0 \in S, \A n \in Nat : n \in S => n + 1 \in S
    PROVE  Nat \subseteq S
<1> DEFINE R == StrictSubsetOrdering(Nat)
           T == {1..n : n \in Nat \ S}
<1> SUFFICES ASSUME T # {} PROVE FALSE
  OBVIOUS
<1>1. IsWellFoundedOn(R, FiniteSubsetsOf(Nat))
  BY FS_StrictSubsetOrderingWellFounded
<1>2. T \subseteq FiniteSubsetsOf(Nat)
  <2>1. \A n \in Nat : IsFiniteSet(1..n)
    BY FS_Interval
  <2> QED
    BY <2>1 DEF FiniteSubsetsOf
<1>3. PICK x \in T : \A y \in T : <<y, x>> \notin R
  <2> HIDE DEF T, R
  <2> QED
  BY <1>1, <1>2, WFMin
<1>4. PICK n \in Nat \ S : x = 1..n
  OBVIOUS
<1>5. n # 0 /\ n - 1 \in Nat /\ n - 1 \notin S
  OBVIOUS
<1>6. <<1..(n - 1), 1..n>> \in R
  <2>1. n \in 1..n /\ n \notin 1..(n-1) /\ 1..(n-1) \subseteq 1..n /\ 1..n \subseteq Nat
    BY <1>5
  <2> QED
    BY <2>1 DEF StrictSubsetOrdering
<1> QED
  BY <1>3, <1>4, <1>5, <1>6

\* f has the value base at 0, and at k the one that step gives from the value before.
Recursive(f, S, base, n, step) ==
    f \in [0..n -> S] /\ f[0] = base /\ \A k \in 1..n : f[k] = step[<<f[k - 1], k>>]

\* There is such a function, whatever the base and the step.
LEMMA Recursion ==
    ASSUME NEW S, NEW base \in S, NEW n \in Nat, NEW step \in [S \X (1..n) -> S]
    PROVE  \E f : Recursive(f, S, base, n, step)
<1> DEFINE Upto(m, f) == f[0] = base /\ \A k \in 1..m : f[k] = step[<<f[k - 1], k>>]
           M == {m \in Nat : m <= n => \E f \in [0..m -> S] : Upto(m, f)}
<1>1. 0 \in M
  <2>1. [k \in 0..0 |-> base] \in [0..0 -> S] /\ Upto(0, [k \in 0..0 |-> base])
    OBVIOUS
  <2> QED
    BY <2>1
<1>2. ASSUME NEW m \in Nat, m \in M PROVE m + 1 \in M
  <2> SUFFICES ASSUME m + 1 <= n PROVE \E f \in [0..(m + 1) -> S] : Upto(m + 1, f)
    OBVIOUS
  <2>1. PICK f \in [0..m -> S] : Upto(m, f)
    BY <1>2
  <2> DEFINE v == step[<<f[m], m + 1>>]
             g == [k \in 0..(m + 1) |-> IF k = m + 1 THEN v ELSE f[k]]
  <2>2. f[m] \in S /\ m + 1 \in 1..n
    BY <2>1
  <2>3. v \in S
    BY <2>2
  <2> HIDE DEF v
  <2>4. g \in [0..(m + 1) -> S]
    BY <2>1, <2>3
  <2>5. g[m + 1] = v /\ \A k \in 0..m : g[k] = f[k]
    OBVIOUS
  <2> HIDE DEF g
  <2>6. Upto(m + 1, g)
    <3>1. \A k \in 1..(m + 1) : k = m + 1 \/ k \in 1..m
      OBVIOUS
    <3>2. \A k \in 1..m : k \in 0..m /\ k - 1 \in 0..m
      OBVIOUS
    <3>3. g[m + 1] = step[<<g[m], m + 1>>]
      BY <2>5 DEF v
    <3>4. \A k \in 1..m : g[k] = step[<<g[k - 1], k>>]
      BY <2>1, <2>5, <3>2
    <3>5. (m + 1) - 1 = m /\ 0 \in 0..m
      OBVIOUS
    <3> QED
      BY <2>1, <2>5, <3>1, <3>3, <3>4, <3>5
  <2> QED
    BY <2>4, <2>6
<1>3. PICK f \in [0..n -> S] : Upto(n, f)
  <2> HIDE DEF M
  <2>1. n \in M
    BY <1>1, <1>2, SetInduction
  <2> QED
    BY <2>1 DEF M
<1> QED
  BY <1>3 DEF Recursive

\* f[k] joins the first k sequences of ss.
Flattening(f, S, ss) ==
    /\ f \in [0..Len(ss) -> Seq(S)]
    /\ f[0] = <<>> /\ \A k \in 1..Len(ss) : f[k] = f[k - 1] \o ss[k]
    /\ FlattenSeq(ss) = f[Len(ss)]

\* FlattenSeq is defined by such a function.
LEMMA Flatten ==
    ASSUME NEW S, NEW ss \in Seq(Seq(S))
    PROVE  \E f : Flattening(f, S, ss)
<1> DEFINE n == Len(ss)
           step == [x \in Seq(S) \X (1..n) |-> x[1] \o ss[x[2]]]
<1>1. n \in Nat /\ \A k \in 1..n : ss[k] \in Seq(S)
  OBVIOUS
<1>2. \A s, t \in Seq(S) : s \o t \in Seq(S)
  OBVIOUS
<1>3. step \in [Seq(S) \X (1..n) -> Seq(S)]
  BY <1>1, <1>2
<1> DEFINE base == <<>>
<1>4. base \in Seq(S)
  OBVIOUS
<1>5. \A x \in Seq(S), k \in 1..n : step[<<x, k>>] = x \o ss[k]
  OBVIOUS
<1> HIDE DEF step, n, base
<1>6. PICK f : Recursive(f, Seq(S), base, n, step)
  BY <1>1, <1>3, <1>4, Recursion
<1>7. f[0] = <<>> /\ \A k \in 1..n : f[k] = f[k - 1] \o ss[k]
  <2>1. \A k \in 1..n : k - 1 \in 0..n
    BY <1>1
  <2> QED
    BY <1>5, <1>6, <2>1 DEF base, Recursive
<1>8. CASE n = 0
  <2>1. ss = <<>> /\ FlattenSeq(ss) = ss
    BY <1>8 DEF FlattenSeq, n
  <2> QED
    BY <1>6, <1>7, <1>8, <2>1 DEF n, Recursive, Flattening
<1>9. CASE n # 0
  <2> DEFINE flatten[i \in 1..n] == IF i = 1 THEN ss[i] ELSE flatten[i - 1] \o ss[i]
             Def(g) == g = [i \in 1..n |-> IF i = 1 THEN ss[i] ELSE g[i - 1] \o ss[i]]
             h == [i \in 1..n |-> f[i]]
  <2>1. \A t \in Seq(S) : <<>> \o t = t
    OBVIOUS
  <2>2. f[1] = ss[1]
    <3>1. 1 \in 1..n /\ 1 - 1 = 0
      BY <1>1, <1>9
    <3>2. f[1] = f[0] \o ss[1]
      BY <1>7, <3>1
    <3> QED
      BY <1>1, <1>7, <2>1, <3>1, <3>2
  <2>3. Def(h)
    <3>1. \A i \in 1..n : i # 1 => i - 1 \in 1..n
      BY <1>1
    <3>2. \A i \in 1..n : h[i] = f[i]
      OBVIOUS
    <3>3. \A i \in 1..n : h[i] = IF i = 1 THEN ss[i] ELSE h[i - 1] \o ss[i]
      <4> HIDE DEF h
      <4> QED
        BY <1>7, <2>2, <3>1, <3>2
    <3> QED
      BY <3>3
  <2>4. flatten = CHOOSE g : Def(g)
    OBVIOUS
  <2>5. Def(flatten)
    <3> HIDE DEF Def, flatten, h
    <3> QED
    BY <2>3, <2>4
  <2>6. FlattenSeq(ss) = flatten[n]
    BY <1>9 DEF FlattenSeq, n
  <2> HIDE DEF flatten
  <2> DEFINE M == {m \in Nat : m \in 1..n => flatten[m] = f[m]}
  <2>7. 0 \in M
    OBVIOUS
  <2>8. ASSUME NEW m \in Nat, m \in M PROVE m + 1 \in M
    <3> SUFFICES ASSUME m + 1 \in 1..n PROVE flatten[m + 1] = f[m + 1]
      OBVIOUS
    <3>1. flatten[m + 1] = IF m + 1 = 1 THEN ss[m + 1] ELSE flatten[(m + 1) - 1] \o ss[m + 1]
      BY <2>5
    <3>2. CASE m = 0
      BY <2>2, <3>1, <3>2
    <3>3. CASE m # 0
      <4>1. m \in 1..n /\ (m + 1) - 1 = m
        BY <1>1, <3>3
      <4>2. flatten[m] = f[m]
        BY <2>8, <4>1
      <4>3. f[m + 1] = f[(m + 1) - 1] \o ss[m + 1]
        BY <1>7
      <4>4. m + 1 # 1
        BY <3>3
      <4> QED
        BY <3>1, <4>1, <4>2, <4>3, <4>4
    <3> QED
      BY <3>2, <3>3
  <2>9. flatten[n] = f[n]
    <3> HIDE DEF M
    <3>1. n \in M
      BY <1>1, <2>7, <2>8, SetInduction
    <3> QED
      BY <1>1, <1>9, <3>1 DEF M
  <2> QED
    BY <1>6, <1>7, <2>6, <2>9 DEF n, Recursive, Flattening
<1> QED
  BY <1>8, <1>9

\* What FlattenSeq returns for two sequences one after the other, ...
LEMMA FlattenJoins ==
    ASSUME NEW S, NEW ss \in Seq(Seq(S)), NEW tt \in Seq(Seq(S))
    PROVE  /\ FlattenSeq(ss) \in Seq(S) /\ FlattenSeq(tt) \in Seq(S)
           /\ FlattenSeq(ss \o tt) = FlattenSeq(ss) \o FlattenSeq(tt)
<1> DEFINE m == Len(ss)
           n == Len(tt)
           uu == ss \o tt
<1>1. /\ m \in Nat /\ n \in Nat /\ uu \in Seq(Seq(S)) /\ Len(uu) = m + n
      /\ \A i \in 1..m : uu[i] = ss[i] /\ ss[i] \in Seq(S)
      /\ \A i \in 1..n : uu[m + i] = tt[i] /\ tt[i] \in Seq(S)
  <2> DEFINE T == Seq(S)
  <2>1. ss \in Seq(T) /\ tt \in Seq(T)
    OBVIOUS
  <2> HIDE DEF T
  <2>2. /\ uu \in Seq(T)
        /\ Len(ss) \in Nat /\ Len(tt) \in Nat /\ Len(uu) = Len(ss) + Len(tt)
        /\ \A i \in 1..Len(ss) : ss[i] \in T /\ uu[i] = ss[i]
        /\ \A i \in 1..Len(tt) : tt[i] \in T /\ uu[Len(ss) + i] = tt[i]
    BY <2>1
  <2> QED
    BY <2>2 DEF T
<1> HIDE DEF m, n, uu
<1>2. PICK f : Flattening(f, S, ss)
  BY Flatten
<1>3. PICK g : Flattening(g, S, tt)
  BY Flatten
<1>4. PICK h : Flattening(h, S, uu)
  BY <1>1, Flatten
<1>5. /\ f \in [0..m -> Seq(S)] /\ f[0] = <<>> /\ \A k \in 1..m : f[k] = f[k - 1] \o ss[k]
      /\ FlattenSeq(ss) = f[m]
  BY <1>2 DEF Flattening, m
<1>6. /\ g \in [0..n -> Seq(S)] /\ g[0] = <<>> /\ \A k \in 1..n : g[k] = g[k - 1] \o tt[k]
      /\ FlattenSeq(tt) = g[n]
  BY <1>3 DEF Flattening, n
<1>7. /\ h[0] = <<>> /\ \A k \in 1..(m + n) : h[k] = h[k - 1] \o uu[k]
      /\ FlattenSeq(uu) = h[m + n]
  BY <1>1, <1>4 DEF Flattening
<1>8. h[m] = f[m]
  <2> DEFINE A == {k \in Nat : k <= m => h[k] = f[k]}
  <2>1. 0 \in A
    BY <1>5, <1>7
  <2>2. ASSUME NEW k \in Nat, k \in A PROVE k + 1 \in A
    <3> SUFFICES ASSUME k + 1 <= m PROVE h[k + 1] = f[k + 1]
      OBVIOUS
    <3>1. k + 1 \in 1..m /\ k + 1 \in 1..(m + n) /\ (k + 1) - 1 = k /\ k <= m
      BY <1>1
    <3> QED
      BY <1>1, <1>5, <1>7, <2>2, <3>1
  <2> HIDE DEF A
  <2>3. m \in A
    BY <1>1, <2>1, <2>2, SetInduction
  <2> QED
    BY <1>1, <2>3 DEF A
<1>9. \A r, s, t \in Seq(S) : (r \o s) \o t = r \o (s \o t) /\ r \o <<>> = r
  OBVIOUS
<1>10. h[m + n] = f[m] \o g[n]
  <2> DEFINE Same(k) == h[m + k] = f[m] \o g[k]
             A == {k \in Nat : k <= n => Same(k)}
  <2>1. 0 \in A
    <3>1. m + 0 = m /\ f[m] \in Seq(S) /\ g[0] = <<>>
      BY <1>1, <1>5, <1>6
    <3>2. f[m] \o g[0] = f[m]
      BY <1>9, <3>1
    <3> QED
      BY <1>8, <3>1, <3>2
  <2>2. ASSUME NEW k \in Nat, k \in A PROVE k + 1 \in A
    <3> SUFFICES ASSUME k + 1 <= n PROVE Same(k + 1)
      <4> HIDE DEF Same
      <4> QED
        OBVIOUS
    <3>1. /\ k + 1 \in 1..n /\ m + (k + 1) \in 1..(m + n) /\ (k + 1) - 1 = k
          /\ (m + (k + 1)) - 1 = m + k /\ k <= n /\ k \in 0..n /\ m \in 0..m
      BY <1>1
    <3>2. h[m + (k + 1)] = h[m + k] \o tt[k + 1]
      BY <1>1, <1>7, <3>1
    <3>3. h[m + k] = f[m] \o g[k] /\ g[k + 1] = g[k] \o tt[k + 1]
      BY <1>6, <2>2, <3>1
    <3>4. f[m] \in Seq(S) /\ g[k] \in Seq(S) /\ tt[k + 1] \in Seq(S)
      BY <1>1, <1>5, <1>6, <3>1
    <3>5. (f[m] \o g[k]) \o tt[k + 1] = f[m] \o (g[k] \o tt[k + 1])
      BY <1>9, <3>4
    <3> QED
      BY <3>2, <3>3, <3>5
  <2> HIDE DEF A
  <2>3. n \in A
    BY <1>1, <2>1, <2>2, SetInduction
  <2>4. Same(n)
    <3> HIDE DEF Same
    <3> QED
      BY <1>1, <2>3 DEF A
  <2> QED
    BY <2>4
<1> QED
  BY <1>1, <1>5, <1>6, <1>7, <1>10 DEF uu

\* ... for one, and for none, ...
LEMMA FlattenNone == FlattenSeq(<<>>) = <<>>
  BY DEF FlattenSeq

LEMMA FlattenOne ==
    ASSUME NEW S, NEW t \in Seq(S)
    PROVE  FlattenSeq(<<t>>) = t
<1> DEFINE ss == <<t>>
           T == Seq(S)
<1>2. ss \in Seq(T) /\ Len(ss) = 1 /\ ss[1] = t /\ <<>> \o t = t
  <2>1. t \in T
    OBVIOUS
  <2> HIDE DEF T
  <2> QED
    BY <2>1
<1> HIDE DEF ss
<1>3. PICK f : Flattening(f, S, ss)
  BY <1>2, Flatten
<1>4. f[0] = <<>> /\ f[1] = f[1 - 1] \o ss[1] /\ FlattenSeq(ss) = f[1]
  BY <1>2, <1>3 DEF Flattening
<1> QED
  BY <1>2, <1>4 DEF ss

\* ... and for empty ones.
LEMMA FlattenEmpty ==
    ASSUME NEW S, NEW ss \in Seq(Seq(S)), \A k \in 1..Len(ss) : ss[k] = <<>>
    PROVE  FlattenSeq(ss) = <<>>
<1>1. PICK f : Flattening(f, S, ss)
  BY Flatten
<1> DEFINE n == Len(ss)
<1>2. n \in Nat /\ f[0] = <<>> /\ (\A k \in 1..n : f[k] = f[k - 1] \o ss[k]) /\ FlattenSeq(ss) = f[n]
  BY <1>1 DEF Flattening
<1> HIDE DEF n
<1> DEFINE A == {k \in Nat : k <= n => f[k] = <<>>}
<1>3. <<>> \o <<>> = <<>>
  OBVIOUS
<1>4. 0 \in A
  BY <1>2
<1>5. ASSUME NEW k \in Nat, k \in A PROVE k + 1 \in A
  <2> SUFFICES ASSUME k + 1 <= n PROVE f[k + 1] = <<>>
    OBVIOUS
  <2>1. k + 1 \in 1..n /\ (k + 1) - 1 = k /\ k <= n
    BY <1>2
  <2>2. f[k + 1] = f[k] \o ss[k + 1] /\ f[k] = <<>>
    BY <1>2, <1>5, <2>1
  <2>3. ss[k + 1] = <<>>
    BY <2>1 DEF n
  <2> QED
    BY <1>3, <2>2, <2>3
<1> HIDE DEF A
<1>6. n \in A
  BY <1>2, <1>4, <1>5, SetInduction
<1> QED
  BY <1>2, <1>6 DEF A

-----------------------------------------------------------------------------
(* Cues and the audio of their scene.                                      *)

LEMMA StartSums ==
    ASSUME TypeOK
    PROVE  /\ Start(1) = 0 /\ \A s \in 1..(Len(audio) + 1) : Start(s) \in Nat
           /\ \A s \in 1..Len(audio) : Start(s + 1) = Start(s) + audio[s].length
<1> DEFINE n == Len(audio)
           step == [x \in Nat \X (1..n) |-> x[1] + audio[x[2]].length]
           Def(g) == g = [r \in 0..n |-> IF r = 0 THEN 0 ELSE g[r - 1] + audio[r].length]
           end[r \in 0..n] == IF r = 0 THEN 0 ELSE end[r - 1] + audio[r].length
<1>1. n \in Nat /\ \A r \in 1..n : audio[r].length \in Nat
  <2>1. audio \in Seq(Audio)
    BY DEF TypeOK
  <2>2. n \in Nat /\ \A r \in 1..n : audio[r] \in Audio
    BY <2>1
  <2> QED
    BY <2>2 DEF Audio
<1>2. step \in [Nat \X (1..n) -> Nat] /\ \A v \in Nat, r \in 1..n : step[<<v, r>>] = v + audio[r].length
  BY <1>1
<1>3. \A s : Start(s) = end[s - 1]
  BY DEF Start
<1> HIDE DEF step, n
<1>4. PICK f : Recursive(f, Nat, 0, n, step)
  BY <1>1, <1>2, Recursion
<1>5. f \in [0..n -> Nat] /\ f[0] = 0 /\ \A r \in 1..n : f[r] = f[r - 1] + audio[r].length
  <2>1. \A r \in 1..n : r - 1 \in 0..n
    BY <1>1
  <2> QED
    BY <1>2, <1>4, <2>1 DEF Recursive
<1>6. Def(f)
  BY <1>1, <1>5
<1>7. end = CHOOSE g : Def(g)
  OBVIOUS
<1>8. Def(end)
  <2> HIDE DEF Def, end
  <2> QED
    BY <1>6, <1>7
<1> HIDE DEF end
<1>9. end[0] = 0 /\ \A r \in 1..n : end[r] = end[r - 1] + audio[r].length
  BY <1>1, <1>8
<1> DEFINE A == {r \in Nat : r <= n => end[r] \in Nat}
<1>10. \A r \in 0..n : end[r] \in Nat
  <2>1. 0 \in A
    BY <1>9
  <2>2. ASSUME NEW r \in Nat, r \in A PROVE r + 1 \in A
    BY <1>1, <1>9, <2>2
  <2> HIDE DEF A
  <2>3. Nat \subseteq A
    BY <2>1, <2>2, SetInduction
  <2> QED
    BY <1>1, <2>3 DEF A
<1>11. ASSUME NEW s \in 1..n PROVE Start(s + 1) = Start(s) + audio[s].length
  <2>1. (s + 1) - 1 = s
    OBVIOUS
  <2> QED
    BY <1>3, <1>9, <2>1
<1>12. \A s \in 1..(n + 1) : s - 1 \in 0..n
  BY <1>1
<1>13. Start(1) = 0
  <2>1. 1 - 1 = 0
    OBVIOUS
  <2> QED
    BY <1>3, <1>9, <2>1
<1> QED
  BY <1>3, <1>10, <1>11, <1>12, <1>13 DEF n

\* The time is never ahead of the audio and, up to the first scene that does not
\* parse, that of the audio.
OnTime ==
    /\ pc = "synthesize" => cues = <<>> /\ scene = 1 /\ time = 0
    /\ pc # "synthesize" => time <= Start(scene)
    /\ pc # "synthesize" /\ (\A r \in 1..(scene - 1) : Parses(r)) => time = Start(scene)

\* The cues of a scene stay after its start and, if it is timed by its marks,
\* before its end.
LEMMA TimedAppended ==
    ASSUME TypeOK, OnTime, CuesWithTheirAudio, NEW new \in Seq(Cue),
           UNCHANGED audio, scene \in 1..Len(audio), cues' = cues \o new,
           scene' = scene + 1, time' = time + audio[scene].length,
           pc # "synthesize", pc' # "synthesize",
           \A i \in 1..Len(new) :
               /\ new[i].scene = scene /\ time <= new[i].from
               /\ Timed(scene) => new[i].to <= time'
    PROVE  OnTime' /\ CuesWithTheirAudio'
<1> DEFINE n == Len(cues)
<1>1. \A s : Start(s)' = Start(s) /\ Parses(s)' = Parses(s) /\ Timed(s)' = Timed(s)
  BY DEF Start, Parses, Timed
<1>7. /\ time <= Start(scene) /\ Start(scene + 1) = Start(scene) + audio[scene].length
      /\ time \in Nat /\ Start(scene) \in Nat /\ audio[scene].length \in Nat
      /\ time' <= Start(scene + 1)
  <2>1. audio[scene] \in Audio /\ time \in Nat /\ Len(audio) \in Nat
    BY DEF TypeOK
  <2>2. audio[scene].length \in Nat /\ scene \in 1..(Len(audio) + 1)
    BY <2>1 DEF Audio
  <2> QED
    BY <2>1, <2>2, StartSums DEF OnTime
<1>2. (\A r \in 1..(scene - 1) : Parses(r)) => time = Start(scene) /\ time' = Start(scene + 1)
  BY <1>7 DEF OnTime
<1>3. OnTime'
  <2>1. scene' - 1 = scene /\ \A r \in 1..(scene - 1) : r \in 1..scene
    OBVIOUS
  <2> QED
    BY <1>1, <1>2, <1>7, <2>1 DEF OnTime
<1>4. /\ n \in Nat /\ Len(new) \in Nat /\ Len(cues') = n + Len(new)
      /\ \A i \in 1..n : cues'[i] = cues[i]
      /\ \A i \in (n + 1)..Len(cues') : cues'[i] = new[i - n] /\ i - n \in 1..Len(new)
  <2>1. cues \in Seq(Cue)
    BY DEF TypeOK
  <2> QED
    BY <2>1, ConcatFacts
<1> HIDE DEF n
<1>5. ASSUME NEW i \in 1..Len(cues')
      PROVE  LET s == cues'[i].scene IN
             /\ Timed(s) => cues'[i].to <= Start(s) + audio[s].length
             /\ (\A r \in 1..(s - 1) : Parses(r)) => Start(s) <= cues'[i].from
  <2>1. CASE i \in 1..n
    <3>1. cues'[i] = cues[i]
      BY <1>4, <2>1
    <3> QED
      BY <2>1, <3>1 DEF CuesWithTheirAudio, n
  <2>2. CASE i \in (n + 1)..Len(cues')
    <3>1. /\ cues'[i].scene = scene /\ time <= cues'[i].from
          /\ (Timed(scene) => cues'[i].to <= time')
      BY <1>4, <2>2
    <3>2. (\A r \in 1..(scene - 1) : Parses(r)) => Start(scene) <= cues'[i].from
      BY <1>2, <3>1
    <3>3. Timed(scene) => cues'[i].to <= Start(scene) + audio[scene].length
      <4>1. i - n \in 1..Len(new) /\ cues'[i] = new[i - n] /\ new[i - n] \in Cue
        BY <1>4, <2>2
      <4>2. cues'[i].to \in Nat
        BY <4>1 DEF Cue
      <4>3. QED
        BY <1>7, <3>1, <4>2
    <3> QED
      BY <3>1, <3>2, <3>3
  <2> QED
    BY <1>4, <2>1, <2>2
<1> QED
  BY <1>1, <1>3, <1>5 DEF CuesWithTheirAudio

LEMMA TimedStep ==
    ASSUME TypeOK, TypeOK', Order, OnTime, CuesWithTheirAudio, [Next]_vars
    PROVE  OnTime' /\ CuesWithTheirAudio'
<1>1. CASE Synthesize
  BY <1>1 DEF Synthesize, OnTime, CuesWithTheirAudio
<1>2. CASE UNCHANGED <<audio, cues, scene, time>> /\ (pc' = "synthesize" <=> pc = "synthesize")
  <2>1. \A s : Start(s)' = Start(s) /\ Parses(s)' = Parses(s) /\ Timed(s)' = Timed(s)
    BY <1>2 DEF Start, Parses, Timed
  <2> QED
    BY <1>2, <2>1 DEF OnTime, CuesWithTheirAudio
<1>6. CASE StartSubtitles
  <2>1. Start(1)' = Start(1) /\ \A s : Start(s)' = Start(s) /\ Parses(s)' = Parses(s)
    BY <1>6 DEF StartSubtitles, Start, Parses
  <2>2. cues' = <<>> /\ scene' = 1 /\ time' = 0 /\ pc' # "synthesize"
    BY <1>6 DEF StartSubtitles, OnTime
  <2>3. Start(1) = 0
    BY StartSums
  <2> QED
    BY <2>1, <2>2, <2>3 DEF OnTime, CuesWithTheirAudio
<1>3. CASE SkipScene
  <2>1. \A s : Start(s)' = Start(s) /\ Parses(s)' = Parses(s) /\ Timed(s)' = Timed(s)
    BY <1>3 DEF SkipScene, Start, Parses, Timed
  <2>2. /\ ~Parses(scene) /\ scene \in 1..(scene' - 1) /\ UNCHANGED <<audio, cues, time>>
        /\ pc' # "synthesize" /\ scene' = scene + 1
    BY <1>3 DEF SkipScene, NextScene, Parses, TypeOK
  <2>3. time <= Start(scene + 1)
    <3>1. scene \in 1..Len(audio) /\ audio[scene] \in Audio /\ time \in Nat /\ Len(audio) \in Nat
      BY <1>3 DEF SkipScene, TypeOK
    <3>2. audio[scene].length \in Nat /\ scene \in 1..(Len(audio) + 1) /\ time <= Start(scene)
      BY <1>3, <3>1 DEF SkipScene, OnTime, Audio
    <3> QED
      BY <3>1, <3>2, StartSums
  <2> QED
    BY <2>1, <2>2, <2>3 DEF OnTime, CuesWithTheirAudio
<1>4. CASE WholeScene
  <2> DEFINE c == [scene |-> scene, from |-> time, to |-> time + audio[scene].length, text |-> <<>>]
             new == <<c>>
  <2>1. scene \in 1..Len(audio) /\ audio[scene] \in Audio /\ time \in Nat
    BY <1>4 DEF WholeScene, Filtered, TypeOK
  <2>2. c \in Cue /\ time' = time + audio[scene].length
    BY <1>4, <2>1 DEF WholeScene, Advance, Cue, Audio
  <2>3. /\ new \in Seq(Cue) /\ cues' = cues \o new /\ \A i \in 1..Len(new) : new[i] = c
    <3>1. cues \in Seq(Cue)
      BY DEF TypeOK
    <3> QED
      BY <1>4, <2>2, <3>1 DEF WholeScene
  <2>4. c.scene = scene /\ time <= c.from /\ c.to <= time'
    BY <2>1, <2>2 DEF Audio
  <2> HIDE DEF c, new
  <2>5. \A i \in 1..Len(new) :
           /\ new[i].scene = scene /\ time <= new[i].from
           /\ Timed(scene) => new[i].to <= time'
    BY <2>3, <2>4
  <2>6. UNCHANGED audio /\ scene' = scene + 1 /\ pc # "synthesize" /\ pc' # "synthesize"
    BY <1>4 DEF WholeScene, Filtered, NextScene
  <2> QED
    BY <2>1, <2>2, <2>3, <2>5, <2>6, TimedAppended
<1>5. CASE WriteCues
  <2>1. scene \in 1..Len(audio) /\ audio[scene].length \in Nat /\ time \in Nat
    <3>1. scene \in 1..Len(audio) /\ audio[scene] \in Audio /\ time \in Nat
      BY <1>5 DEF WriteCues, TypeOK
    <3> QED
      BY <3>1 DEF Audio
  <2>2. /\ cues' = cues \o NewCues /\ NewCues \in Seq(Cue) /\ Len(NewCues) = Len(chunks)
        /\ UNCHANGED audio /\ scene' = scene + 1 /\ time' = time + audio[scene].length
        /\ pc # "synthesize" /\ pc' # "synthesize"
    BY <1>5, NewCuesType DEF WriteCues, Advance, NextScene, NewCues
  <2>3. ASSUME NEW i \in 1..Len(NewCues)
        PROVE  /\ NewCues[i].scene = scene /\ time <= NewCues[i].from
               /\ Timed(scene) => NewCues[i].to <= time'
    <3> DEFINE first == chunks[i][1].time
               last == LastTime(chunks[i])
               length == audio[scene].length
               reach == Reach(scene)
    <3>1. chunks[i] \in Seq(Mark) \ {<<>>}
      BY <2>2, <2>3 DEF TypeOK
    <3>2. 1 \in 1..Len(chunks[i]) /\ Len(chunks[i]) \in 1..Len(chunks[i])
      BY <3>1
    <3>3. chunks[i][1] \in Mark /\ chunks[i][Len(chunks[i])] \in Mark
      BY <3>1, <3>2
    <3>4. first \in Nat /\ last \in Nat
      BY <3>3 DEF LastTime, Mark
    <3>5. Within(chunks[i], reach)
      BY <1>5, <2>2 DEF WriteCues, Order, ChunksCovered
    <3>6. last + 5 <= reach
      BY <3>2, <3>5 DEF Within, LastTime
    <3>7. NewCues[i].scene = scene /\ NewCues[i].from = time + first /\ NewCues[i].to = time + last + 4
      BY <2>2 DEF NewCues, WordCue, LastTime
    <3>9. reach \in Nat /\ (Timed(scene) => reach <= length)
      BY <2>1 DEF Order, AudioCovered
    <3> HIDE DEF first, last, length, reach
    <3>8. time <= time + first /\ (Timed(scene) => time + last + 4 <= time + length)
      BY <2>1, <3>4, <3>6, <3>9 DEF length
    <3> QED
      BY <2>2, <3>7, <3>8 DEF length
  <2> QED
    BY <2>1, <2>2, <2>3, TimedAppended
<1>7. CASE UNCHANGED vars
  BY <1>2, <1>7 DEF vars
<1>8. CASE StartFilter \/ Filter \/ StartGrouping \/ GroupWord \/ EndGrouping
  BY <1>2, <1>8 DEF Filtered, StartFilter, Filter, StartGrouping, GroupWord, EndGrouping
<1> QED
  BY <1>1, <1>3, <1>4, <1>5, <1>6, <1>7, <1>8 DEF Next

\* A cue of generateSRTWithSpeechMarks, for any marks and lengths, does not come
\* before its scene unless the marks of a scene before it did not parse, and does
\* not outlast its scene if that is timed by the marks in its file.
THEOREM CuesKeepTime == Spec => []CuesWithTheirAudio
<1>1. Init => OnTime /\ CuesWithTheirAudio
  BY DEF Init, OnTime, CuesWithTheirAudio
<1>2. TypeOK /\ TypeOK' /\ Order /\ OnTime /\ CuesWithTheirAudio /\ [Next]_vars
      => OnTime' /\ CuesWithTheirAudio'
  BY TimedStep
<1> QED
  BY <1>1, <1>2, TypeCorrect, Ordered, PTL DEF Spec

-----------------------------------------------------------------------------
(* The words of a scene and its cues.                                      *)

First(s, n) == [i \in 1..n |-> s[i]]

LEMMA FunctionsAreSequences ==
    \A S : \A n \in Nat : \A f \in [1..n -> S] : f \in Seq(S) /\ Len(f) = n
OBVIOUS

LEMMA FirstGrows ==
    ASSUME NEW S, NEW s \in Seq(S), NEW n \in Nat, n < Len(s)
    PROVE  First(s, n) \in Seq(S) /\ First(s, n + 1) = Append(First(s, n), s[n + 1])
<1>1. First(s, n) \in Seq(S) /\ Len(First(s, n)) = n /\ First(s, n + 1) \in Seq(S)
      /\ Len(First(s, n + 1)) = n + 1
  BY FunctionsAreSequences DEF First
<1>2. \A i \in 1..n : First(s, n + 1)[i] = First(s, n)[i]
  BY DEF First
<1>3. First(s, n + 1)[n + 1] = s[n + 1]
  BY DEF First
<1> QED
  BY <1>1, <1>2, <1>3

\* One more mark.
LEMMA SpokenGrows ==
    ASSUME NEW marks \in Seq(Mark), NEW n \in Nat, n < Len(marks)
    PROVE  /\ Spoken(marks, n) \in Seq(Mark)
           /\ Spoken(marks, n + 1) =
                IF IsWord(marks[n + 1]) THEN Append(Spoken(marks, n), marks[n + 1])
                ELSE Spoken(marks, n)
<1> DEFINE piece(i) == IF IsWord(marks[i]) THEN <<marks[i]>> ELSE <<>>
           ss == [i \in 1..n |-> piece(i)]
           uu == [i \in 1..(n + 1) |-> piece(i)]
           p == piece(n + 1)
           T == Seq(Mark)
<1>1. \A i \in 1..(n + 1) : piece(i) \in T
  <2>1. \A i \in 1..(n + 1) : marks[i] \in Mark
    OBVIOUS
  <2> QED
    BY <2>1
<1>2. n + 1 \in 1..(n + 1) /\ \A i \in 1..n : i \in 1..(n + 1)
  OBVIOUS
<1>3. Spoken(marks, n) = FlattenSeq(ss) /\ Spoken(marks, n + 1) = FlattenSeq(uu)
  BY DEF Spoken
<1>4. ss \in Seq(T) /\ <<p>> \in Seq(T) /\ uu = ss \o <<p>>
  <2> HIDE DEF T, piece
  <2>1. ss \in Seq(T) /\ Len(ss) = n /\ uu \in Seq(T) /\ Len(uu) = n + 1
    BY <1>1, <1>2, FunctionsAreSequences
  <2>2. (\A i \in 1..n : uu[i] = ss[i]) /\ uu[n + 1] = p /\ p \in T
    BY <1>1, <1>2
  <2> HIDE DEF ss, uu, p
  <2> QED
    BY <2>1, <2>2
<1>5. FlattenSeq(ss) \in T /\ FlattenSeq(uu) = FlattenSeq(ss) \o FlattenSeq(<<p>>)
  <2> HIDE DEF ss, uu, p
  <2> QED
    BY <1>4, FlattenJoins
<1>6. p \in T
  BY <1>1, <1>2
<1>7. FlattenSeq(<<p>>) = p
  <2> HIDE DEF p
  <2> QED
    BY <1>6, FlattenOne
<1>8. FlattenSeq(ss) \o p = IF IsWord(marks[n + 1]) THEN Append(FlattenSeq(ss), marks[n + 1])
                            ELSE FlattenSeq(ss)
  <2>1. marks[n + 1] \in Mark
    OBVIOUS
  <2>2. \A s \in Seq(Mark) : \A m \in Mark : s \o <<m>> = Append(s, m) /\ s \o <<>> = s
    OBVIOUS
  <2> HIDE DEF ss
  <2> QED
    BY <1>5, <2>1, <2>2
<1> QED
  BY <1>3, <1>5, <1>7, <1>8

\* The words found, and those grouped: between the two loops nothing is lost.
WordsKept ==
    /\ pc = "synthesize" => scene = 1
    /\ pc \in {"filter", "group", "write"} => audio[scene].file = "whole"
    /\ pc = "filter" =>
         /\ word - 1 <= Len(audio[scene].marks)
         /\ words = Spoken(audio[scene].marks, word - 1)
    /\ pc \in {"group", "write"} =>
         words # <<>> /\ words = Spoken(audio[scene].marks, Len(audio[scene].marks))
    /\ pc = "group" =>
         word - 1 <= Len(words) /\ First(words, word - 1) = FlattenSeq(chunks) \o chunk
    /\ pc = "write" => words = FlattenSeq(chunks)

LEMMA ChunksAreSequences ==
    ASSUME TypeOK
    PROVE  /\ chunks \in Seq(Seq(Mark)) /\ chunk \in Seq(Mark) /\ FlattenSeq(chunks) \in Seq(Mark)
           /\ \A c \in Seq(Mark) : FlattenSeq(Append(chunks, c)) = FlattenSeq(chunks) \o c
<1>1. chunks \in Seq(Seq(Mark)) /\ chunk \in Seq(Mark)
  BY DEF TypeOK
<1> DEFINE T == Seq(Mark)
<1>2. ASSUME NEW c \in Seq(Mark)
      PROVE  /\ FlattenSeq(chunks) \in Seq(Mark)
             /\ FlattenSeq(Append(chunks, c)) = FlattenSeq(chunks) \o c
  <2>1. <<c>> \in Seq(T) /\ Append(chunks, c) = chunks \o <<c>>
    <3>1. chunks \in Seq(T) /\ c \in T
      BY <1>1, <1>2
    <3> HIDE DEF T
    <3> QED
      BY <3>1
  <2>2. FlattenSeq(chunks) \in Seq(Mark) /\ FlattenSeq(chunks \o <<c>>) = FlattenSeq(chunks) \o FlattenSeq(<<c>>)
    BY <1>1, <2>1, FlattenJoins
  <2>3. FlattenSeq(<<c>>) = c
    BY <1>2, FlattenOne
  <2> QED
    BY <2>1, <2>2, <2>3
<1> QED
  BY <1>1, <1>2

LEMMA WordsKeptStep ==
    ASSUME TypeOK, WordsKept, [Next]_vars
    PROVE  WordsKept'
<1> DEFINE marks == audio[scene].marks
<1>1. CASE Synthesize \/ StartSubtitles \/ WholeScene \/ SkipScene \/ WriteCues
  BY <1>1 DEF Synthesize, StartSubtitles, WholeScene, SkipScene, WriteCues, WordsKept
<1>2. CASE UNCHANGED vars
  <2>1. UNCHANGED <<pc, audio, scene, words, word, chunk, chunks>>
    BY <1>2 DEF vars
  <2> QED
    BY <2>1 DEF WordsKept, Spoken, First
<1>3. CASE StartFilter
  <2>1. pc' = "filter" /\ words' = <<>> /\ word' = 1 /\ UNCHANGED <<audio, scene>>
        /\ audio[scene].file = "whole" /\ scene \in 1..Len(audio) /\ audio[scene] \in Audio
    BY <1>3 DEF StartFilter, TypeOK
  <2>2. marks \in Seq(Mark) /\ Len(marks) \in Nat
    <3>1. marks \in Seq(Mark)
      BY <2>1 DEF Audio
    <3> HIDE DEF marks
    <3> QED
      BY <3>1
  <2>3. Spoken(marks, 0) = <<>>
    <3>1. [i \in 1..0 |-> IF IsWord(marks[i]) THEN <<marks[i]>> ELSE <<>>] = <<>>
      OBVIOUS
    <3> QED
      BY <3>1, FlattenNone DEF Spoken
  <2>4. Spoken(audio[scene].marks, word - 1)' = Spoken(marks, 0)
    BY <2>1 DEF Spoken
  <2> QED
    BY <2>1, <2>2, <2>3, <2>4 DEF WordsKept
<1>4. CASE Filter
  <2>1. /\ pc = "filter" /\ pc' = "filter" /\ UNCHANGED <<audio, scene>> /\ word' = word + 1
        /\ word <= Len(marks) /\ word \in Nat /\ word >= 1
        /\ words' = IF IsWord(marks[word]) THEN Append(words, marks[word]) ELSE words
        /\ scene \in 1..Len(audio) /\ audio[scene] \in Audio
    BY <1>4 DEF Filter, TypeOK
  <2>2. marks \in Seq(Mark)
    BY <2>1 DEF Audio
  <2>3. words = Spoken(marks, word - 1) /\ audio[scene].file = "whole"
    BY <2>1 DEF WordsKept
  <2> HIDE DEF marks
  <2>4. word - 1 \in Nat /\ word - 1 < Len(marks) /\ (word - 1) + 1 = word /\ word' - 1 = word
        /\ Len(marks) \in Nat
    BY <2>1, <2>2
  <2>5. words' = Spoken(marks, word)
    BY <2>1, <2>2, <2>3, <2>4, SpokenGrows
  <2>6. marks' = marks
    BY <2>1 DEF marks
  <2>7. words' = Spoken(marks', word' - 1) /\ word' - 1 <= Len(marks')
    BY <2>1, <2>4, <2>5, <2>6
  <2>8. words' = Spoken(audio'[scene'].marks, word' - 1) /\ word' - 1 <= Len(audio'[scene'].marks)
    BY <2>7 DEF marks
  <2> QED
    BY <2>1, <2>3, <2>8 DEF WordsKept, Spoken
<1>5. CASE StartGrouping
  <2>1. /\ pc = "filter" /\ pc' = "group" /\ UNCHANGED <<audio, scene, words>> /\ word' = 1
        /\ word > Len(marks) /\ words # <<>> /\ chunk' = <<>> /\ chunks' = <<>> /\ word \in Nat
        /\ scene \in 1..Len(audio) /\ audio[scene] \in Audio
    BY <1>5 DEF StartGrouping, Filtered, TypeOK
  <2>2. marks \in Seq(Mark)
    BY <2>1 DEF Audio
  <2>3. words = Spoken(marks, word - 1) /\ audio[scene].file = "whole" /\ word - 1 <= Len(marks)
    BY <2>1 DEF WordsKept
  <2>4. words = Spoken(marks, Len(marks))
    <3>1. Len(marks) \in Nat
      <4> HIDE DEF marks
      <4> QED
        BY <2>2
    <3>2. word - 1 = Len(marks)
      BY <2>1, <2>3, <3>1
    <3> QED
      BY <2>3, <3>2
  <2>5. Len(words) \in Nat
    BY DEF TypeOK
  <2>6. First(words, 0) = <<>> /\ FlattenSeq(<<>>) \o <<>> = <<>>
    <3>1. [i \in 1..0 |-> words[i]] = <<>> /\ <<>> \o <<>> = <<>>
      OBVIOUS
    <3> QED
      BY <3>1, FlattenNone DEF First
  <2>7. First(words', word' - 1) = FlattenSeq(chunks') \o chunk' /\ word' - 1 <= Len(words')
    BY <2>1, <2>5, <2>6
  <2>8. words' = Spoken(audio'[scene'].marks, Len(audio'[scene'].marks))
    BY <2>1, <2>4
  <2> QED
    BY <2>1, <2>3, <2>7, <2>8 DEF WordsKept, Spoken, First
<1>6. CASE GroupWord
  <2> DEFINE c == Append(chunk, words[word])
  <2>1. /\ pc = "group" /\ pc' = "group" /\ UNCHANGED <<audio, scene, words>> /\ word' = word + 1
        /\ word <= Len(words) /\ words \in Seq(Mark) /\ word \in Nat /\ word >= 1
        /\ chunk' = (IF ShouldEnd(c) THEN <<>> ELSE c)
        /\ chunks' = (IF ShouldEnd(c) THEN Append(chunks, c) ELSE chunks)
    BY <1>6 DEF GroupWord, TypeOK
  <2>2. words # <<>> /\ words = Spoken(marks, Len(marks)) /\ audio[scene].file = "whole"
        /\ First(words, word - 1) = FlattenSeq(chunks) \o chunk
    BY <2>1 DEF WordsKept
  <2>3. words[word] \in Mark
    BY <2>1
  <2>4. First(words, word) = Append(FlattenSeq(chunks) \o chunk, words[word])
    <3>1. word - 1 \in Nat /\ word - 1 < Len(words) /\ (word - 1) + 1 = word
      BY <2>1
    <3> QED
      BY <2>1, <2>2, <3>1, FirstGrows
  <2>5. Append(FlattenSeq(chunks) \o chunk, words[word]) = FlattenSeq(chunks) \o c
    <3>1. \A s, t \in Seq(Mark) : \A m \in Mark : Append(s \o t, m) = s \o Append(t, m)
      OBVIOUS
    <3> QED
      BY <2>3, <3>1, ChunksAreSequences
  <2>6. c \in Seq(Mark)
    BY <2>3, ChunksAreSequences, AppendFacts
  <2> HIDE DEF c
  <2>7. FlattenSeq(chunks') \o chunk' = FlattenSeq(chunks) \o c
    <3>1. FlattenSeq(Append(chunks, c)) = FlattenSeq(chunks) \o c /\ FlattenSeq(chunks) \o c \in Seq(Mark)
      BY <2>6, ChunksAreSequences
    <3>2. \A s \in Seq(Mark) : s \o <<>> = s
      OBVIOUS
    <3> QED
      BY <2>1, <3>1, <3>2
  <2>8. First(words', word' - 1) = FlattenSeq(chunks') \o chunk' /\ word' - 1 <= Len(words')
    <3>1. word' - 1 = word /\ words' = words
      BY <2>1
    <3> QED
      BY <2>1, <2>4, <2>5, <2>7, <3>1
  <2>9. words' = Spoken(audio'[scene'].marks, Len(audio'[scene'].marks))
    BY <2>1, <2>2
  <2> QED
    BY <2>1, <2>2, <2>8, <2>9 DEF WordsKept, Spoken, First
<1>7. CASE EndGrouping
  <2>1. /\ pc = "group" /\ pc' = "write" /\ UNCHANGED <<audio, scene, words>>
        /\ word > Len(words) /\ words \in Seq(Mark) /\ word \in Nat /\ chunks' = chunks \o Remaining
    BY <1>7 DEF EndGrouping, TypeOK
  <2>2. words # <<>> /\ words = Spoken(marks, Len(marks)) /\ audio[scene].file = "whole"
        /\ First(words, word - 1) = FlattenSeq(chunks) \o chunk /\ word - 1 <= Len(words)
    BY <2>1 DEF WordsKept
  <2>3. First(words, word - 1) = words
    <3>1. word - 1 = Len(words)
      BY <2>1, <2>2
    <3>2. words = [i \in 1..Len(words) |-> words[i]]
      BY <2>1
    <3> QED
      BY <3>1, <3>2 DEF First
  <2>4. FlattenSeq(chunks') = FlattenSeq(chunks) \o chunk
    <3>1. chunks \in Seq(Seq(Mark)) /\ chunk \in Seq(Mark) /\ FlattenSeq(chunks) \in Seq(Mark)
      BY ChunksAreSequences
    <3>2. CASE chunk = <<>>
      <4>1. chunks' = chunks
        BY <2>1, <3>1, <3>2 DEF Remaining
      <4> QED
        BY <3>1, <3>2, <4>1
    <3>3. CASE chunk # <<>>
      <4>1. chunks' = Append(chunks, chunk)
        BY <2>1, <3>1, <3>3 DEF Remaining
      <4> QED
        BY <4>1, ChunksAreSequences
    <3> QED
      BY <3>2, <3>3
  <2>5. words' = FlattenSeq(chunks')
    BY <2>1, <2>2, <2>3, <2>4
  <2>6. words' = Spoken(audio'[scene'].marks, Len(audio'[scene'].marks))
    BY <2>1, <2>2
  <2> QED
    BY <2>1, <2>2, <2>5, <2>6 DEF WordsKept, Spoken
<1> QED
  BY <1>1, <1>2, <1>3, <1>4, <1>5, <1>6, <1>7 DEF Next

LEMMA SameSequence ==
    ASSUME NEW S, NEW s \in Seq(S), NEW t \in Seq(S),
           Len(s) = Len(t), \A i \in 1..Len(s) : s[i] = t[i]
    PROVE  s = t
OBVIOUS

\* What of cs is about scene s.
TextsOf(cs, s) == [i \in 1..Len(cs) |-> IF cs[i].scene = s THEN cs[i].text ELSE <<>>]

LEMMA TextsJoin ==
    ASSUME NEW cs \in Seq(Cue), NEW ds \in Seq(Cue), NEW s
    PROVE  /\ TextsOf(cs, s) \in Seq(Seq(Mark)) /\ Len(TextsOf(cs, s)) = Len(cs)
           /\ TextsOf(ds, s) \in Seq(Seq(Mark)) /\ Len(TextsOf(ds, s)) = Len(ds)
           /\ TextsOf(cs \o ds, s) = TextsOf(cs, s) \o TextsOf(ds, s)
<1> DEFINE m == Len(cs)
           n == Len(ds)
           es == cs \o ds
           T == Seq(Mark)
<1>1. /\ m \in Nat /\ n \in Nat /\ es \in Seq(Cue) /\ Len(es) = m + n
      /\ \A i \in 1..m : es[i] = cs[i]
      /\ \A i \in 1..n : es[m + i] = ds[i]
  BY ConcatFacts
<1>2. ASSUME NEW xs \in Seq(Cue)
      PROVE  TextsOf(xs, s) \in Seq(T) /\ Len(TextsOf(xs, s)) = Len(xs)
  <2>1. \A i \in 1..Len(xs) : xs[i] \in Cue
    OBVIOUS
  <2>2. \A i \in 1..Len(xs) : xs[i].text \in T
    BY <2>1 DEF Cue
  <2>3. <<>> \in T /\ Len(xs) \in Nat
    OBVIOUS
  <2> HIDE DEF T
  <2> DEFINE none == <<>>
             f == [i \in 1..Len(xs) |-> IF xs[i].scene = s THEN xs[i].text ELSE none]
  <2>4. none \in T
    BY <2>3
  <2> HIDE DEF none
  <2>5. f \in [1..Len(xs) -> T]
    BY <2>2, <2>4
  <2>6. f \in Seq(T) /\ Len(f) = Len(xs)
    BY <2>3, <2>5, FunctionsAreSequences
  <2> QED
    BY <2>6 DEF TextsOf, none
<1> HIDE DEF m, n, es, T
<1>3. TextsOf(cs, s) \in Seq(T) /\ TextsOf(ds, s) \in Seq(T) /\ TextsOf(es, s) \in Seq(T)
      /\ Len(TextsOf(cs, s)) = m /\ Len(TextsOf(ds, s)) = n /\ Len(TextsOf(es, s)) = m + n
  BY <1>1, <1>2 DEF m, n
<1>4. \A i \in 1..m : TextsOf(es, s)[i] = TextsOf(cs, s)[i]
  BY <1>1 DEF TextsOf, m
<1>5. \A i \in 1..n : TextsOf(es, s)[m + i] = TextsOf(ds, s)[i]
  BY <1>1 DEF TextsOf, n
<1> DEFINE a == TextsOf(cs, s)
           b == TextsOf(ds, s)
           c == TextsOf(es, s)
<1>6. c = a \o b
  <2> HIDE DEF a, b, c
  <2>1. a \in Seq(T) /\ b \in Seq(T) /\ c \in Seq(T) /\ Len(a) = m /\ Len(b) = n /\ Len(c) = m + n
        /\ (\A i \in 1..m : c[i] = a[i]) /\ \A i \in 1..n : c[m + i] = b[i]
    BY <1>3, <1>4, <1>5 DEF a, b, c
  <2>2. a \o b \in Seq(T) /\ Len(a \o b) = m + n
        /\ (\A i \in 1..m : (a \o b)[i] = a[i]) /\ \A i \in 1..n : (a \o b)[m + i] = b[i]
    <3>1. /\ a \o b \in Seq(T) /\ Len(a \o b) = Len(a) + Len(b)
          /\ \A i \in 1..Len(a) : (a \o b)[i] = a[i]
          /\ \A i \in 1..Len(b) : (a \o b)[Len(a) + i] = b[i]
      <4>1. a \in Seq(T) /\ b \in Seq(T)
        BY <2>1
      <4> QED
        BY <4>1, ConcatFacts
    <3> QED
      BY <2>1, <3>1
  <2>3. ASSUME NEW i \in 1..(m + n) PROVE c[i] = (a \o b)[i]
    <3>1. CASE i \in 1..m
      BY <2>1, <2>2, <3>1
    <3>2. CASE i \notin 1..m
      <4>1. i - m \in 1..n /\ m + (i - m) = i
        BY <1>1, <3>2
      <4>2. c[m + (i - m)] = (a \o b)[m + (i - m)]
        BY <2>1, <2>2, <4>1
      <4> QED
        BY <4>1, <4>2
    <3> QED
      BY <3>1, <3>2
  <2>4. c \in Seq(T) /\ a \o b \in Seq(T) /\ Len(c) = Len(a \o b) /\ \A i \in 1..Len(c) : c[i] = (a \o b)[i]
    BY <2>1, <2>2, <2>3
  <2> QED
    BY <2>4, SameSequence
<1> QED
  BY <1>3, <1>6 DEF T, m, n, es

\* The cues of the scene that is written show its words, and none of another.
LEMMA SceneShown ==
    ASSUME TypeOK, Order, EveryWordShown, UNCHANGED audio, scene' = scene + 1,
           NEW new \in Seq(Cue), cues' = cues \o new, new # <<>>,
           \A i \in 1..Len(new) : new[i].scene = scene,
           FlattenSeq(TextsOf(new, scene)) =
               IF audio[scene].file = "none" THEN <<>>
               ELSE Spoken(audio[scene].marks, Len(audio[scene].marks))
    PROVE  EveryWordShown'
<1>1. cues \in Seq(Cue) /\ scene \in Nat /\ scene >= 1 /\ cues' \in Seq(Cue)
  <2>1. cues \in Seq(Cue) /\ scene \in Nat /\ scene >= 1
    BY DEF TypeOK
  <2> QED
    BY <2>1, ConcatFacts
<1> DEFINE n == Len(cues)
<1>2. /\ n \in Nat /\ Len(new) \in Nat \ {0} /\ Len(cues') = n + Len(new)
      /\ \A i \in 1..n : cues'[i] = cues[i] /\ cues[i] \in Cue
      /\ cues'[n + 1] = new[1]
  <2>1. /\ Len(cues \o new) = n + Len(new) /\ n \in Nat
        /\ \A i \in 1..n : (cues \o new)[i] = cues[i] /\ cues[i] \in Cue
        /\ \A i \in 1..Len(new) : (cues \o new)[n + i] = new[i]
    BY <1>1, ConcatFacts
  <2>2. Len(new) \in Nat \ {0} /\ 1 \in 1..Len(new)
    OBVIOUS
  <2> QED
    BY <2>1, <2>2
<1>3. ASSUME NEW s
      PROVE  /\ Shown(s, Len(cues))' = FlattenSeq(TextsOf(cues, s)) \o FlattenSeq(TextsOf(new, s))
             /\ Shown(s, Len(cues)) = FlattenSeq(TextsOf(cues, s))
             /\ FlattenSeq(TextsOf(cues, s)) \in Seq(Mark) /\ FlattenSeq(TextsOf(new, s)) \in Seq(Mark)
             /\ (\A i \in 1..Len(cues) : cues[i].scene # s) => FlattenSeq(TextsOf(cues, s)) = <<>>
             /\ (\A i \in 1..Len(new) : new[i].scene # s) => FlattenSeq(TextsOf(new, s)) = <<>>
  <2>1. Shown(s, Len(cues))' = FlattenSeq(TextsOf(cues', s)) /\ Shown(s, Len(cues)) = FlattenSeq(TextsOf(cues, s))
    BY DEF Shown, TextsOf
  <2>2. /\ TextsOf(cues, s) \in Seq(Seq(Mark)) /\ TextsOf(new, s) \in Seq(Seq(Mark))
        /\ Len(TextsOf(cues, s)) = Len(cues) /\ Len(TextsOf(new, s)) = Len(new)
        /\ TextsOf(cues', s) = TextsOf(cues, s) \o TextsOf(new, s)
    BY <1>1, TextsJoin
  <2>3. FlattenSeq(TextsOf(cues', s)) = FlattenSeq(TextsOf(cues, s)) \o FlattenSeq(TextsOf(new, s))
        /\ FlattenSeq(TextsOf(cues, s)) \in Seq(Mark) /\ FlattenSeq(TextsOf(new, s)) \in Seq(Mark)
    BY <2>2, FlattenJoins
  <2>4. ASSUME NEW cs \in Seq(Cue), \A i \in 1..Len(cs) : cs[i].scene # s
        PROVE  FlattenSeq(TextsOf(cs, s)) = <<>>
    <3>1. TextsOf(cs, s) \in Seq(Seq(Mark)) /\ Len(TextsOf(cs, s)) = Len(cs)
      BY TextsJoin
    <3>2. \A i \in 1..Len(TextsOf(cs, s)) : TextsOf(cs, s)[i] = <<>>
      BY <2>4, <3>1 DEF TextsOf
    <3> QED
      BY <3>1, <3>2, FlattenEmpty
  <2> QED
    BY <1>1, <2>1, <2>3, <2>4
<1>4. \A t \in Seq(Mark) : t \o <<>> = t /\ <<>> \o t = t
  OBVIOUS
<1> SUFFICES ASSUME NEW s \in 1..(scene' - 1), Parses(s)'
             PROVE  /\ \E i \in 1..Len(cues') : cues'[i].scene = s
                    /\ Shown(s, Len(cues))' =
                         IF audio[s].file = "none" THEN <<>>
                         ELSE Spoken(audio[s].marks, Len(audio[s].marks))
  <2>1. \A t : /\ Parses(t)' = Parses(t)
               /\ Spoken(audio[t].marks, Len(audio[t].marks))' = Spoken(audio[t].marks, Len(audio[t].marks))
    BY DEF Parses, Spoken
  <2> QED
    BY <2>1 DEF EveryWordShown
<1>5. scene' - 1 = scene /\ Parses(s)
  BY <1>1 DEF Parses
<1>6. CASE s < scene
  <2>1. s \in 1..(scene - 1)
    BY <1>1, <1>6
  <2>2. PICK i \in 1..n : cues[i].scene = s
    BY <1>5, <2>1 DEF EveryWordShown
  <2>3. i \in 1..Len(cues') /\ cues'[i].scene = s
    BY <1>2, <2>2
  <2>4. \A k \in 1..Len(new) : new[k].scene # s
    BY <1>1, <1>6
  <2>5. Shown(s, Len(cues))' = Shown(s, Len(cues))
    BY <1>3, <1>4, <2>4
  <2>6. Shown(s, Len(cues)) = IF audio[s].file = "none" THEN <<>>
                              ELSE Spoken(audio[s].marks, Len(audio[s].marks))
    BY <1>5, <2>1 DEF EveryWordShown
  <2> QED
    BY <2>3, <2>5, <2>6
<1>7. CASE s = scene
  <2>1. n + 1 \in 1..Len(cues') /\ cues'[n + 1].scene = s
    BY <1>2, <1>7
  <2>2. \A i \in 1..n : cues[i].scene # s
    <3>1. \A i \in 1..n : cues[i].scene < scene
      BY DEF Order, CuesSoFar
    <3>2. \A i \in 1..n : cues[i].scene \in Nat
      BY <1>2 DEF Cue
    <3> QED
      BY <1>1, <1>7, <3>1, <3>2
  <2>3. Shown(s, Len(cues))' = FlattenSeq(TextsOf(new, s))
    BY <1>3, <1>4, <2>2
  <2> QED
    BY <1>7, <2>1, <2>3
<1> QED
  BY <1>1, <1>5, <1>6, <1>7

LEMMA ShownStep ==
    ASSUME TypeOK, Order, WordsKept, EveryWordShown, [Next]_vars
    PROVE  EveryWordShown'
<1>1. CASE Synthesize
  BY <1>1 DEF Synthesize, WordsKept, EveryWordShown
<1>2. CASE UNCHANGED <<audio, cues, scene>>
  <2>1. \A s : /\ Parses(s)' = Parses(s) /\ Shown(s, Len(cues))' = Shown(s, Len(cues))
               /\ Spoken(audio[s].marks, Len(audio[s].marks))'
                    = Spoken(audio[s].marks, Len(audio[s].marks))
    BY <1>2 DEF Parses, Shown, Spoken
  <2>2. QED
    BY <1>2, <2>1 DEF EveryWordShown
<1>3. CASE SkipScene
  <2>1. UNCHANGED <<audio, cues>> /\ scene' - 1 = scene /\ ~Parses(scene) /\ scene \in Nat /\ scene >= 1
    BY <1>3 DEF SkipScene, NextScene, Parses, TypeOK
  <2>2. \A s \in 1..scene : s \in 1..(scene - 1) \/ s = scene
    BY <2>1
  <2>3. \A s : /\ Parses(s)' = Parses(s) /\ Shown(s, Len(cues))' = Shown(s, Len(cues))
               /\ Spoken(audio[s].marks, Len(audio[s].marks))' = Spoken(audio[s].marks, Len(audio[s].marks))
    BY <2>1 DEF Parses, Shown, Spoken
  <2>4. ASSUME NEW s \in 1..(scene' - 1), Parses(s)'
        PROVE  /\ \E i \in 1..Len(cues') : cues'[i].scene = s
               /\ Shown(s, Len(cues))' = IF audio'[s].file = "none" THEN <<>>
                                         ELSE Spoken(audio[s].marks, Len(audio[s].marks))'
    <3>1. s \in 1..(scene - 1) /\ Parses(s)
      BY <2>1, <2>2, <2>3, <2>4
    <3> QED
      BY <2>1, <2>3, <3>1 DEF EveryWordShown
  <2> QED
    BY <2>4 DEF EveryWordShown
<1>4. CASE WholeScene
  <2> DEFINE c == [scene |-> scene, from |-> time, to |-> time + audio[scene].length, text |-> <<>>]
             new == <<c>>
  <2>1. scene \in 1..Len(audio) /\ audio[scene] \in Audio /\ time \in Nat
    BY <1>4 DEF WholeScene, Filtered, TypeOK
  <2>2. c \in Cue
    BY <2>1 DEF Cue, Audio
  <2>3. new \in Seq(Cue) /\ new # <<>> /\ cues' = cues \o new /\ Len(new) = 1 /\ new[1] = c
    <3>1. cues \in Seq(Cue)
      BY DEF TypeOK
    <3> QED
      BY <1>4, <2>2, <3>1 DEF WholeScene
  <2>4. c.scene = scene /\ c.text = <<>>
    OBVIOUS
  <2> HIDE DEF c, new
  <2>5. \A i \in 1..Len(new) : new[i].scene = scene
    BY <2>3, <2>4
  <2>6. FlattenSeq(TextsOf(new, scene)) = <<>>
    <3>1. TextsOf(new, scene) \in Seq(Seq(Mark)) /\ Len(TextsOf(new, scene)) = 1
      BY <2>3, TextsJoin
    <3>2. \A i \in 1..1 : TextsOf(new, scene)[i] = <<>>
      BY <2>3, <2>4 DEF TextsOf
    <3> QED
      BY <3>1, <3>2, FlattenEmpty
  <2>7. audio[scene].file # "none" => Spoken(audio[scene].marks, Len(audio[scene].marks)) = <<>>
    <3> SUFFICES ASSUME audio[scene].file # "none"
                 PROVE  Spoken(audio[scene].marks, Len(audio[scene].marks)) = <<>>
      OBVIOUS
    <3>1. pc = "filter" /\ word > Len(audio[scene].marks) /\ words = <<>> /\ word \in Nat
      BY <1>4 DEF WholeScene, Filtered, TypeOK
    <3>2. words = Spoken(audio[scene].marks, word - 1) /\ word - 1 <= Len(audio[scene].marks)
      BY <3>1 DEF WordsKept
    <3>3. audio[scene].marks \in Seq(Mark)
      BY <2>1 DEF Audio
    <3>4. Len(audio[scene].marks) \in Nat
      BY <3>3
    <3>5. word - 1 = Len(audio[scene].marks)
      BY <3>1, <3>2, <3>4
    <3> QED
      BY <3>1, <3>2, <3>5
  <2>8. UNCHANGED audio /\ scene' = scene + 1
    BY <1>4 DEF WholeScene, NextScene
  <2> QED
    BY <2>3, <2>5, <2>6, <2>7, <2>8, SceneShown
<1>5. CASE WriteCues
  <2>1. /\ cues' = cues \o NewCues /\ NewCues \in Seq(Cue) /\ Len(NewCues) = Len(chunks)
        /\ UNCHANGED audio /\ scene' = scene + 1 /\ Len(chunks) \in Nat
    BY <1>5, NewCuesType DEF WriteCues, NextScene, NewCues
  <2>2. \A i \in 1..Len(chunks) : NewCues[i].scene = scene /\ NewCues[i].text = chunks[i]
    BY DEF NewCues, WordCue
  <2>3. /\ words # <<>> /\ words = Spoken(audio[scene].marks, Len(audio[scene].marks))
        /\ words = FlattenSeq(chunks) /\ audio[scene].file = "whole"
    BY <1>5 DEF WriteCues, WordsKept
  <2>4. TextsOf(NewCues, scene) = chunks
    <3>1. chunks \in Seq(Seq(Mark) \ {<<>>})
      BY DEF TypeOK
    <3>2. chunks = [i \in 1..Len(chunks) |-> chunks[i]]
      BY <3>1
    <3> QED
      BY <2>1, <2>2, <3>2 DEF TextsOf
  <2>5. NewCues # <<>>
    <3>1. chunks # <<>>
      BY <2>3, FlattenNone
    <3>2. Len(chunks) # 0
      BY <3>1 DEF TypeOK
    <3> QED
      BY <2>1, <3>2
  <2>6. \A i \in 1..Len(NewCues) : NewCues[i].scene = scene
    BY <2>1, <2>2
  <2>7. FlattenSeq(TextsOf(NewCues, scene)) =
            IF audio[scene].file = "none" THEN <<>>
            ELSE Spoken(audio[scene].marks, Len(audio[scene].marks))
    BY <2>3, <2>4
  <2> QED
    BY <2>1, <2>5, <2>6, <2>7, SceneShown
<1>6. CASE UNCHANGED vars
  BY <1>2, <1>6 DEF vars
<1> QED
  BY <1>1, <1>2, <1>3, <1>4, <1>5, <1>6
     DEF Next, StartSubtitles, StartFilter, Filter, StartGrouping, GroupWord, EndGrouping

\* The cues of a scene whose marks parse show its words, each once and in their
\* order, however groupWordsIntoChunks cuts them and for any marks; a scene
\* without words has a cue of its own.
THEOREM EveryWordIsShown == Spec => []EveryWordShown
<1>1. Init => WordsKept /\ EveryWordShown
  BY DEF Init, WordsKept, EveryWordShown
<1>2. TypeOK /\ Order /\ WordsKept /\ EveryWordShown /\ [Next]_vars => WordsKept' /\ EveryWordShown'
  BY WordsKeptStep, ShownStep
<1> QED
  BY <1>1, <1>2, TypeCorrect, Ordered, PTL DEF Spec

-----------------------------------------------------------------------------
\* formatSRTTimeMs loses nothing: hours, minutes, seconds and milliseconds are
\* in their ranges and add up to the time again.
THEOREM SrtTimeIsExact ==
    ASSUME NEW ms \in Nat
    PROVE  LET t == SrtTime(ms) IN
           /\ t.minutes \in 0..59 /\ t.seconds \in 0..59 /\ t.millis \in 0..999
           /\ ms = 3600000 * t.hours + 60000 * t.minutes + 1000 * t.seconds + t.millis
BY DEF SrtTime
=============================================================================
