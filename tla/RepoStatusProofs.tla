--------------------------- MODULE RepoStatusProofs ---------------------------
(* The answers of the rebuild decision, for every repository.               *)
EXTENDS RepoStatus, SequenceTheorems, TLAPS

\* What texts are made of.  (That a literal is a STRING is not known to the
\* provers.)
Words == Commits \union STRING \union {"", "garbage"}

\* Texts of the status files and what the tool has in memory.
MemoryOK ==
    /\ repo \in Repo
    /\ commit_hash \in Words /\ git_diff \in Seq(Words)
    /\ Text("commit") \in Seq(Words) /\ Text("diff") \in Seq(Words)
    /\ exit_code \in {0, 1, 47}
    /\ raced \in BOOLEAN /\ owed \in BOOLEAN /\ libraries_exist \in BOOLEAN

\* The checksum of the commit and the changes in a record.
Checksum(rec) == sha1(<<rec.head>> \o rec.diff)

Record == [head : Words, diff : Seq(Words)]

\* A hash.txt that is a checksum is the one of the last record: only WriteHash
\* computes one, and it stands until it is replaced, damaged or removed.
HashOfRecord ==
    \/ Text("hash") \in {<<>>, Garbage}
    \/ \E rec \in Record : recorded = {rec} /\ Text("hash") = Checksum(rec)

\* The checksum holds while the tool compares; the first comparison has found
\* the commit equal.
Comparing ==
    /\ pc \in {"compare_commit", "compare_diff"} => ~is_corrupted
    /\ pc = "compare_diff" => Text("commit") = <<commit_hash>>

\* update_status answers "changed" and has written what it has read so far.
Updating ==
    /\ pc \in {"read_commit", "read_diff", "write_commit", "write_diff",
               "write_hash"} => exit_code = 47
    /\ pc \in {"write_diff", "write_hash"} => Text("commit") = <<commit_hash>>
    /\ pc = "write_hash" => Text("diff") = git_diff

\* After any answer but an exception, the record is what the tool has read.
Answered == pc \in {"exited", "build"} /\ exit_code # 1 => recorded = {Read}

\* What the tool has read is the state of the repository, unless that changed
\* meanwhile.
Seen ==
    ~raced =>
      /\ pc \in {"compare_diff", "read_diff", "write_commit", "write_diff",
                 "write_hash"} => commit_hash = repo.head
      /\ pc \in {"write_commit", "write_diff", "write_hash"} =>
           git_diff = repo.diff
      /\ pc \in {"exited", "build"} /\ exit_code # 1 => Read = repo

\* Libraries found at the start are there until the build; a build step never
\* builds after an exception.
LibrariesFound ==
    /\ libraries_exist => libs # {} /\ pc # "idle"
    /\ pc = "build" => exit_code # 1

\* Once the build for the last record has completed, undisturbed, libraries
\* are built from that record.
BuiltFromRecord == ~owed /\ libs # {} => libs = recorded

FreshInv == Seen /\ LibrariesFound /\ BuiltFromRecord

AnswerInv == MemoryOK /\ HashOfRecord /\ Comparing /\ Updating /\ Answered

StatusInv == AnswerInv /\ FreshInv

-----------------------------------------------------------------------------
(* Texts.                                                                  *)

\* Where the commit ends in the checksum is not ambiguous: it is one word.
LEMMA SplitText ==
    ASSUME NEW a \in Words, NEW b \in Words,
           NEW x \in Seq(Words), NEW y \in Seq(Words),
           <<a>> \o x = <<b>> \o y
    PROVE  a = b /\ x = y
<1>1. <<a>> \in Seq(Words) /\ <<b>> \in Seq(Words)
  OBVIOUS
<1>2. Len(<<a>>) = 1 /\ Len(<<b>>) = 1 /\ <<a>>[1] = a /\ <<b>>[1] = b
  OBVIOUS
<1>3. Len(x) \in Nat /\ Len(y) \in Nat
  OBVIOUS
<1>4. (<<a>> \o x)[1] = a
  BY <1>1, <1>2, <1>3, ConcatProperties
<1>5. (<<b>> \o y)[1] = b
  BY <1>1, <1>2, <1>3, ConcatProperties
<1>6. a = b
  BY <1>4, <1>5
<1>7. Len(x) = Len(y)
  BY <1>1, <1>2, <1>3, ConcatProperties
<1>8. ASSUME NEW i \in 1 .. Len(x)
      PROVE  x[i] = y[i]
  <2>1. i + 1 \in 1 .. 1 + Len(x) /\ ~(i + 1 <= 1) /\ i + 1 - 1 = i
    BY <1>3
  <2>2. (<<a>> \o x)[i + 1] = x[i]
    BY <1>1, <1>2, <2>1, ConcatProperties
  <2>3. (<<b>> \o y)[i + 1] = y[i]
    BY <1>1, <1>2, <1>7, <2>1, ConcatProperties
  <2> QED
    BY <2>2, <2>3
<1>9. x = y
  BY <1>7, <1>8, SeqEqual
<1> QED
  BY <1>6, <1>9

\* A sequence over a set is one over every larger set.
LEMMA SeqMonotone ==
    ASSUME NEW S, NEW T, S \subseteq T, NEW s \in Seq(S)
    PROVE  s \in Seq(T)
OBVIOUS

\* A checksum is neither empty nor garbage.
LEMMA ChecksumIsLong ==
    ASSUME NEW text
    PROVE  sha1(text) # <<>> /\ sha1(text) # Garbage
<1>1. Len(<<"sha1", text>>) = 2
  OBVIOUS
<1>2. Len(<<>>) = 0 /\ Len(<<"garbage">>) = 1
  OBVIOUS
<1> QED
  BY <1>1, <1>2 DEF sha1, Garbage

\* A file that is written has the text, the others keep theirs.
LEMMA WrittenText ==
    ASSUME NEW file, NEW text, dir' = Written(file, text)
    PROVE  /\ Text(file)' = text
           /\ \A f : f # file => Text(f)' = Text(f)
BY DEF Written, Text, Exists

\* A file that is removed has no text, the others keep theirs.
LEMMA RemovedText ==
    ASSUME NEW file, dir' = [f \in DOMAIN dir \ {file} |-> dir[f]]
    PROVE  /\ Text(file)' = <<>>
           /\ \A f : f # file => Text(f)' = Text(f)
BY DEF Text, Exists

\* A checksum that is right for the files tells what they were written from.
LEMMA ChecksumTells ==
    ASSUME AnswerInv, ~is_corrupted, NEW h \in Words, Text("commit") = <<h>>
    PROVE  recorded = {[head |-> h, diff |-> Text("diff")]}
<1>1. path_checksum = Text("hash")
  BY DEF is_corrupted
<1>2. Text("hash") = <<"sha1", <<h>> \o Text("diff")>>
  BY <1>1 DEF path_checksum, sha1
<1>3. Text("hash") \notin {<<>>, Garbage}
  BY <1>1, ChecksumIsLong DEF path_checksum
<1>4. PICK rec \in Record : recorded = {rec} /\ Text("hash") = Checksum(rec)
  BY <1>3 DEF AnswerInv, HashOfRecord
<1>5. <<"sha1", <<h>> \o Text("diff")>> = <<"sha1", <<rec.head>> \o rec.diff>>
  BY <1>2, <1>4 DEF Checksum, sha1
<1>6. <<h>> \o Text("diff") = <<rec.head>> \o rec.diff
  BY <1>5
<1>7. Text("diff") \in Seq(Words) /\ rec.head \in Words /\ rec.diff \in Seq(Words)
  BY DEF AnswerInv, MemoryOK, Record
<1>8. h = rec.head /\ Text("diff") = rec.diff
  BY <1>6, <1>7, SplitText
<1>9. rec = [head |-> rec.head, diff |-> rec.diff]
  BY DEF Record
<1> QED
  BY <1>4, <1>8, <1>9

-----------------------------------------------------------------------------
(* The invariant.                                                          *)

\* Nothing is stored, read or built at the beginning.
LEMMA StatusInit == Init => StatusInv
<1> SUFFICES ASSUME Init
             PROVE  StatusInv
  OBVIOUS
<1>1. \A f \in {"commit", "diff", "hash"} : Text(f) = <<>>
  <2>1. DOMAIN dir = {}
    <3>1. DOMAIN << >> = {}
      BY EmptySeq
    <3> QED
      BY <3>1 DEF Init
  <2> QED
    BY <2>1 DEF Text, Exists
<1>2. <<>> \in Seq(Words) /\ "" \in Words
  BY EmptySeq DEF Words
<1>3. MemoryOK
  BY <1>1, <1>2 DEF Init, MemoryOK
<1> QED
  BY <1>1, <1>3 DEF Init, StatusInv, AnswerInv, FreshInv, HashOfRecord,
    Comparing, Updating, Answered, Seen, LibrariesFound, BuiltFromRecord

\* The texts of a directory that is left alone.
LEMMA SameTexts ==
    ASSUME UNCHANGED dir
    PROVE  /\ \A f : Text(f)' = Text(f)
           /\ is_corrupted' = is_corrupted
BY DEF is_corrupted, path_checksum, Text, Exists

\* What the repository holds is text.
LEMMA RepoWords ==
    ASSUME repo \in Repo
    PROVE  repo.head \in Words /\ repo.diff \in Seq(Words)
<1>1. repo.head \in Commits /\ repo.diff \in Seq(STRING)
  BY DiffsAssumption DEF Repo
<1>2. STRING \subseteq Words /\ Commits \subseteq Words
  BY DEF Words
<1> QED
  BY <1>1, <1>2, SeqMonotone

\* A step that leaves directory and record alone keeps hash.txt explained.
LEMMA HashStands ==
    ASSUME StatusInv, UNCHANGED <<dir, recorded>>
    PROVE  HashOfRecord'
<1>1. Text("hash")' = Text("hash")
  BY SameTexts
<1> QED
  BY <1>1 DEF StatusInv, AnswerInv, HashOfRecord

\* The end of a build step loses what was in memory only.
LEMMA EndedKeeps ==
    ASSUME StatusInv, Ended, repo' = repo, MemoryOK', HashOfRecord',
           BuiltFromRecord'
    PROVE  StatusInv'
BY DEF Ended, StatusInv, AnswerInv, FreshInv, Comparing, Updating, Answered,
  Seen, LibrariesFound

\* Start reads whether libraries exist.
LEMMA StatusStart ==
    ASSUME StatusInv, Start
    PROVE  StatusInv'
<1> USE DEF Start, status, observed
<1>1. HashOfRecord'
  BY HashStands
<1>2. MemoryOK'
  BY SameTexts DEF StatusInv, AnswerInv, MemoryOK
<1>3. Comparing' /\ Updating' /\ Answered'
  BY DEF Comparing, Updating, Answered
<1>4. FreshInv'
  BY DEF StatusInv, FreshInv, Seen, LibrariesFound, BuiltFromRecord
<1> QED
  BY <1>1, <1>2, <1>3, <1>4 DEF StatusInv, AnswerInv

\* Check goes on to compare only when the checksum is right.
LEMMA StatusCheck ==
    ASSUME StatusInv, Check
    PROVE  StatusInv'
<1> USE DEF Check, build, observed, BeginUpdate, Raise
<1>1. HashOfRecord'
  BY HashStands
<1>2. MemoryOK'
  BY SameTexts DEF StatusInv, AnswerInv, MemoryOK
<1>3. Comparing' /\ Updating' /\ Answered'
  BY SameTexts DEF Comparing, Updating, Answered
<1>4. FreshInv'
  BY DEF StatusInv, FreshInv, Seen, LibrariesFound, BuiltFromRecord
<1> QED
  BY <1>1, <1>2, <1>3, <1>4 DEF StatusInv, AnswerInv

\* CompareCommit goes on only when the stored commit is the one it reads.
LEMMA StatusCompareCommit ==
    ASSUME StatusInv, CompareCommit
    PROVE  StatusInv'
<1> USE DEF CompareCommit, build, observed, BeginUpdate, Raise
<1>1. HashOfRecord'
  BY HashStands
<1>2. MemoryOK'
  BY SameTexts, RepoWords DEF StatusInv, AnswerInv, MemoryOK
<1>3. Comparing' /\ Updating' /\ Answered'
  BY SameTexts DEF StatusInv, AnswerInv, Comparing, Updating, Answered
<1>4. FreshInv'
  BY DEF StatusInv, FreshInv, Seen, LibrariesFound, BuiltFromRecord
<1> QED
  BY <1>1, <1>2, <1>3, <1>4 DEF StatusInv, AnswerInv

\* CompareDiff answers "has not changed" only for the record.
LEMMA StatusCompareDiff ==
    ASSUME StatusInv, CompareDiff
    PROVE  StatusInv'
<1> USE DEF CompareDiff, build, observed, BeginUpdate, Raise
<1>1. HashOfRecord'
  BY HashStands
<1>2. MemoryOK'
  BY SameTexts, RepoWords DEF StatusInv, AnswerInv, MemoryOK
<1>3. Comparing' /\ Updating'
  BY DEF Comparing, Updating
<1>4. recorded = {[head |-> commit_hash, diff |-> Text("diff")]}
  BY ChecksumTells DEF StatusInv, AnswerInv, Comparing, MemoryOK
<1>5. Answered'
  BY <1>4 DEF Answered, Read
<1>6. repo = [head |-> repo.head, diff |-> repo.diff]
  BY DEF StatusInv, AnswerInv, MemoryOK, Repo
<1>7. FreshInv'
  BY <1>6 DEF StatusInv, FreshInv, Seen, LibrariesFound, BuiltFromRecord, Read
<1> QED
  BY <1>1, <1>2, <1>3, <1>5, <1>7 DEF StatusInv, AnswerInv

\* ReadCommit and ReadDiff take the state of the repository.
LEMMA StatusRead ==
    ASSUME StatusInv, ReadCommit \/ ReadDiff
    PROVE  StatusInv'
<1> USE DEF ReadCommit, ReadDiff, build, observed, Raise
<1>1. HashOfRecord'
  BY HashStands
<1>2. MemoryOK'
  BY SameTexts, RepoWords DEF StatusInv, AnswerInv, MemoryOK
<1>3. Comparing' /\ Updating' /\ Answered'
  BY DEF StatusInv, AnswerInv, Comparing, Updating, Answered
<1>4. FreshInv'
  BY DEF StatusInv, FreshInv, Seen, LibrariesFound, BuiltFromRecord
<1> QED
  BY <1>1, <1>2, <1>3, <1>4 DEF StatusInv, AnswerInv

\* WriteCommit replaces the stored commit.
LEMMA StatusWriteCommit ==
    ASSUME StatusInv, WriteCommit
    PROVE  StatusInv'
<1> USE DEF WriteCommit, build, observed
<1>1. /\ Text("commit")' = <<commit_hash>>
      /\ Text("diff")' = Text("diff") /\ Text("hash")' = Text("hash")
  BY WrittenText
<1>2. HashOfRecord'
  BY <1>1 DEF StatusInv, AnswerInv, HashOfRecord
<1>3. MemoryOK'
  <2>1. <<commit_hash>> \in Seq(Words)
    BY DEF StatusInv, AnswerInv, MemoryOK
  <2> QED
    BY <1>1, <2>1 DEF StatusInv, AnswerInv, MemoryOK
<1>4. Comparing' /\ Updating' /\ Answered'
  BY <1>1 DEF StatusInv, AnswerInv, Comparing, Updating, Answered
<1>5. FreshInv'
  BY DEF StatusInv, FreshInv, Seen, LibrariesFound, BuiltFromRecord
<1> QED
  BY <1>2, <1>3, <1>4, <1>5 DEF StatusInv, AnswerInv

\* WriteDiff replaces the stored changes.
LEMMA StatusWriteDiff ==
    ASSUME StatusInv, WriteDiff
    PROVE  StatusInv'
<1> USE DEF WriteDiff, build, observed
<1>1. /\ Text("diff")' = git_diff
      /\ Text("commit")' = Text("commit") /\ Text("hash")' = Text("hash")
  BY WrittenText
<1>2. HashOfRecord'
  BY <1>1 DEF StatusInv, AnswerInv, HashOfRecord
<1>3. MemoryOK'
  BY <1>1 DEF StatusInv, AnswerInv, MemoryOK
<1>4. Comparing' /\ Updating' /\ Answered'
  BY <1>1 DEF StatusInv, AnswerInv, Comparing, Updating, Answered
<1>5. FreshInv'
  BY DEF StatusInv, FreshInv, Seen, LibrariesFound, BuiltFromRecord
<1> QED
  BY <1>2, <1>3, <1>4, <1>5 DEF StatusInv, AnswerInv

\* WriteHash stores the checksum of what it has written, and that is the record.
LEMMA StatusWriteHash ==
    ASSUME StatusInv, WriteHash
    PROVE  StatusInv'
<1> USE DEF WriteHash, build
<1>1. /\ Text("hash")' = path_checksum
      /\ Text("commit")' = Text("commit") /\ Text("diff")' = Text("diff")
  BY WrittenText
<1>2. path_checksum = Checksum(Read)
  <2>1. Text("commit") = <<commit_hash>> /\ Text("diff") = git_diff
    BY DEF StatusInv, AnswerInv, Updating
  <2> QED
    BY <2>1 DEF path_checksum, Checksum, Read
<1>3. HashOfRecord'
  <2>1. Read \in Record
    BY DEF StatusInv, AnswerInv, MemoryOK, Record, Read
  <2> QED
    BY <1>1, <1>2, <2>1 DEF HashOfRecord
<1>4. MemoryOK'
  BY <1>1 DEF StatusInv, AnswerInv, MemoryOK
<1>5. Comparing' /\ Updating' /\ Answered'
  BY DEF Comparing, Updating, Answered, Read
<1>6. repo = [head |-> repo.head, diff |-> repo.diff]
  BY DEF StatusInv, AnswerInv, MemoryOK, Repo
<1>7. FreshInv'
  BY <1>6 DEF StatusInv, FreshInv, Seen, LibrariesFound, BuiltFromRecord, Read
<1> QED
  BY <1>3, <1>4, <1>5, <1>7 DEF StatusInv, AnswerInv

\* Memory and files stay texts when a build step ends.
LEMMA EndedMemory ==
    ASSUME StatusInv, Ended, repo' = repo, owed' \in BOOLEAN,
           (Text("commit") \in Seq(Words) /\ Text("diff") \in Seq(Words))'
    PROVE  MemoryOK'
<1>1. <<>> \in Seq(Words) /\ "" \in Words
  BY EmptySeq DEF Words
<1> QED
  BY <1>1 DEF Ended, StatusInv, AnswerInv, MemoryOK

\* Decide ends the step or goes on to build.
LEMMA StatusDecide ==
    ASSUME StatusInv, Decide
    PROVE  StatusInv'
<1>1. HashOfRecord' /\ BuiltFromRecord'
  BY HashStands DEF Decide, StatusInv, FreshInv, BuiltFromRecord
<1>2. CASE exit_code = 1 \/ NoNeedToBuild
  <2>1. Ended
    BY <1>2 DEF Decide
  <2>2. MemoryOK'
    BY <2>1, SameTexts, EndedMemory DEF Decide, StatusInv, AnswerInv, MemoryOK
  <2> QED
    BY <1>1, <2>1, <2>2, EndedKeeps DEF Decide
<1>3. CASE ~(exit_code = 1 \/ NoNeedToBuild)
  <2>1. pc = "exited" /\ pc' = "build" /\ UNCHANGED local
    BY <1>3 DEF Decide
  <2>2. MemoryOK'
    BY <2>1, SameTexts DEF Decide, local, StatusInv, AnswerInv, MemoryOK
  <2>3. Comparing' /\ Updating' /\ Answered'
    BY <2>1 DEF Decide, local, StatusInv, AnswerInv, Comparing, Updating,
      Answered, Read
  <2>4. Seen' /\ LibrariesFound'
    BY <1>3, <2>1 DEF Decide, local, StatusInv, FreshInv, Seen,
      LibrariesFound, Read
  <2> QED
    BY <1>1, <2>2, <2>3, <2>4 DEF StatusInv, AnswerInv, FreshInv
<1> QED
  BY <1>2, <1>3

\* Make builds from the record, unless the repository has changed since.
LEMMA StatusMake ==
    ASSUME StatusInv, Make
    PROVE  StatusInv'
<1>1. HashOfRecord'
  BY HashStands DEF Make
<1>2. owed' \in BOOLEAN
  BY DEF Make, StatusInv, AnswerInv, MemoryOK
<1>3. MemoryOK'
  BY <1>2, SameTexts, EndedMemory DEF Make, StatusInv, AnswerInv, MemoryOK
<1>4. recorded = {Read} /\ (~raced => Read = repo)
  BY DEF Make, StatusInv, AnswerInv, FreshInv, Answered, Seen, LibrariesFound
<1>5. BuiltFromRecord'
  BY <1>4 DEF Make, StatusInv, FreshInv, BuiltFromRecord
<1> QED
  BY <1>1, <1>3, <1>5, EndedKeeps DEF Make

\* A process that is killed leaves a file empty, complete or as it was.
LEMMA StatusKill ==
    ASSUME StatusInv, Kill
    PROVE  StatusInv'
<1>1. <<>> \in Seq(Words) /\ <<commit_hash>> \in Seq(Words)
      /\ git_diff \in Seq(Words)
  BY EmptySeq DEF StatusInv, AnswerInv, MemoryOK
<1>2. /\ Text("commit")' \in Seq(Words) /\ Text("diff")' \in Seq(Words)
      /\ Text("hash")' \in {Text("hash"), <<>>}
  <2>1. CASE UNCHANGED dir
    BY <2>1, SameTexts DEF StatusInv, AnswerInv, MemoryOK
  <2>2. CASE \E t \in {<<>>, <<commit_hash>>} : dir' = Written("commit", t)
    BY <1>1, <2>2, WrittenText DEF StatusInv, AnswerInv, MemoryOK
  <2>3. CASE \E t \in {<<>>, git_diff} : dir' = Written("diff", t)
    BY <1>1, <2>3, WrittenText DEF StatusInv, AnswerInv, MemoryOK
  <2>4. CASE dir' = Written("hash", <<>>)
    BY <2>4, WrittenText DEF StatusInv, AnswerInv, MemoryOK
  <2> QED
    BY <2>1, <2>2, <2>3, <2>4 DEF Kill
<1>3. HashOfRecord'
  BY <1>2 DEF Kill, StatusInv, AnswerInv, HashOfRecord
<1>4. MemoryOK'
  BY <1>2, EndedMemory DEF Kill, StatusInv, AnswerInv, MemoryOK
<1>5. BuiltFromRecord'
  BY DEF Kill, StatusInv, FreshInv, BuiltFromRecord
<1> QED
  BY <1>3, <1>4, <1>5, EndedKeeps DEF Kill

\* The developer changes the repository: during a build step it is raced.
LEMMA StatusDevelop ==
    ASSUME StatusInv, Develop
    PROVE  StatusInv'
<1> USE DEF Develop, status, build
<1>1. HashOfRecord'
  BY HashStands
<1>2. MemoryOK'
  BY SameTexts DEF StatusInv, AnswerInv, MemoryOK
<1>3. Comparing' /\ Updating' /\ Answered'
  BY SameTexts DEF StatusInv, AnswerInv, Comparing, Updating, Answered, Read
<1>4. FreshInv'
  BY DEF StatusInv, FreshInv, Seen, LibrariesFound, BuiltFromRecord
<1> QED
  BY <1>1, <1>2, <1>3, <1>4 DEF StatusInv, AnswerInv

\* Damage to a file: hash.txt never becomes another checksum.
LEMMA StatusTamper ==
    ASSUME StatusInv, Tamper
    PROVE  StatusInv'
<1>1. /\ <<>> \in Seq(Words) /\ Garbage \in Seq(Words)
      /\ \A c \in Commits : <<c>> \in Seq(Words)
  <2>1. "garbage" \in Words /\ \A c \in Commits : c \in Words
    BY DEF Words
  <2> QED
    BY <2>1, EmptySeq DEF Garbage
<1>2. \A d \in Diffs : d \in Seq(Words)
  <2>1. STRING \subseteq Words
    BY DEF Words
  <2> QED
    BY <2>1, DiffsAssumption, SeqMonotone
<1>3. /\ Text("commit")' \in Seq(Words) /\ Text("diff")' \in Seq(Words)
      /\ Text("hash")' \in {Text("hash"), <<>>, Garbage}
  <2>1. ASSUME NEW c \in Commits, dir' = Written("commit", <<c>>)
        PROVE  <1>3
    BY <1>1, <2>1, WrittenText DEF StatusInv, AnswerInv, MemoryOK
  <2>2. ASSUME NEW d \in Diffs, dir' = Written("diff", d)
        PROVE  <1>3
    BY <1>2, <2>2, WrittenText DEF StatusInv, AnswerInv, MemoryOK
  <2>3. ASSUME NEW file \in {"commit", "diff", "hash"},
               dir' = Written(file, Garbage)
        PROVE  <1>3
    BY <1>1, <2>3, WrittenText DEF StatusInv, AnswerInv, MemoryOK
  <2>4. ASSUME NEW file \in {"commit", "diff", "hash"},
               dir' = [f \in DOMAIN dir \ {file} |-> dir[f]]
        PROVE  <1>3
    BY <1>1, <2>4, RemovedText DEF StatusInv, AnswerInv, MemoryOK
  <2> QED
    BY <2>1, <2>2, <2>3, <2>4 DEF Tamper
<1>4. HashOfRecord'
  BY <1>3 DEF Tamper, observed, StatusInv, AnswerInv, HashOfRecord
<1>5. MemoryOK'
  BY <1>3 DEF Tamper, build, observed, StatusInv, AnswerInv, MemoryOK
<1>6. Comparing' /\ Updating' /\ Answered'
  BY DEF Tamper, Comparing, Updating, Answered
<1>7. FreshInv'
  BY DEF Tamper, build, observed, StatusInv, FreshInv, Seen, LibrariesFound,
    BuiltFromRecord
<1> QED
  BY <1>4, <1>5, <1>6, <1>7 DEF StatusInv, AnswerInv

\* Removing the libraries and calming down touch no status.
LEMMA StatusOthers ==
    ASSUME StatusInv, RemoveLibraries \/ CalmDown \/ UNCHANGED vars
    PROVE  StatusInv'
<1> USE DEF RemoveLibraries, CalmDown, vars, status, build, observed
<1>1. HashOfRecord'
  BY HashStands
<1>2. MemoryOK'
  BY SameTexts DEF StatusInv, AnswerInv, MemoryOK
<1>3. Comparing' /\ Updating' /\ Answered'
  BY SameTexts DEF StatusInv, AnswerInv, Comparing, Updating, Answered, Read
<1>4. FreshInv'
  BY DEF StatusInv, FreshInv, Seen, LibrariesFound, BuiltFromRecord, Read
<1> QED
  BY <1>1, <1>2, <1>3, <1>4 DEF StatusInv, AnswerInv

LEMMA StatusStep == StatusInv /\ [Next]_vars => StatusInv'
<1> SUFFICES ASSUME StatusInv, [Next]_vars
             PROVE  StatusInv'
  OBVIOUS
<1> QED
  BY StatusStart, StatusCheck, StatusCompareCommit, StatusCompareDiff,
    StatusRead, StatusWriteCommit, StatusWriteDiff, StatusWriteHash,
    StatusDecide, StatusMake, StatusKill, StatusDevelop, StatusTamper,
    StatusOthers DEF Next, Script

-----------------------------------------------------------------------------

\* check-repo-src-changed.py answers "has not changed" only for the commit and
\* the changes that the last execution to answer "changed" recorded, in every
\* repository of either kind, however often it is killed and its files damaged.
THEOREM UnchangedIsRecordedHolds == Spec => []UnchangedIsRecorded
<1>1. StatusInv => UnchangedIsRecorded
  BY DEF StatusInv, AnswerInv, Answered, UnchangedIsRecorded
<1> QED
  BY <1>1, StatusInit, StatusStep, PTL DEF Spec

\* _build-itcoin-core-if-changed.sh skips the build only over libraries that
\* are built from the state it has compared, unless the build that the last
\* answer "changed" asked for did not complete or was raced.
THEOREM NoNeedMeansFreshHolds == Spec => []NoNeedMeansFresh
<1>1. StatusInv => NoNeedMeansFresh
  <2> SUFFICES ASSUME StatusInv, pc = "exited", NoNeedToBuild, ~owed
               PROVE  libs = {Read}
    BY DEF NoNeedMeansFresh
  <2>1. exit_code = 0 /\ libraries_exist
    BY DEF NoNeedToBuild
  <2>2. recorded = {Read}
    BY <2>1 DEF StatusInv, AnswerInv, Answered
  <2> QED
    BY <2>1, <2>2 DEF StatusInv, FreshInv, LibrariesFound, BuiltFromRecord
<1> QED
  BY <1>1, StatusInit, StatusStep, PTL DEF Spec
=============================================================================
