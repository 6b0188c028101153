------------------------------ MODULE RepoStatus ------------------------------
(***************************************************************************)
(* The rebuild decision of the itcoin-core libraries: the tool              *)
(* src/scripts/check-repo-src-changed.py, which compares a repository with  *)
(* the status it stored the last time, called by the build step             *)
(* src/scripts/_build-itcoin-core-if-changed.sh.                            *)
(*                                                                          *)
(* The tool is a process that can be killed between any two steps, also in  *)
(* the middle of writing a file; the developer works on the repository at   *)
(* any time, and between two builds may damage the status directory.  A     *)
(* text is the sequence of the parts that matter; SHA-1 is injective.       *)
(***************************************************************************)
EXTENDS Naturals, Sequences

CONSTANTS
    Commits,        \* the commits HEAD can be at
    Diffs,          \* the outputs of the status command, as texts
    Vcs,            \* kind of the repository, "git" or "hg"
    HgInstalled     \* whether the executable hg is found

ASSUME VcsAssumption == Vcs \in {"git", "hg"} /\ HgInstalled \in BOOLEAN
\* git status -vv always prints something, hg status only when there is
\* something to say.
ASSUME DiffsAssumption ==
    Diffs \subseteq Seq(STRING) /\ (Vcs = "git" => <<>> \notin Diffs)

VARIABLES
    repo,           \* the repository: its HEAD and its uncommitted changes
    dir,            \* the status directory: the texts of the files present
    pc,             \* next step of the tool or of the build step, or "idle"
    \* What a build step and its tool hold in memory:
    exit_code,      \* of the tool: 0 unchanged, 47 changed, 1 exception
    commit_hash, git_diff,  \* what the tool has last read of the repository
    libraries_exist,        \* read by the build step before it calls the tool
    libs,           \* state the libraries are built from, at most one
    recorded,       \* observer: what the last execution to end with 47 read
    raced,          \* observer: repo changed during this build step
    owed,           \* observer: no build completed, undisturbed, since then
    calm            \* observer: no more disturbance from now on

local == <<exit_code, commit_hash, git_diff, libraries_exist, raced>>
status == <<dir, exit_code, commit_hash, git_diff>>
build == <<libraries_exist, libs>>
observed == <<recorded, raced, owed>>
vars == <<repo, status, pc, build, observed, calm>>

Repo == [head : Commits, diff : Diffs]
Read == [head |-> commit_hash, diff |-> git_diff]

\* A damaged or half written file.
Garbage == <<"garbage">>

-----------------------------------------------------------------------------
(* The status directory.                                                   *)

sha1(text) == <<"sha1", text>>

\* HashString: 40 hexadecimal digits, as a commit or a checksum.
is_hash(text) ==
    \/ \E c \in Commits : text = <<c>>
    \/ Len(text) = 2 /\ text[1] = "sha1"

Exists(file) == file \in DOMAIN dir
Text(file) == IF Exists(file) THEN dir[file] ELSE <<>>

Written(file, text) ==
    [f \in DOMAIN dir \union {file} |-> IF f = file THEN text ELSE dir[f]]

\* Fault variant: the changes are not covered by the checksum.
path_checksum_CommitOnly == sha1(Text("commit"))

\* path_checksum: the texts of all files but hash.txt, in the order of their
\* names, without separators.
path_checksum == sha1(Text("commit") \o Text("diff"))

\* Fault variant: any hash.txt will do.
is_initialized_Exists == Exists("hash")

is_initialized == Exists("hash") /\ is_hash(Text("hash"))

is_corrupted == path_checksum # Text("hash")

-----------------------------------------------------------------------------
(* The repository, seen through subprocesses.                              *)

\* Outcomes of a git and of an hg command, where only a disturbed system
\* fails: timeouts, locks, a broken installation.
GitOutcomes ==
    (IF Vcs = "git" THEN {"ok"} ELSE {"not a repository"})
        \union (IF calm THEN {} ELSE {"error"})
HgOutcomes ==
    (IF Vcs = "hg" THEN {"ok"} ELSE {"error"})
        \union (IF calm THEN {} ELSE {"error"})

\* Whether standard output is returned; an exception is raised otherwise.
run_git_or_mercurial_and_return_stdout(git, hg) ==
    \/ git = "ok"
    \/ HgInstalled /\ git = "not a repository" /\ hg = "ok"

CommandSucceeds ==
    \E git \in GitOutcomes, hg \in HgOutcomes :
        run_git_or_mercurial_and_return_stdout(git, hg)
CommandFails ==
    \E git \in GitOutcomes, hg \in HgOutcomes :
        ~run_git_or_mercurial_and_return_stdout(git, hg)

-----------------------------------------------------------------------------
(* The tool.                                                               *)

Init ==
    /\ repo \in Repo
    /\ dir = << >>
    /\ pc = "idle"
    /\ exit_code = 0 /\ commit_hash = "" /\ git_diff = <<>>
    /\ libraries_exist = FALSE
    /\ libs = {}
    /\ recorded = {}
    /\ raced = FALSE /\ owed = FALSE /\ calm = FALSE

\* The build step ends: its memory is lost.
Ended ==
    /\ pc' = "idle"
    /\ exit_code' = 0 /\ commit_hash' = "" /\ git_diff' = <<>>
    /\ libraries_exist' = FALSE /\ raced' = FALSE

\* An uncaught exception: the interpreter exits with 1.
Raise ==
    /\ exit_code' = 1
    /\ pc' = "exited"

\* The build step looks for the libraries, then starts the tool.
Start ==
    /\ pc = "idle"
    /\ libraries_exist' = (libs # {})
    /\ pc' = "check"
    /\ UNCHANGED <<repo, status, libs, observed, calm>>

\* update_status begins.
BeginUpdate ==
    /\ exit_code' = 47
    /\ pc' = "read_commit"

\* is_initialized and is_corrupted, which lets stored_status_dir_hash raise.
Check ==
    /\ pc = "check"
    /\ \/ (~is_initialized \/ (is_hash(Text("hash")) /\ is_corrupted))
            /\ BeginUpdate
       \/ (is_initialized /\ ~is_hash(Text("hash"))) /\ Raise
       \/ (is_initialized /\ is_hash(Text("hash")) /\ ~is_corrupted)
            /\ pc' = "compare_commit" /\ UNCHANGED exit_code
    /\ UNCHANGED <<repo, dir, commit_hash, git_diff, build, observed, calm>>

\* is_status_the_same, first part.
CompareCommit ==
    /\ pc = "compare_commit"
    /\ \/ (~is_hash(Text("commit")) \/ CommandFails) /\ Raise
            /\ UNCHANGED commit_hash
       \/ /\ is_hash(Text("commit")) /\ CommandSucceeds
          /\ commit_hash' = repo.head
          /\ IF Text("commit") # <<repo.head>>
             THEN BeginUpdate
             ELSE pc' = "compare_diff" /\ UNCHANGED exit_code
    /\ UNCHANGED <<repo, dir, git_diff, build, observed, calm>>

\* is_status_the_same, second part.
CompareDiff ==
    /\ pc = "compare_diff"
    /\ \/ (~Exists("diff") \/ CommandFails) /\ Raise /\ UNCHANGED git_diff
       \/ /\ Exists("diff") /\ CommandSucceeds
          /\ git_diff' = repo.diff
          /\ IF Text("diff") # repo.diff
             THEN BeginUpdate
             ELSE exit_code' = 0 /\ pc' = "exited"
    /\ UNCHANGED <<repo, dir, commit_hash, build, observed, calm>>

ReadCommit ==
    /\ pc = "read_commit"
    /\ \/ CommandFails /\ Raise /\ UNCHANGED commit_hash
       \/ /\ CommandSucceeds
          /\ commit_hash' = repo.head
          /\ pc' = "read_diff"
          /\ UNCHANGED exit_code
    /\ UNCHANGED <<repo, dir, git_diff, build, observed, calm>>

ReadDiff ==
    /\ pc = "read_diff"
    /\ \/ CommandFails /\ Raise /\ UNCHANGED git_diff
       \/ /\ CommandSucceeds
          /\ git_diff' = repo.diff
          /\ pc' = "write_commit"
          /\ UNCHANGED exit_code
    /\ UNCHANGED <<repo, dir, commit_hash, build, observed, calm>>

WriteCommit ==
    /\ pc = "write_commit"
    /\ dir' = Written("commit", <<commit_hash>>)
    /\ pc' = "write_diff"
    /\ UNCHANGED <<repo, exit_code, commit_hash, git_diff, build, observed,
                   calm>>

WriteDiff ==
    /\ pc = "write_diff"
    /\ dir' = Written("diff", git_diff)
    /\ pc' = "write_hash"
    /\ UNCHANGED <<repo, exit_code, commit_hash, git_diff, build, observed,
                   calm>>

WriteHash ==
    /\ pc = "write_hash"
    /\ dir' = Written("hash", path_checksum)
    /\ recorded' = {Read}
    /\ owed' = TRUE
    /\ pc' = "exited"
    /\ UNCHANGED <<repo, exit_code, commit_hash, git_diff, build, raced, calm>>

-----------------------------------------------------------------------------
(* The build step, after the tool has ended.                               *)

\* Fault variant: only the tool's answer counts.
NoNeedToBuild_AnyLibraries == exit_code = 0

NoNeedToBuild == libraries_exist /\ exit_code = 0

Decide ==
    /\ pc = "exited"
    /\ IF exit_code = 1 \/ NoNeedToBuild
       THEN Ended
       ELSE pc' = "build" /\ UNCHANGED local
    /\ UNCHANGED <<repo, dir, libs, recorded, owed, calm>>

Make ==
    /\ pc = "build"
    /\ Ended
    /\ \/ libs' = {repo} /\ owed' = raced
       \/ ~calm /\ UNCHANGED <<libs, owed>>
    /\ UNCHANGED <<repo, dir, recorded, calm>>

-----------------------------------------------------------------------------
(* Disturbances, until the system becomes calm.                            *)

\* The tool or the build step is killed; a file being written may be left
\* empty or complete.
Kill ==
    /\ pc # "idle" /\ ~calm
    /\ Ended
    /\ \/ UNCHANGED dir
       \/ /\ pc = "write_commit"
          /\ \E t \in {<<>>, <<commit_hash>>} : dir' = Written("commit", t)
       \/ /\ pc = "write_diff"
          /\ \E t \in {<<>>, git_diff} : dir' = Written("diff", t)
       \/ pc = "write_hash" /\ dir' = Written("hash", <<>>)
    /\ UNCHANGED <<repo, libs, recorded, owed, calm>>

\* The developer commits, checks out or edits.
Develop ==
    /\ ~calm
    /\ repo' \in Repo \ {repo}
    /\ raced' = (raced \/ pc # "idle")
    /\ UNCHANGED <<status, pc, build, recorded, owed, calm>>

\* A file of the status directory is overwritten or removed between two
\* executions.
Tamper ==
    /\ pc = "idle" /\ ~calm
    /\ \/ \E c \in Commits : dir' = Written("commit", <<c>>)
       \/ \E d \in Diffs : dir' = Written("diff", d)
       \/ \E file \in {"commit", "diff", "hash"} :
            \/ dir' = Written(file, Garbage)
            \/ dir' = [f \in DOMAIN dir \ {file} |-> dir[f]]
    /\ UNCHANGED <<repo, exit_code, commit_hash, git_diff, pc, build, observed,
                   calm>>

\* make clean
RemoveLibraries ==
    /\ pc = "idle" /\ ~calm
    /\ libs' = {}
    /\ UNCHANGED <<repo, status, pc, libraries_exist, observed, calm>>

CalmDown ==
    /\ ~calm
    /\ calm' = TRUE
    /\ UNCHANGED <<repo, status, pc, build, observed>>

-----------------------------------------------------------------------------
Script ==
    \/ Start \/ Check \/ CompareCommit \/ CompareDiff
    \/ ReadCommit \/ ReadDiff \/ WriteCommit \/ WriteDiff \/ WriteHash
    \/ Decide \/ Make

Next ==
    \/ Script
    \/ Kill \/ Develop \/ Tamper \/ RemoveLibraries \/ CalmDown

\* The build system runs the build step again and again (BUILD_ALWAYS).
Spec == Init /\ [][Next]_vars /\ WF_vars(Script)

-----------------------------------------------------------------------------
(* Properties.                                                             *)

\* The tool answers "has not changed" only when commit and changes, as it read
\* them, are those that the last execution to answer "changed" recorded:
\* whatever was killed half-way or overwritten in between is noticed.
UnchangedIsRecorded ==
    pc = "exited" /\ exit_code = 0 => recorded = {Read}

\* When the build step finds "No need to build itcoin-core", the libraries are
\* built from the state it has compared, unless the build that the last answer
\* "changed" asked for did not complete or the repository was changed during
\* it: the status is stored before the build.
NoNeedMeansFresh ==
    pc = "exited" /\ NoNeedToBuild /\ ~owed => libs = {Read}

\* No interruption, damage or change wedges the tool: once the system is calm
\* it answers 0 and never an exception any more.
Settles == calm ~> [](pc = "exited" => exit_code = 0)
=============================================================================
