----------------------------- MODULE GitPageStore -----------------------------
(* The vault on disk: the working tree every read goes to, git's index and    *)
(* HEAD (internal/store/git.go).  Commit is not one step: it writes a file,   *)
(* stages it, goes on to its next change, and at the end records the whole    *)
(* index, so what other calls staged meanwhile goes into the same commit.     *)
(* Each call of the git library, and of the operating system, is one step.    *)
(*                                                                            *)
(* A version is the hash of the content, so the content stands for it.        *)
EXTENDS Naturals, Sequences

CONSTANTS
  Paths,      \* repo-relative paths
  Absent      \* no file at a path

VARIABLES
  tree,       \* what List and Read see
  index,      \* what is staged
  head        \* the commit the vault is at

vault == <<tree, index, head>>

\* store.Change: Data, or Absent for Delete.
Change(path, data) == [path |-> path, data |-> data]

\* Mutants: the file leaves the disk and stays in the index, or the other way.
StageDiskRemoval(path) ==
  /\ tree' = [tree EXCEPT ![path] = Absent]
  /\ UNCHANGED index

StageIndexRemoval(path) ==
  /\ index' = [index EXCEPT ![path] = Absent]
  /\ UNCHANGED tree

\* A removal of a path that is not on disk changes nothing, and of one git
\* does not know changes the disk alone.
StageRemoval(path) ==
  IF tree[path] = Absent
  THEN UNCHANGED <<tree, index>>
  ELSE /\ tree' = [tree EXCEPT ![path] = Absent]
       /\ index' = [index EXCEPT ![path] = Absent]

WriteFile(path, data) ==
  /\ tree' = [tree EXCEPT ![path] = data]
  /\ UNCHANGED index

\* worktree.Add stages whatever lies at the path by now; it refuses a path that
\* is neither on disk nor in the index.
CanAdd(path) == tree[path] # Absent \/ index[path] # Absent

Add(path) ==
  /\ index' = [index EXCEPT ![path] = tree[path]]
  /\ UNCHANGED tree

\* The end of Commit.  With nothing staged the vault stays at its commit, and
\* the call succeeds all the same.
RecordIndex ==
  /\ head' = index
  /\ UNCHANGED <<tree, index>>

\* A write that does not go through the store: the owner's editor.
SaveInEditor(path, data) ==
  /\ tree' = [tree EXCEPT ![path] = data]
  /\ UNCHANGED <<index, head>>

===============================================================================
