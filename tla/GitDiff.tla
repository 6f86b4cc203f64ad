------------------------------- MODULE GitDiff -------------------------------
(***************************************************************************)
(* What internal/diff tells the analyzer: the files that differ between    *)
(* two commits and the lines added to them.  The history is a chain of     *)
(* commits; a commit is its tree, a function from the paths it holds to    *)
(* their lines.                                                            *)
(***************************************************************************)
EXTENDS Naturals, Sequences

CONSTANT Tree   (* Tree[c]: the files of commit c, 1 being the initial one *)

ASSUME GitDiffAssumption == Len(Tree) > 0

(* References: a commit is its place in the chain.                         *)
NotGiven == 0
HEAD     == Len(Tree) + 1

HeadSHA == Len(Tree)

resolveCommit(ref) == IF ref = HEAD THEN HeadSHA ELSE ref

Known(ref) == resolveCommit(ref) \in DOMAIN Tree

(* The tree compared against: that of from, of the first parent when from  *)
(* is not given, none for the initial commit.                              *)
BaseTree(from, to) ==
  IF from # NotGiven THEN Tree[resolveCommit(from)]
  ELSE IF resolveCommit(to) > 1 THEN Tree[resolveCommit(to) - 1]
  ELSE <<>>

(* A new file's lines are its newlines plus one; of a changed file the     *)
(* lines it did not have are added.  The lines of a file are distinct and  *)
(* stay in order, so comparing them by content gives git's answer.         *)
AddedLines(old, new, f) ==
  IF f \notin DOMAIN old
    THEN 1..(Len(new[f]) + 1)
    ELSE {i \in DOMAIN new[f] : \A j \in DOMAIN old[f] : old[f][j] # new[f][i]}

(* The changed files that still exist, with the lines added to each.       *)
ChangedFiles(from, to) ==
  LET old == BaseTree(from, to)
      new == Tree[resolveCommit(to)]
  IN  [f \in {g \in DOMAIN new : g \notin DOMAIN old \/ old[g] # new[g]} |->
        AddedLines(old, new, f)]
=============================================================================
