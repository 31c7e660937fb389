------------------------------- MODULE RowLog -------------------------------
(***************************************************************************)
(* What a logger of this program promises to whoever reads its files:      *)
(* rows are submitted, each for one file, and reach it later or never.  A  *)
(* file only grows; it holds rows that were submitted for it, each once    *)
(* and in the order in which they were submitted.                          *)
(*                                                                         *)
(* Row n is the n-th row submitted.                                        *)
(***************************************************************************)
EXTENDS Naturals, Sequences

CONSTANTS
  Path,     \* the files
  MaySkip   \* whether a row may be left out of a file that holds a later one

VARIABLES
  submitted,   \* the path of each row submitted so far
  files        \* the rows in each file

logVars == <<submitted, files>>

LogInit == submitted = <<>> /\ files = [p \in Path |-> <<>>]

GoesOn(s, t) == Len(s) <= Len(t) /\ \A i \in 1..Len(s) : t[i] = s[i]

\* Rows are submitted.
Submit == GoesOn(submitted, submitted') /\ UNCHANGED files

\* Row number j of a file comes after the others that were submitted for it.
Follows(s, j, p) ==
  /\ s[j] \in 1..Len(submitted) /\ submitted[s[j]] = p
  /\ \A i \in 1..j-1 : s[i] < s[j]
  /\ MaySkip \/ \A n \in 1..s[j]-1 : submitted[n] = p => \E i \in 1..j-1 : s[i] = n

\* Rows reach their files, in one or in several of them.
Save ==
  /\ \A p \in Path :
       /\ GoesOn(files[p], files'[p])
       /\ \A j \in Len(files[p])+1 .. Len(files'[p]) : Follows(files'[p], j, p)
  /\ UNCHANGED submitted

LogNext == Submit \/ Save

LogSpec == LogInit /\ [][LogNext]_logVars
=============================================================================
