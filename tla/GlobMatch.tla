------------------------------- MODULE GlobMatch -------------------------------
(***************************************************************************)
(* DocumentationPattern.Matches: whether a name matches an alias of a      *)
(* documentation file, where "*" stands for any run of characters.  The    *)
(* loop keeps two positions and, for backtracking, the place of the last   *)
(* star and the position in the name that the star was last tried up to.   *)
(*                                                                         *)
(* Positions count from 0, as in the code: the character at position k is  *)
(* name[k + 1].                                                            *)
(***************************************************************************)
EXTENDS Integers, Sequences

CONSTANTS
  Char,         \* characters
  Star,         \* "*"
  Patterns,     \* the patterns to match
  Names         \* the names to match them with

ASSUME CharAssumption ==
  /\ Patterns \subseteq Seq(Char)
  /\ Names \subseteq Seq(Char)

VARIABLES pattern, name, p, n, star, mark, pc, result

vars == <<pattern, name, p, n, star, mark, pc, result>>
arguments == <<pattern, name>>

PatternEnd == Len(pattern)
NameEnd == Len(name)

TypeOK ==
  /\ pattern \in Seq(Char)
  /\ name \in Seq(Char)
  /\ p \in 0 .. PatternEnd
  /\ n \in 0 .. NameEnd
  /\ star \in -1 .. PatternEnd - 1
  /\ mark \in 0 .. NameEnd
  /\ pc \in {"match", "done"}
  /\ result \in BOOLEAN

Init ==
  /\ pattern \in Patterns
  /\ name \in Names
  /\ p = 0
  /\ n = 0
  /\ star = -1
  /\ mark = 0
  /\ pc = "match"
  /\ result = FALSE

AtStar == p < PatternEnd /\ pattern[p + 1] = Star

AtSameChar == p < PatternEnd /\ pattern[p + 1] = name[n + 1]

(* The loop over the name. *)
InName == pc = "match" /\ n < NameEnd

(* Mutant: a star takes at least one character.                            *)
MutantTakeStar ==
  /\ InName
  /\ AtStar
  /\ star' = p
  /\ mark' = n + 1
  /\ p' = p + 1
  /\ UNCHANGED <<arguments, n, pc, result>>

(* A star begins with the empty run. *)
TakeStar ==
  /\ InName
  /\ AtStar
  /\ star' = p
  /\ mark' = n
  /\ p' = p + 1
  /\ UNCHANGED <<arguments, n, pc, result>>

TakeChar ==
  /\ InName
  /\ ~AtStar
  /\ AtSameChar
  /\ p' = p + 1
  /\ n' = n + 1
  /\ UNCHANGED <<arguments, star, mark, pc, result>>

(* Mutant: the star is tried with the same run again.                      *)
MutantBacktrack ==
  /\ InName
  /\ ~AtStar /\ ~AtSameChar
  /\ star # -1
  /\ p' = star + 1
  /\ n' = mark
  /\ UNCHANGED <<arguments, star, mark, pc, result>>

(* The last star takes one character more, and matching goes on behind it. *)
Backtrack ==
  /\ InName
  /\ ~AtStar /\ ~AtSameChar
  /\ star # -1
  /\ p' = star + 1
  /\ mark' = mark + 1
  /\ n' = mark'
  /\ UNCHANGED <<arguments, star, pc, result>>

Reject ==
  /\ InName
  /\ ~AtStar /\ ~AtSameChar
  /\ star = -1
  /\ result' = FALSE
  /\ pc' = "done"
  /\ UNCHANGED <<arguments, p, n, star, mark>>

(* The name is used up: stars that are left take nothing.                  *)
SkipStar ==
  /\ pc = "match" /\ n = NameEnd
  /\ AtStar
  /\ p' = p + 1
  /\ UNCHANGED <<arguments, n, star, mark, pc, result>>

(* Mutant: a name that is a beginning of a match will do.                  *)
MutantAnswer ==
  /\ pc = "match" /\ n = NameEnd
  /\ ~AtStar
  /\ result' = TRUE
  /\ pc' = "done"
  /\ UNCHANGED <<arguments, p, n, star, mark>>

Answer ==
  /\ pc = "match" /\ n = NameEnd
  /\ ~AtStar
  /\ result' = (p = PatternEnd)
  /\ pc' = "done"
  /\ UNCHANGED <<arguments, p, n, star, mark>>

Next == TakeStar \/ TakeChar \/ Backtrack \/ Reject \/ SkipStar \/ Answer

Spec == Init /\ [][Next]_vars

(* The method is sequential code: it takes its next step.                  *)
FairSpec == Spec /\ WF_vars(Next)

------------------------------------------------------------------------------
(* What a pattern means, without a loop: the first k characters of the     *)
(* pattern can be laid along the name so that it ends at some position of  *)
(* the name; a star is as long as it likes, any other character one.       *)
LaidAlong(at, k) ==
  /\ at \in [0 .. k -> 0 .. NameEnd]
  /\ at[0] = 0
  /\ \A i \in 0 .. k - 1 :
       IF pattern[i + 1] = Star
         THEN at[i] <= at[i + 1]
         ELSE at[i + 1] = at[i] + 1 /\ pattern[i + 1] = name[at[i + 1]]

IsMatch ==
  \E at \in [0 .. PatternEnd -> 0 .. NameEnd] :
    LaidAlong(at, PatternEnd) /\ at[PatternEnd] = NameEnd

(* Backtracking to the last star only, the loop finds a match if there is  *)
(* one, and only then.                                                     *)
MatchesMeaning == pc = "done" => (result <=> IsMatch)

(* Every step of the loop gets somewhere: to a later star, to a longer run *)
(* of the same star, further in the pattern or, at last, to the answer.    *)
(* The lengths of the two strings bound each of these, so that however     *)
(* often it backtracks it takes at most (|pattern| + 1)^2 (|name| + 1)     *)
(* steps to the answer.                                                    *)
Advances ==
  \/ star' > star
  \/ star' = star /\ mark' > mark
  \/ UNCHANGED <<star, mark>> /\ p' > p
  \/ UNCHANGED <<star, mark, p>> /\ pc = "match" /\ pc' = "done"

EveryStepAdvances == [][Advances]_vars

(* It comes to an end for every pattern and name.                          *)
Terminates == <>(pc = "done")

(* For the proof, when TRUE is right: what has been passed of the pattern  *)
(* is laid along what has been passed of the name, and there is a way to   *)
(* lay out the pattern up to the last star that ends where the star may    *)
(* begin.                                                                  *)
PassedIsLaid ==
  pc = "match" =>
    /\ \E at \in [0 .. p -> 0 .. NameEnd] : LaidAlong(at, p) /\ at[p] = n
    /\ star # -1 =>
         /\ pattern[star + 1] = Star
         /\ \E at \in [0 .. star -> 0 .. NameEnd] :
              LaidAlong(at, star) /\ at[star] <= mark

(* When FALSE is right: every way to lay out the whole pattern lets the    *)
(* last star run as far as it was tried, or further, and lays what comes   *)
(* behind the star in one piece, as it was passed.                         *)
NothingIsMissed ==
  pc = "match" =>
    \A at \in [0 .. PatternEnd -> 0 .. NameEnd] :
      LaidAlong(at, PatternEnd) /\ at[PatternEnd] = NameEnd =>
        IF star = -1
          THEN at[p] = n
          ELSE mark <= at[star + 1] /\ at[p] - at[star + 1] = n - mark

(* Where the loop is between the star it may return to and the name's end. *)
Positions ==
  pc = "match" /\ star # -1 => star < p /\ mark <= n
==============================================================================
