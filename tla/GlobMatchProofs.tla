---------------------------- MODULE GlobMatchProofs ----------------------------
(***************************************************************************)
(* The glob loop is right for every alphabet, pattern and name: it says    *)
(* TRUE exactly when the pattern can be laid along the name.               *)
(***************************************************************************)
EXTENDS GlobMatch, TLAPS

(* The positions of the loop never leave the pattern and the name, so no   *)
(* step of it indexes out of range.                                        *)
InRange == TypeOK /\ Positions

LEMMA InitInRange == Init => InRange
<1> SUFFICES ASSUME Init PROVE InRange
    OBVIOUS
<1>1. pattern \in Seq(Char) /\ name \in Seq(Char)
    BY CharAssumption DEF CharAssumption, Init
<1>2. Len(pattern) \in Nat /\ Len(name) \in Nat
    BY <1>1
<1>3. p \in 0 .. PatternEnd /\ n \in 0 .. NameEnd /\ mark \in 0 .. NameEnd
    BY <1>2 DEF Init, PatternEnd, NameEnd
<1>4. star \in -1 .. PatternEnd - 1
    BY <1>2 DEF Init, PatternEnd
<1>5. pc \in {"match", "done"} /\ result \in BOOLEAN /\ Positions
    BY DEF Init, Positions
<1> QED
    BY <1>1, <1>3, <1>4, <1>5 DEF InRange, TypeOK

LEMMA NextInRange == InRange /\ [Next]_vars => InRange'
<1> SUFFICES ASSUME InRange, [Next]_vars PROVE InRange'
    OBVIOUS
<1> USE DEF InRange, TypeOK, Positions, PatternEnd, NameEnd, InName, AtStar, AtSameChar, arguments
<1>1. CASE TakeStar
    BY <1>1 DEF TakeStar
<1>2. CASE TakeChar
    BY <1>2 DEF TakeChar
<1>3. CASE Backtrack
    BY <1>3 DEF Backtrack
<1>4. CASE Reject
    BY <1>4 DEF Reject
<1>5. CASE SkipStar
    BY <1>5 DEF SkipStar
<1>6. CASE Answer
    BY <1>6 DEF Answer
<1>7. CASE UNCHANGED vars
    BY <1>7 DEF vars
<1> QED
    BY <1>1, <1>2, <1>3, <1>4, <1>5, <1>6, <1>7 DEF Next

(* The positions of DocumentationPattern.Matches stay in range.            *)
THEOREM StaysInRange == Spec => []TypeOK
<1>1. InRange => TypeOK
    BY DEF InRange
<1> QED
    BY <1>1, InitInRange, NextInRange, PTL DEF Spec

------------------------------------------------------------------------------
(* A layout can be made one character longer.                              *)
LEMMA LayoutExtends ==
  ASSUME InRange, NEW k \in 0 .. PatternEnd - 1, NEW m \in 0 .. NameEnd,
         NEW at \in [0 .. k -> 0 .. NameEnd], LaidAlong(at, k),
         IF pattern[k + 1] = Star
           THEN at[k] <= m
           ELSE m = at[k] + 1 /\ pattern[k + 1] = name[m]
  PROVE  \E longer \in [0 .. k + 1 -> 0 .. NameEnd] :
           LaidAlong(longer, k + 1) /\ longer[k + 1] = m
<1> DEFINE longer == [i \in 0 .. k + 1 |-> IF i <= k THEN at[i] ELSE m]
<1>1. PatternEnd \in Nat /\ NameEnd \in Nat
    BY DEF InRange, TypeOK, PatternEnd, NameEnd
<1>2. \A i \in 0 .. k : longer[i] = at[i]
    BY <1>1
<1>3. longer[k + 1] = m
    BY <1>1
<1>4. longer \in [0 .. k + 1 -> 0 .. NameEnd]
    BY <1>1
<1> HIDE DEF longer
<1>5. \A i \in 0 .. k - 1 : longer[i] = at[i] /\ longer[i + 1] = at[i + 1]
    BY <1>1, <1>2
<1>6. \A i \in 0 .. k : i = k \/ i \in 0 .. k - 1
    BY <1>1
<1>7. \A i \in 0 .. k :
        IF pattern[i + 1] = Star
          THEN longer[i] <= longer[i + 1]
          ELSE longer[i + 1] = longer[i] + 1 /\ pattern[i + 1] = name[longer[i + 1]]
  <2> TAKE i \in 0 .. k
  <2>1. CASE i = k
      BY <2>1, <1>1, <1>2, <1>3
  <2>2. CASE i \in 0 .. k - 1
      BY <2>2, <1>5 DEF LaidAlong
  <2> QED
      BY <2>1, <2>2, <1>6
<1>8. longer[0] = 0
    BY <1>1, <1>2 DEF LaidAlong
<1>9. 0 .. (k + 1) - 1 = 0 .. k
    BY <1>1
<1> QED
    BY <1>3, <1>4, <1>7, <1>8, <1>9 DEF LaidAlong

(* The meaning of a pattern is about the arguments alone.                  *)
LEMMA LayoutsStay ==
  ASSUME UNCHANGED arguments
  PROVE  /\ PatternEnd' = PatternEnd /\ NameEnd' = NameEnd
         /\ \A k, at : LaidAlong(at, k)' <=> LaidAlong(at, k)
  BY DEF arguments, PatternEnd, NameEnd, LaidAlong

------------------------------------------------------------------------------
(* When TRUE is right.                                                     *)
LEMMA InitIsLaid == Init => PassedIsLaid
<1> SUFFICES ASSUME Init PROVE PassedIsLaid
    OBVIOUS
<1> DEFINE empty == [i \in 0 .. 0 |-> 0]
<1>1. NameEnd \in Nat
    BY InitInRange DEF InRange, TypeOK, NameEnd
<1>2. empty \in [0 .. 0 -> 0 .. NameEnd] /\ empty[0] = 0
    BY <1>1
<1>3. 0 .. 0 - 1 = {}
    OBVIOUS
<1> HIDE DEF empty
<1>4. LaidAlong(empty, 0)
    BY <1>2, <1>3 DEF LaidAlong
<1> QED
    BY <1>2, <1>4 DEF Init, PassedIsLaid

LEMMA NextIsLaid == InRange /\ InRange' /\ PassedIsLaid /\ [Next]_vars => PassedIsLaid'
<1> SUFFICES ASSUME InRange, InRange', PassedIsLaid, [Next]_vars, pc' = "match"
             PROVE  PassedIsLaid'
    BY DEF PassedIsLaid
<1>1. UNCHANGED arguments /\ pc = "match"
    BY DEF Next, vars, arguments, TakeStar, TakeChar, Backtrack, Reject, SkipStar, Answer, InName
<1>2. /\ PatternEnd' = PatternEnd /\ NameEnd' = NameEnd /\ pattern' = pattern
      /\ \A k, at : LaidAlong(at, k)' <=> LaidAlong(at, k)
    BY <1>1, LayoutsStay DEF arguments
<1> DEFINE Laid(k, m) == \E at \in [0 .. k -> 0 .. NameEnd] : LaidAlong(at, k) /\ at[k] = m
           LaidBy(k, m) == \E at \in [0 .. k -> 0 .. NameEnd] : LaidAlong(at, k) /\ at[k] <= m
<1>3. SUFFICES /\ Laid(p', n')
               /\ star' # -1 => pattern[star' + 1] = Star /\ LaidBy(star', mark')
    BY <1>2 DEF PassedIsLaid
<1>4. /\ Laid(p, n)
      /\ star # -1 => pattern[star + 1] = Star /\ LaidBy(star, mark)
    BY <1>1 DEF PassedIsLaid
<1>5. /\ p \in 0 .. PatternEnd /\ n \in 0 .. NameEnd /\ mark \in 0 .. NameEnd
      /\ star \in -1 .. PatternEnd - 1
      /\ mark' \in 0 .. NameEnd
      /\ PatternEnd \in Nat /\ NameEnd \in Nat
    BY <1>2 DEF InRange, TypeOK, PatternEnd, NameEnd
<1>6. \A k \in 0 .. PatternEnd - 1 : \A m, l \in 0 .. NameEnd :
        pattern[k + 1] = Star /\ m <= l /\ LaidBy(k, m) => Laid(k + 1, l)
  <2> SUFFICES ASSUME NEW k \in 0 .. PatternEnd - 1, NEW m \in 0 .. NameEnd, NEW l \in 0 .. NameEnd,
                      pattern[k + 1] = Star, m <= l,
                      NEW at \in [0 .. k -> 0 .. NameEnd], LaidAlong(at, k), at[k] <= m
               PROVE  Laid(k + 1, l)
      OBVIOUS
  <2>1. at[k] <= l
      BY <1>5
  <2> QED
      BY <2>1, LayoutExtends
<1>7. \A k, m : k \in 0 .. PatternEnd /\ m \in 0 .. NameEnd /\ Laid(k, m) => LaidBy(k, m)
    BY <1>5
<1>8. CASE TakeStar
  <2>1. p \in 0 .. PatternEnd - 1 /\ pattern[p + 1] = Star
      BY <1>5, <1>8 DEF TakeStar, AtStar
  <2>2. LaidBy(p, n) /\ n <= n
      BY <1>4, <1>5, <1>7
  <2>3. Laid(p + 1, n)
    <3> HIDE DEF Laid, LaidBy
    <3> QED
        BY <1>5, <1>6, <2>1, <2>2
  <2> QED
      BY <1>8, <2>1, <2>2, <2>3 DEF TakeStar
<1>9. CASE TakeChar
  <2>1. /\ p \in 0 .. PatternEnd - 1 /\ n + 1 \in 0 .. NameEnd
        /\ pattern[p + 1] # Star /\ pattern[p + 1] = name[n + 1]
      BY <1>5, <1>9 DEF TakeChar, AtStar, AtSameChar, InName
  <2>2. PICK at \in [0 .. p -> 0 .. NameEnd] : LaidAlong(at, p) /\ at[p] = n
      BY <1>4
  <2>3. Laid(p + 1, n + 1)
      BY <2>1, <2>2, LayoutExtends
  <2> QED
      BY <1>4, <1>9, <2>3 DEF TakeChar
<1>10. CASE Backtrack
  <2>1. star \in 0 .. PatternEnd - 1 /\ mark + 1 \in 0 .. NameEnd /\ mark <= mark + 1
      BY <1>5, <1>10 DEF Backtrack
  <2>2. Laid(star + 1, mark + 1)
      BY <1>4, <1>5, <1>6, <1>10, <2>1 DEF Backtrack
  <2>3. LaidBy(star, mark + 1)
    <3>1. PICK at \in [0 .. star -> 0 .. NameEnd] : LaidAlong(at, star) /\ at[star] <= mark
        BY <1>4, <1>10 DEF Backtrack
    <3>2. at[star] <= mark + 1
        BY <3>1, <2>1, <1>5
    <3> QED
        BY <3>1, <3>2
  <2> QED
      BY <1>4, <1>10, <2>2, <2>3 DEF Backtrack
<1>11. CASE SkipStar
  <2>1. p \in 0 .. PatternEnd - 1 /\ pattern[p + 1] = Star
      BY <1>5, <1>11 DEF SkipStar, AtStar
  <2>2. LaidBy(p, n) /\ n <= n
      BY <1>4, <1>5, <1>7
  <2>3. Laid(p + 1, n)
    <3> HIDE DEF Laid, LaidBy
    <3> QED
        BY <1>5, <1>6, <2>1, <2>2
  <2> QED
      BY <1>4, <1>11, <2>3 DEF SkipStar
<1>12. CASE UNCHANGED vars
    BY <1>4, <1>12 DEF vars
<1>13. ~Reject /\ ~Answer
    BY DEF Reject, Answer
<1> QED
    BY <1>8, <1>9, <1>10, <1>11, <1>12, <1>13 DEF Next

------------------------------------------------------------------------------
(* When FALSE is right.                                                    *)
FullLayout(at) ==
  /\ at \in [0 .. PatternEnd -> 0 .. NameEnd]
  /\ LaidAlong(at, PatternEnd)
  /\ at[PatternEnd] = NameEnd

(* What one character of the pattern allows, with the types at hand.       *)
LEMMA LayoutStep ==
  ASSUME InRange, NEW at, FullLayout(at), NEW i \in 0 .. PatternEnd - 1
  PROVE  /\ i + 1 \in 0 .. PatternEnd
         /\ at[i] \in 0 .. NameEnd /\ at[i + 1] \in 0 .. NameEnd
         /\ pattern[i + 1] = Star => at[i] <= at[i + 1]
         /\ pattern[i + 1] # Star =>
              at[i + 1] = at[i] + 1 /\ pattern[i + 1] = name[at[i] + 1]
<1>1. PatternEnd \in Nat /\ NameEnd \in Nat
    BY DEF InRange, TypeOK, PatternEnd, NameEnd
<1>2. i + 1 \in 0 .. PatternEnd /\ i \in 0 .. PatternEnd
    BY <1>1
<1> QED
    BY <1>1, <1>2 DEF FullLayout, LaidAlong

LEMMA InitMissesNothing == Init => NothingIsMissed
  BY DEF Init, NothingIsMissed, LaidAlong

(* What is known of a full layout while the loop runs.                     *)
LEMMA LayoutSoFar ==
  ASSUME InRange, NothingIsMissed, pc = "match", NEW at, FullLayout(at)
  PROVE  /\ at[p] \in 0 .. NameEnd /\ n <= at[p]
         /\ star = -1 => at[p] = n
         /\ star # -1 => /\ at[star + 1] \in 0 .. NameEnd
                         /\ mark <= at[star + 1]
                         /\ at[p] - at[star + 1] = n - mark
<1>1. /\ p \in 0 .. PatternEnd /\ n \in 0 .. NameEnd /\ mark \in 0 .. NameEnd
      /\ star \in -1 .. PatternEnd - 1
      /\ PatternEnd \in Nat /\ NameEnd \in Nat
    BY DEF InRange, TypeOK, PatternEnd, NameEnd
<1>2. IF star = -1
        THEN at[p] = n
        ELSE mark <= at[star + 1] /\ at[p] - at[star + 1] = n - mark
    BY DEF NothingIsMissed, FullLayout
<1>3. at[p] \in 0 .. NameEnd
    BY <1>1 DEF FullLayout
<1>4. CASE star = -1
    BY <1>1, <1>2, <1>3, <1>4
<1>5. CASE star # -1
  <2>1. star \in 0 .. PatternEnd - 1
      BY <1>1, <1>5
  <2>2. at[star + 1] \in 0 .. NameEnd
      BY <2>1, LayoutStep
  <2> QED
      BY <1>1, <1>2, <1>3, <1>5, <2>2
<1> QED
    BY <1>4, <1>5

(* Where the loop is stuck before the end of the name, no layout is.       *)
LEMMA NoLayoutHere ==
  ASSUME InRange, InName, ~AtStar, ~AtSameChar, NEW at, FullLayout(at)
  PROVE  at[p] # n
<1> SUFFICES ASSUME at[p] = n PROVE FALSE
    OBVIOUS
<1>1. p # PatternEnd
    BY DEF FullLayout, InName, InRange, TypeOK
<1>2. p \in 0 .. PatternEnd - 1 /\ pattern[p + 1] # Star /\ pattern[p + 1] # name[n + 1]
    BY <1>1 DEF AtStar, AtSameChar, InRange, TypeOK, PatternEnd
<1> QED
    BY <1>2, LayoutStep

LEMMA NextMissesNothing ==
  InRange /\ NothingIsMissed /\ [Next]_vars => NothingIsMissed'
<1> SUFFICES ASSUME InRange, NothingIsMissed, [Next]_vars, pc' = "match"
             PROVE  NothingIsMissed'
    BY DEF NothingIsMissed
<1>1. UNCHANGED arguments /\ pc = "match"
    BY DEF Next, vars, arguments, TakeStar, TakeChar, Backtrack, Reject, SkipStar, Answer, InName
<1>2. /\ PatternEnd' = PatternEnd /\ NameEnd' = NameEnd
      /\ \A k, at : LaidAlong(at, k)' <=> LaidAlong(at, k)
    BY <1>1, LayoutsStay
<1> SUFFICES ASSUME NEW at, FullLayout(at)
             PROVE  IF star' = -1
                      THEN at[p'] = n'
                      ELSE mark' <= at[star' + 1] /\ at[p'] - at[star' + 1] = n' - mark'
    BY <1>2 DEF NothingIsMissed, FullLayout
<1>3. /\ p \in 0 .. PatternEnd /\ n \in 0 .. NameEnd /\ mark \in 0 .. NameEnd
      /\ star \in -1 .. PatternEnd - 1
      /\ PatternEnd \in Nat /\ NameEnd \in Nat
    BY DEF InRange, TypeOK, PatternEnd, NameEnd
<1>4. /\ at[p] \in 0 .. NameEnd /\ n <= at[p]
      /\ star = -1 => at[p] = n
      /\ star # -1 => /\ at[star + 1] \in 0 .. NameEnd
                      /\ mark <= at[star + 1]
                      /\ at[p] - at[star + 1] = n - mark
    BY <1>1, LayoutSoFar
<1>5. CASE TakeStar
  <2>1. p \in 0 .. PatternEnd - 1 /\ pattern[p + 1] = Star
      BY <1>3, <1>5 DEF TakeStar, AtStar
  <2>2. at[p] <= at[p + 1] /\ at[p + 1] \in 0 .. NameEnd
      BY <2>1, LayoutStep
  <2> QED
      BY <1>3, <1>4, <1>5, <2>1, <2>2 DEF TakeStar
<1>6. CASE TakeChar
  <2>1. p \in 0 .. PatternEnd - 1 /\ pattern[p + 1] # Star
      BY <1>3, <1>6 DEF TakeChar, AtStar, AtSameChar
  <2>2. at[p + 1] = at[p] + 1
      BY <2>1, LayoutStep
  <2> QED
      BY <1>3, <1>4, <1>6, <2>2 DEF TakeChar
<1>7. CASE Backtrack
  <2>1. star # -1 /\ at[p] # n
      BY <1>7, NoLayoutHere DEF Backtrack
  <2>2. mark + 1 <= at[star + 1]
      BY <1>3, <1>4, <2>1
  <2> QED
      BY <1>3, <1>4, <1>7, <2>1, <2>2 DEF Backtrack
<1>8. CASE SkipStar
  <2>1. p \in 0 .. PatternEnd - 1 /\ pattern[p + 1] = Star /\ n = NameEnd
      BY <1>3, <1>8 DEF SkipStar, AtStar
  <2>2. at[p] <= at[p + 1] /\ at[p + 1] \in 0 .. NameEnd
      BY <2>1, LayoutStep
  <2>3. at[p + 1] = at[p]
      BY <1>3, <1>4, <2>1, <2>2
  <2> QED
      BY <1>4, <1>8, <2>3 DEF SkipStar
<1>9. CASE UNCHANGED vars
    BY <1>4, <1>9 DEF vars
<1>10. ~Reject /\ ~Answer
    BY DEF Reject, Answer
<1> QED
    BY <1>5, <1>6, <1>7, <1>8, <1>9, <1>10 DEF Next

------------------------------------------------------------------------------
LEMMA AnswerIsRight ==
  InRange /\ PassedIsLaid /\ NothingIsMissed /\ MatchesMeaning /\ [Next]_vars => MatchesMeaning'
<1> SUFFICES ASSUME InRange, PassedIsLaid, NothingIsMissed, MatchesMeaning, [Next]_vars, pc' = "done"
             PROVE  result' <=> IsMatch'
    BY DEF MatchesMeaning
<1>1. UNCHANGED arguments
    BY DEF Next, vars, arguments, TakeStar, TakeChar, Backtrack, Reject, SkipStar, Answer
<1>2. IsMatch' <=> IsMatch
    BY <1>1, LayoutsStay DEF IsMatch
<1>3. IsMatch <=> \E at : FullLayout(at)
    BY DEF IsMatch, FullLayout
<1>4. CASE Reject
  <2>1. \A at : ~FullLayout(at)
    <3> SUFFICES ASSUME NEW at, FullLayout(at) PROVE FALSE
        OBVIOUS
    <3>1. at[p] = n
        BY <1>4, LayoutSoFar DEF Reject, InName
    <3> QED
        BY <1>4, <3>1, NoLayoutHere DEF Reject
  <2> QED
      BY <1>2, <1>3, <1>4, <2>1 DEF Reject
<1>5. CASE Answer
  <2>1. CASE p = PatternEnd
    <3>1. \E at : FullLayout(at)
        BY <1>5, <2>1 DEF Answer, PassedIsLaid, FullLayout
    <3> QED
        BY <1>2, <1>3, <1>5, <2>1, <3>1 DEF Answer
  <2>2. CASE p # PatternEnd
    <3>1. /\ p \in 0 .. PatternEnd - 1 /\ pattern[p + 1] # Star
          /\ NameEnd \in Nat
        BY <1>5, <2>2 DEF Answer, AtStar, InRange, TypeOK, PatternEnd, NameEnd
    <3>2. \A at : ~FullLayout(at)
      <4> SUFFICES ASSUME NEW at, FullLayout(at) PROVE FALSE
          OBVIOUS
      <4>1. at[p] \in 0 .. NameEnd /\ NameEnd <= at[p]
          BY <1>5, LayoutSoFar DEF Answer
      <4>2. at[p + 1] = at[p] + 1 /\ at[p + 1] \in 0 .. NameEnd
          BY <3>1, LayoutStep
      <4> QED
          BY <3>1, <4>1, <4>2
    <3> QED
        BY <1>2, <1>3, <1>5, <2>2, <3>2 DEF Answer
  <2> QED
      BY <2>1, <2>2
<1>6. CASE UNCHANGED vars
    BY <1>2, <1>6 DEF vars, MatchesMeaning
<1>7. ~TakeStar /\ ~TakeChar /\ ~Backtrack /\ ~SkipStar
    BY DEF TakeStar, TakeChar, Backtrack, SkipStar, InName
<1> QED
    BY <1>4, <1>5, <1>6, <1>7 DEF Next

(* DocumentationPattern.Matches answers TRUE exactly when the pattern can  *)
(* be laid along the name, for every alphabet, pattern and name.           *)
THEOREM MatchesIsRight == Spec => []MatchesMeaning
<1> DEFINE Inv == InRange /\ PassedIsLaid /\ NothingIsMissed /\ MatchesMeaning
<1>1. Init => MatchesMeaning
    BY DEF Init, MatchesMeaning
<1>2. Init => Inv
    BY <1>1, InitInRange, InitIsLaid, InitMissesNothing
<1>3. Inv /\ [Next]_vars => Inv'
    BY NextInRange, NextIsLaid, NextMissesNothing, AnswerIsRight
<1>4. Inv => MatchesMeaning
    OBVIOUS
<1> HIDE DEF Inv
<1> QED
    BY <1>2, <1>3, <1>4, PTL DEF Spec
------------------------------------------------------------------------------
(* Every step of the loop gets somewhere.                                  *)
LEMMA StepAdvances == InRange /\ [Next]_vars => [Advances]_vars
<1> SUFFICES ASSUME InRange, Next PROVE Advances
    OBVIOUS
<1> USE DEF InRange, TypeOK, Positions, PatternEnd, NameEnd, InName, AtStar, arguments, Advances
(* The star it takes is behind the last one, which was passed.             *)
<1>1. CASE TakeStar
  <2>1. star < p
      BY <1>1 DEF TakeStar
  <2> QED
      BY <1>1, <2>1 DEF TakeStar
<1>2. CASE TakeChar \/ SkipStar
    BY <1>2 DEF TakeChar, SkipStar
(* It goes back in the pattern and the name, but not to where it was.      *)
<1>3. CASE Backtrack
    BY <1>3 DEF Backtrack
<1>4. CASE Reject \/ Answer
    BY <1>4 DEF Reject, Answer
<1> QED
    BY <1>1, <1>2, <1>3, <1>4 DEF Next

(* The loop of DocumentationPattern.Matches never repeats itself: with the *)
(* bounds of TypeOK, which is why it ends for every pattern and name.      *)
THEOREM LoopAdvances == Spec => EveryStepAdvances
<1>1. InRange /\ [Next]_vars => [Advances]_vars
    BY StepAdvances
<1> QED
    BY <1>1, InitInRange, NextInRange, PTL DEF Spec, EveryStepAdvances
==============================================================================
