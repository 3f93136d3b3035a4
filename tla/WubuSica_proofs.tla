--------------------------- MODULE WubuSica_proofs ---------------------------
(* TLAPS proofs about WubuSica, for any repository, interval and bounds.    *)
EXTENDS WubuSica, TLAPS

LEMMA InitTypeOK == Init => TypeOK
<1> SUFFICES ASSUME Init PROVE TypeOK
  OBVIOUS
<1>1. remaining \in 0..Interval /\ begun \in 0..MaxCycles /\ edits \in 0..MaxEdits /\ 0 \in 0..MaxStarts
  BY SicaAssumption DEF Init
<1>2. head \in Contents /\ tree \in Contents /\ extra \in BOOLEAN
  BY Zenon DEF Init
<1> QED
  BY <1>1, <1>2 DEF Init, TypeOK, Schedulers

LEMMA NextTypeOK == TypeOK /\ [Next]_vars => TypeOK'
<1> SUFFICES ASSUME TypeOK, [Next]_vars PROVE TypeOK'
  OBVIOUS
<1> USE SicaAssumption DEF Schedulers
<1>1. ASSUME NEW s \in Schedulers, Start(s) PROVE TypeOK'
  BY <1>1 DEF TypeOK, Start, Goto, repoVars
<1>2. ASSUME NEW s \in Schedulers, Stop(s) PROVE TypeOK'
  BY <1>2 DEF TypeOK, Stop, repoVars
<1>3. ASSUME NEW s \in Schedulers, Loop(s) PROVE TypeOK'
  BY <1>3 DEF TypeOK, Loop, GoesOn, Goto, repoVars
<1>4. ASSUME Clean \/ UndoEdit PROVE TypeOK'
  <2>1. GitRollback /\ remaining' \in {remaining, Interval} /\ UNCHANGED <<running, boundVars>>
    BY <1>4 DEF Clean, UndoEdit
  <2>2. head' \in Contents /\ tree' \in Contents /\ extra' \in BOOLEAN
    BY <2>1, Zenon DEF TypeOK, GitRollback
  <2>3. pc' = [pc EXCEPT !["sica"] = "edit"] \/ pc' = [pc EXCEPT !["sica"] = "sleep"]
    BY <1>4 DEF Clean, UndoEdit, Step, Goto
  <2> QED
    BY <2>1, <2>2, <2>3 DEF TypeOK, boundVars
<1>5. ASSUME Edit PROVE TypeOK'
  BY <1>5 DEF TypeOK, Edit, Step, Goto, repoVars, boundVars
<1>6. ASSUME Sleep PROVE TypeOK'
  BY <1>6 DEF TypeOK, Sleep, Awake, Goto, repoVars, boundVars
<1>7. ASSUME SelfCheck \/ Nap PROVE TypeOK'
  BY <1>7 DEF TypeOK, SelfCheck, Nap, Goto, repoVars, boundVars
<1>8. ASSUME Develop PROVE TypeOK'
  <2>1. edits' \in 0..MaxEdits
    BY <1>8 DEF TypeOK, Develop
  <2>2. /\ head' \in Contents /\ tree' \in Contents
        /\ extra' \in BOOLEAN
    BY <1>8, Zenon DEF TypeOK, Develop
  <2>3. UNCHANGED <<running, pc, remaining, begun, starts, stopped>>
    BY <1>8 DEF Develop, loopVars
  <2> QED
    BY <2>1, <2>2, <2>3 DEF TypeOK
<1>9. CASE UNCHANGED vars
  BY <1>9 DEF TypeOK, vars, repoVars, loopVars, boundVars
<1> QED
  BY <1>1, <1>2, <1>3, <1>4, <1>5, <1>6, <1>7, <1>8, <1>9 DEF Next, SicaCycle

\* Whatever git, the shells and the developers do: repository, flags and steps
\* keep their shapes.
THEOREM TypeCorrect == Spec => []TypeOK
<1> QED BY InitTypeOK, NextTypeOK, PTL DEF Spec
=============================================================================
