-------------------------- MODULE AgentListsProofs --------------------------
(***************************************************************************)
(* Proofs about AgentLists: what its answers say is true, they leave nobody *)
(* out, and only agents without a client end the list of pods.              *)
(***************************************************************************)
EXTENDS AgentLists, TLAPS

USE ListsAssumption

\* Every variable keeps its type.
LEMMA TypeInductive == ASSUME TypeOK, [ListsNext]_vars PROVE TypeOK'
<1> USE DEF TypeOK, Goes, Continues, Comes, unheard, directoryVars, requestVars,
            historyVars, Line, Entry, Says, Verdict, Steps, Shown
<1>1. ASSUME NEW k \in {"status", "pods", "cards"}, Ask(k) PROVE TypeOK'
  <2>1. Borne \in SUBSET (Agent \X Shown)
    BY DEF Borne
  <2>2. Facts(k) \in SUBSET (Agent \X Says)
    BY DEF Facts, Recent, Callable
  <2> QED
    BY <1>1, <2>1, <2>2 DEF Ask
<1>2. ASSUME NEW a \in Agent, VisitForStatus(a) PROVE TypeOK'
  BY <1>2 DEF VisitForStatus
<1>3. ASSUME NEW a \in Agent, VisitForPods(a) PROVE TypeOK'
  BY <1>3 DEF VisitForPods
<1>4. ASSUME NEW a \in Agent, VisitPanics(a) PROVE TypeOK'
  BY <1>4 DEF VisitPanics
<1>5. ASSUME NEW a \in Agent, VisitForCards(a) PROVE TypeOK'
  BY <1>5 DEF VisitForCards
<1>6. CASE CallEnds
  BY <1>6 DEF CallEnds
<1>7. CASE RangeEnds
  BY <1>7 DEF RangeEnds
<1>8. CASE NextCard
  BY <1>8 DEF NextCard
<1>9. CASE Get \/ TakeName \/ Judge
  BY <1>9 DEF Get, Recent, TakeName, Judge
<1>10. CASE GetSkips
  BY <1>10 DEF GetSkips
<1>11. CASE Enter
  BY <1>11 DEF Enter
<1>12. CASE FillCard
  BY <1>12 DEF FillCard
<1>13. CASE CardsEnd
  BY <1>13 DEF CardsEnd
<1>14. CASE Sent
  <2>1. left' \in BOOLEAN
    BY <1>14 DEF Sent, Clears
  <2> QED
    BY <1>14, <2>1 DEF Sent, Clears
<1>20. CASE GivesUp
  <2>1. left' \in BOOLEAN
    BY <1>20 DEF GivesUp
  <2> QED
    BY <1>20, <2>1 DEF GivesUp
<1>15. ASSUME Recorded, TypeOK, fresh' \in SUBSET Agent, said' \in Says,
              UNCHANGED <<kind, step, visited, at, name, answer, left, old, failed>>,
              listed' \in SUBSET Agent, shown' \in [Agent -> Shown],
              reach' \in [Agent -> Place \cup {Undialled, Nowhere}],
              dialled' \in SUBSET Agent
       PROVE  TypeOK'
  <2>1. Borne' \in SUBSET (Agent \X Shown)
    BY <1>15 DEF Borne
  <2>2. Facts(kind)' \in SUBSET (Agent \X Says)
    BY <1>15 DEF Facts, Recent, Callable
  <2>3. bore' \in SUBSET (Agent \X Shown) /\ was' \in SUBSET (Agent \X Says)
    BY <1>15, <2>1, <2>2 DEF Recorded
  <2>4. changes' \in 0 .. MaxChanges
    BY <1>15 DEF Recorded
  <2> QED
    BY <1>15, <2>3, <2>4
<1>16. ASSUME NEW a \in Agent, Beats(a) \/ Ages(a) PROVE TypeOK'
  BY <1>15, <1>16 DEF Beats, Ages
<1>17. ASSUME NEW a \in Agent, DirectoryStep(a) PROVE TypeOK'
  <2>1. /\ listed' \in SUBSET Agent /\ shown' \in [Agent -> Shown]
        /\ reach' \in [Agent -> Place \cup {Undialled, Nowhere}]
    BY <1>17 DEF DirectoryStep, Enlist, Return, Rename, Leave, Arrive
  <2>2. dialled' \in SUBSET Agent
    BY <1>17 DEF DirectoryStep, Callable
  <2> QED
    BY <1>15, <1>17, <2>1, <2>2 DEF DirectoryStep
<1>18. CASE Restart
  <2>1. left' \in BOOLEAN
    BY <1>18 DEF Restart, Clears
  <2> QED
    BY <1>18, <2>1 DEF Restart, Reset, Clears
<1>19. CASE UNCHANGED vars
  BY <1>19 DEF vars
<1> QED
  BY <1>1, <1>2, <1>3, <1>4, <1>5, <1>6, <1>7, <1>8, <1>9, <1>10, <1>11, <1>12,
     <1>13, <1>14, <1>16, <1>17, <1>18, <1>19, <1>20
     DEF ListsNext, RequestStep, LoopStep, ReplyStep

\* The variables of the directory, the request and its history keep their types.
THEOREM TypeCorrect == ListsSpec => []TypeOK
<1>1. ListsInit => TypeOK
  <2> SUFFICES ASSUME ListsInit PROVE TypeOK
    OBVIOUS
  <2>1. left \in BOOLEAN
    BY DEF ListsInit
  <2> QED
    BY <2>1 DEF ListsInit, Init, TypeOK, Shown, Steps, Says
<1> QED
  BY <1>1, TypeInductive, PTL DEF ListsSpec
-----------------------------------------------------------------------------
(* What an answer says was true.                                           *)

\* Nothing is missing from the history of a request that is being served.
Recording == Running => Borne \subseteq bore /\ Facts(kind) \subseteq was

\* The status of an agent is being asked for.
Asking == step \in {"get", "got", "judge", "enter"}

\* What is known of the agent that is being looked at was true, too.
Knows ==
    /\ step = "cards" => kind = "cards"
    /\ step = "got" => kind = "status"
    /\ Asking => kind # "pods"
    /\ Asking /\ kind = "status" => at \in listed
    /\ Asking /\ (kind = "cards" \/ step \in {"judge", "enter"}) =>
         <<at, name>> \in bore
    /\ Asking /\ step # "get" => <<at, said>> \in was /\ said \in Verdict
    /\ step = "call" => /\ <<at, name>> \in bore
                        /\ said \in {"pods", "error"}
                        /\ said = "pods" => <<at, said>> \in was

TrueInv ==
    /\ Recording /\ Knows /\ AnswerIsTrue
    /\ step = "idle" => answer = {}

\* What changes while a request is served only adds to its history.
LEMMA TrueThroughChanges ==
    ASSUME TypeOK, TrueInv, Recorded, listed \subseteq listed',
           UNCHANGED <<kind, step, visited, at, name, answer, left, old, failed>>,
           said' # said => <<at, said'>> \in was' /\ said' \in Verdict /\ Asking
    PROVE  TrueInv'
<1> USE DEF TrueInv
<1>1. bore \subseteq bore' /\ was \subseteq was'
  BY DEF Recorded
<1>2. Recording'
  BY DEF Recording, Recorded, Running
<1>3. Knows'
  BY <1>1 DEF Knows, Asking
<1>4. AnswerIsTrue'
  BY <1>1 DEF AnswerIsTrue
<1> QED
  BY <1>2, <1>3, <1>4

\* A line more, perhaps in place of others.
LEMMA OneMoreLine ==
    ASSUME AnswerIsTrue, NEW a, NEW n, NEW s,
           answer' \subseteq answer \cup {[agent |-> a, name |-> n, says |-> s]},
           <<a, n>> \in bore, s \in Verdict \cup {"pods"} => <<a, s>> \in was,
           UNCHANGED <<bore, was>>
    PROVE  AnswerIsTrue'
<1> SUFFICES ASSUME NEW e \in answer'
             PROVE  /\ <<e.agent, e.name>> \in bore
                    /\ e.says \in Verdict \cup {"pods"} =>
                         <<e.agent, e.says>> \in was
  BY DEF AnswerIsTrue
<1>1. CASE e \in answer
  BY <1>1 DEF AnswerIsTrue
<1>2. CASE e = [agent |-> a, name |-> n, says |-> s]
  <2>1. e.agent = a /\ e.name = n /\ e.says = s
    BY <1>2
  <2> QED
    BY <2>1
<1> QED
  BY <1>1, <1>2

\* TrueInv is kept by every step.
LEMMA TrueInductive == ASSUME TypeOK, TrueInv, [ListsNext]_vars PROVE TrueInv'
<1> USE DEF TrueInv, Goes, Continues, Comes, Asking, unheard, directoryVars, historyVars
<1>0. ASSUME UNCHANGED <<listed, shown, reach, fresh, kind, bore, was>>, Running
      PROVE  Recording'
  BY <1>0 DEF Recording, Running, Borne, Facts, Recent, Callable
<1>1. ASSUME NEW k \in {"status", "pods", "cards"}, Ask(k) PROVE TrueInv'
  <2>1. Recording'
    BY <1>1 DEF Ask, Recording, Borne, Facts, Recent, Callable
  <2> QED
    BY <1>1, <2>1 DEF Ask, Knows, AnswerIsTrue
<1>2. ASSUME NEW a \in Agent, VisitForStatus(a) PROVE TrueInv'
  BY <1>0, <1>2 DEF VisitForStatus, Running, Knows, AnswerIsTrue
<1>3. ASSUME NEW a \in Agent, VisitForPods(a) PROVE TrueInv'
  <2>1. <<a, shown[a]>> \in bore
    BY <1>3 DEF VisitForPods, Recording, Running, Borne
  <2>2. reach[a] \in Place => <<a, "pods">> \in was
    BY <1>3 DEF VisitForPods, Recording, Running, Facts, Callable
  <2>3. Recording'
    BY <1>0, <1>3 DEF VisitForPods, Running
  <2> QED
    BY <1>3, <2>1, <2>2, <2>3 DEF VisitForPods, Knows, AnswerIsTrue
<1>4. ASSUME NEW a \in Agent, VisitPanics(a) PROVE TrueInv'
  BY <1>4 DEF VisitPanics, Recording, Running, Knows, AnswerIsTrue
<1>5. ASSUME NEW a \in Agent, VisitForCards(a) PROVE TrueInv'
  <2>1. <<a, shown[a]>> \in bore
    BY <1>5 DEF VisitForCards, Recording, Running, Borne
  <2>2. Recording'
    BY <1>0, <1>5 DEF VisitForCards, Running
  <2>3. AnswerIsTrue'
    <3>1. /\ answer' = answer \cup
                         {[agent |-> a, name |-> shown[a], says |-> "nothing"]}
          /\ UNCHANGED <<bore, was>>
      BY <1>5 DEF VisitForCards
    <3>2. "nothing" \notin Verdict \cup {"pods"}
      BY DEF Verdict
    <3> QED
      BY <2>1, <3>1, <3>2, OneMoreLine
  <2> QED
    BY <1>5, <2>2, <2>3 DEF VisitForCards, Knows
<1>6. CASE CallEnds
  <2>1. Recording'
    BY <1>0, <1>6 DEF CallEnds, Running
  <2>2. PICK s \in {said, "error"} : answer' = answer \cup {Line(name, s)}
    BY <1>6 DEF CallEnds
  <2>3. AnswerIsTrue'
    BY <1>6, <2>2, OneMoreLine DEF CallEnds, Knows, Line, Verdict
  <2> QED
    BY <1>6, <2>1, <2>3 DEF CallEnds, Knows
<1>7. CASE RangeEnds
  <2>1. Recording'
    BY <1>7 DEF RangeEnds, Recording, Running, Borne, Facts, Recent, Callable
  <2> QED
    BY <1>7, <2>1 DEF RangeEnds, Knows, AnswerIsTrue
<1>8. CASE NextCard
  <2>1. Recording'
    BY <1>0, <1>8 DEF NextCard, Running
  <2>2. <<at', name'>> \in bore
    BY <1>8 DEF NextCard, AnswerIsTrue
  <2> QED
    BY <1>8, <2>1, <2>2 DEF NextCard, Knows, AnswerIsTrue
<1>9. CASE Get
  <2>1. Recording'
    BY <1>0, <1>9 DEF Get, Running
  <2>2. <<at, Recent(at)>> \in was /\ Recent(at) \in Verdict
    BY <1>9 DEF Get, Recording, Running, Facts, Knows, TypeOK, Recent, Verdict
  <2> QED
    <3>1. kind # "status" => kind = "cards"
      BY <1>9 DEF Get, Knows, TypeOK
    <3>2. Knows'
      BY <1>9, <2>2, <3>1 DEF Get, Knows
    <3> QED
      BY <1>9, <2>1, <3>2 DEF Get, AnswerIsTrue
<1>10. CASE GetSkips
  <2>1. Recording'
    BY <1>0, <1>10 DEF GetSkips, Running
  <2> QED
    BY <1>10, <2>1 DEF GetSkips, Knows, AnswerIsTrue
<1>19. CASE TakeName
  <2>1. Recording'
    BY <1>0, <1>19 DEF TakeName, Running
  <2>2. <<at, shown[at]>> \in bore
    BY <1>19 DEF TakeName, Recording, Running, Borne, Knows
  <2> QED
    BY <1>19, <2>1, <2>2 DEF TakeName, Knows, AnswerIsTrue
<1>20. CASE Judge
  <2>1. Recording'
    BY <1>0, <1>20 DEF Judge, Running
  <2> QED
    BY <1>20, <2>1 DEF Judge, Knows, AnswerIsTrue
<1>21. CASE GivesUp
  <2>1. Recording'
    BY <1>0, <1>21 DEF GivesUp
  <2> QED
    BY <1>21, <2>1 DEF GivesUp, Knows, AnswerIsTrue, Running
<1>11. CASE Enter
  <2>1. Recording'
    BY <1>0, <1>11 DEF Enter, Running
  <2>2. <<at, name>> \in bore
    BY <1>11 DEF Enter, Knows
  <2>3. AnswerIsTrue'
    BY <1>11, <2>2, OneMoreLine DEF Enter, Knows, Line
  <2> QED
    BY <1>11, <2>1, <2>3 DEF Enter, Knows
<1>12. CASE FillCard
  <2>1. Recording'
    BY <1>0, <1>12 DEF FillCard, Running
  <2>2. AnswerIsTrue'
    BY <1>12, OneMoreLine DEF FillCard, Knows, Line, Verdict
  <2> QED
    BY <1>12, <2>1, <2>2 DEF FillCard, Knows
<1>13. CASE CardsEnd
  BY <1>13 DEF CardsEnd, Recording, Running, Knows, AnswerIsTrue
<1>14. CASE Sent
  BY <1>14 DEF Sent, Clears, Recording, Running, Knows, AnswerIsTrue
<1>15. ASSUME NEW a \in Agent, Beats(a) PROVE TrueInv'
  BY <1>15, TrueThroughChanges DEF Beats, requestVars
<1>22. ASSUME NEW a \in Agent, Ages(a) PROVE TrueInv'
  <2>1. ASSUME said' # said
        PROVE  <<at, said'>> \in was' /\ said' \in Verdict /\ Asking
    <3>1. /\ step \in {"got", "judge"} /\ at = a /\ said' = "offline"
          /\ a \notin fresh' /\ kind' = kind /\ Recorded
      BY <1>22, <2>1 DEF Ages
    <3>2. kind # "pods"
      BY <3>1 DEF Knows
    <3>3. <<a, "offline">> \in Facts(kind)'
      BY <3>1, <3>2 DEF Facts, Recent
    <3> QED
      BY <3>1, <3>3 DEF Recorded, Running, Verdict
  <2> QED
    BY <1>22, <2>1, TrueThroughChanges DEF Ages
<1>16. ASSUME NEW a \in Agent, DirectoryStep(a) PROVE TrueInv'
  <2>1. listed \subseteq listed'
    BY <1>16 DEF DirectoryStep, Enlist, Return, Rename, Leave, Arrive
  <2> QED
    BY <1>16, <2>1, TrueThroughChanges DEF DirectoryStep, requestVars
<1>17. CASE Restart
  BY <1>17 DEF Restart, Clears, Recording, Running, Knows, AnswerIsTrue
<1>18. CASE UNCHANGED vars
  BY <1>18 DEF vars, requestVars, historyVars, Recording, Running, Borne, Facts,
               Recent, Callable, Knows, AnswerIsTrue
<1> QED
  BY <1>1, <1>2, <1>3, <1>4, <1>5, <1>6, <1>7, <1>8, <1>9, <1>10, <1>11, <1>12,
     <1>13, <1>14, <1>15, <1>16, <1>17, <1>18, <1>19, <1>20, <1>21, <1>22
     DEF ListsNext, RequestStep, LoopStep, ReplyStep

\* Every line of an answer is about an agent that had the name and the status,
\* or could be called, since the request came: for any number of agents and
\* names, and whatever changes meanwhile.
THEOREM AnswersAreTrue == ListsSpec => []AnswerIsTrue
<1>1. ListsInit => TrueInv
  BY DEF ListsInit, TrueInv, Recording, Running, Knows, Asking, AnswerIsTrue
<1>2. TypeOK /\ TrueInv /\ [ListsNext]_vars => TrueInv'
  BY TrueInductive
<1>3. TrueInv => AnswerIsTrue
  BY DEF TrueInv
<1> QED
  BY <1>1, <1>2, <1>3, TypeCorrect, PTL DEF ListsSpec
-----------------------------------------------------------------------------
(* Nobody is left out.                                                     *)

\* The loop is at this agent, whose line comes later.
Pending(a) == (Asking \/ step = "call") /\ kind # "cards" /\ a = at

\* There is a line for the agent, or need not be one.
Covered(a) ==
    (kind = "status" => ~SharesName(a)) => \E e \in answer : e.agent = a

\* The loop is over.
Ranged ==
    step \in {"cards", "answered"} \/ (Asking /\ kind = "cards")

CompleteInv ==
    /\ step = "idle" => visited = {}
    /\ Running \/ step = "answered" =>
         \A a \in visited \ failed : Pending(a) \/ Covered(a)
    /\ Ranged => old \subseteq visited
    /\ kind # "cards" \/ step = "answered" =>
         \A e \in answer : e.says # "nothing"
    /\ step = "call" => kind = "pods"

\* What changes while a request is served takes no line away.
LEMMA CompleteThroughChanges ==
    ASSUME CompleteInv, Recorded,
           UNCHANGED <<kind, step, visited, at, name, answer, left, old, failed>>
    PROVE  CompleteInv'
<1>1. bore \subseteq bore' /\ (bore' = bore \/ Running)
  BY DEF Recorded
<1>2. \A a \in Agent : SharesName(a) => SharesName(a)'
  BY <1>1 DEF SharesName
<1>3. ASSUME NEW a, Covered(a) PROVE Covered(a)'
  BY <1>1, <1>3 DEF Covered, SharesName
<1> QED
  BY <1>3 DEF CompleteInv, Running, Ranged, Pending, Asking

\* The agents that have a line keep one when the answer changes for the agent
\* the loop is at only.
LEMMA LinesStay ==
    ASSUME UNCHANGED <<kind, bore>>,
           NEW a, Covered(a),
           \A e \in answer : e.agent = a => e \in answer'
    PROVE  Covered(a)'
  BY DEF Covered, SharesName

\* CompleteInv is kept by every step.
LEMMA CompleteInductive ==
    ASSUME TypeOK, TrueInv, CompleteInv, [ListsNext]_vars
    PROVE  CompleteInv'
<1> USE DEF CompleteInv, Goes, Continues, Comes, unheard, directoryVars,
            historyVars, Running, Ranged, Pending, Asking
<1>1. ASSUME NEW k \in {"status", "pods", "cards"}, Ask(k) PROVE CompleteInv'
  BY <1>1 DEF Ask, TrueInv
<1>2. ASSUME NEW a \in Agent, VisitForStatus(a) PROVE CompleteInv'
  <2>1. \A b : Covered(b) => Covered(b)'
    BY <1>2, LinesStay DEF VisitForStatus
  <2> QED
    BY <1>2, <2>1 DEF VisitForStatus
<1>3. ASSUME NEW a \in Agent, VisitForPods(a) PROVE CompleteInv'
  <2>1. \A b : Covered(b) => Covered(b)'
    BY <1>3, LinesStay DEF VisitForPods
  <2> QED
    BY <1>3, <2>1 DEF VisitForPods
<1>4. ASSUME NEW a \in Agent, VisitPanics(a) PROVE CompleteInv'
  BY <1>4 DEF VisitPanics
<1>5. ASSUME NEW a \in Agent, VisitForCards(a) PROVE CompleteInv'
  <2>1. \A b : Covered(b) => Covered(b)'
    BY <1>5, LinesStay DEF VisitForCards
  <2> DEFINE new == [agent |-> a, name |-> shown[a], says |-> "nothing"]
  <2>2. new \in answer' /\ new.agent = a
    BY <1>5 DEF VisitForCards
  <2>3. \E e \in answer' : e.agent = a
    BY <2>2
  <2>4. Covered(a)'
    BY <2>3 DEF Covered
  <2> QED
    BY <1>5, <2>1, <2>4 DEF VisitForCards
<1>6. ASSUME NEW i \in Agent, i = at, CallEnds PROVE CompleteInv'
  <2>1. PICK s \in {said, "error"} : answer' = answer \cup {Line(name, s)}
    BY <1>6 DEF CallEnds
  <2>2. \A b : Covered(b) => Covered(b)'
    BY <1>6, <2>1, LinesStay DEF CallEnds
  <2>3. Covered(i)'
    <3>1. Line(name, s) \in answer' /\ Line(name, s).agent = i
      BY <1>6, <2>1 DEF Line
    <3>2. \E e \in answer' : e.agent = i
      BY <3>1
    <3> QED
      BY <3>2 DEF Covered
  <2>4. \A e \in answer' : e.says # "nothing"
    BY <1>6, <2>1 DEF CallEnds, TrueInv, Knows, Line
  <2> QED
    BY <1>6, <2>2, <2>3, <2>4 DEF CallEnds
<1>7. CASE RangeEnds
  <2>1. \A b : Covered(b) => Covered(b)'
    BY <1>7, LinesStay DEF RangeEnds
  <2> QED
    BY <1>7, <2>1 DEF RangeEnds
<1>8. CASE NextCard
  <2>1. \A b : Covered(b) => Covered(b)'
    BY <1>8, LinesStay DEF NextCard
  <2> QED
    BY <1>8, <2>1 DEF NextCard, TrueInv, Knows
<1>9. CASE Get \/ TakeName \/ Judge
  <2>1. \A b : Covered(b) => Covered(b)'
    BY <1>9, LinesStay DEF Get, TakeName, Judge
  <2> QED
    BY <1>9, <2>1 DEF Get, TakeName, Judge, TrueInv, Knows
<1>18. CASE GivesUp
  <2>1. \A b : Covered(b) => Covered(b)'
    BY <1>18, LinesStay DEF GivesUp
  <2> QED
    BY <1>18, <2>1 DEF GivesUp
<1>10. CASE GetSkips
  <2>1. \A b : Covered(b) => Covered(b)'
    BY <1>10, LinesStay DEF GetSkips
  <2> QED
    BY <1>10, <2>1 DEF GetSkips
<1>11. ASSUME NEW i \in Agent, i = at, Enter PROVE CompleteInv'
  <2> DEFINE new == Line(name, said)
  <2>1. new \in answer' /\ new.agent = i /\ new.says = said
    BY <1>11 DEF Enter, Line
  <2>2. Covered(i)'
    <3>1. \E e \in answer' : e.agent = i
      BY <2>1
    <3> QED
      BY <3>1 DEF Covered
  <2>3. ASSUME NEW b \in Agent, Covered(b), b # i PROVE Covered(b)'
    <3>1. CASE SharesName(b)
      BY <1>11, <3>1 DEF Enter, Covered, SharesName
    <3>2. CASE ~SharesName(b)
      <4>1. PICK e \in answer : e.agent = b
        BY <1>11, <2>3, <3>2 DEF Enter, Covered
      <4>2. <<b, e.name>> \in bore /\ <<at, name>> \in bore
        BY <1>11, <4>1
           DEF Enter, TrueInv, AnswerIsTrue, Knows
      <4>3. e.name # name
        BY <1>11, <2>3, <3>2, <4>2 DEF Enter, SharesName, TypeOK
      <4>4. e \in answer'
        BY <1>11, <4>1, <4>3 DEF Enter
      <4> QED
        BY <4>1, <4>4 DEF Covered
    <3> QED
      BY <3>1, <3>2
  <2>4. \A e \in answer' : e.says # "nothing"
    BY <1>11 DEF Enter, Line, TrueInv, Knows, Verdict
  <2> QED
    BY <1>11, <2>2, <2>3, <2>4 DEF Enter, TypeOK
<1>12. ASSUME NEW i \in Agent, i = at, FillCard PROVE CompleteInv'
  <2> DEFINE new == Line(name, IF step = "enter" THEN said ELSE "error")
  <2>1. new \in answer' /\ new.agent = i
    BY <1>12 DEF FillCard, Line
  <2>2. Covered(i)'
    <3>1. \E e \in answer' : e.agent = i
      BY <2>1
    <3> QED
      BY <3>1 DEF Covered
  <2>3. \A b : b # i /\ Covered(b) => Covered(b)'
    <3>1. \A e \in answer : e.agent # i => e \in answer'
      BY <1>12 DEF FillCard, Line
    <3> QED
      BY <1>12, <3>1, LinesStay DEF FillCard
  <2> QED
    BY <1>12, <2>2, <2>3 DEF FillCard
<1>13. CASE CardsEnd
  <2>1. \A b : Covered(b) => Covered(b)'
    BY <1>13, LinesStay DEF CardsEnd
  <2> QED
    BY <1>13, <2>1 DEF CardsEnd, TrueInv, Knows
<1>14. CASE Sent \/ Restart
  BY <1>14 DEF Sent, Restart, Clears
<1>15. ASSUME NEW a \in Agent, Beats(a) \/ Ages(a) \/ DirectoryStep(a)
       PROVE  CompleteInv'
  BY <1>15, CompleteThroughChanges DEF Beats, Ages, DirectoryStep, requestVars
<1>16. CASE UNCHANGED vars
  BY <1>16 DEF vars, requestVars, Covered, SharesName
<1>17. CallEnds \/ Enter \/ FillCard => at \in Agent
  BY DEF CallEnds, Enter, FillCard, TypeOK
<1> QED
  BY <1>1, <1>2, <1>3, <1>4, <1>5, <1>6, <1>7, <1>8, <1>9, <1>10, <1>11, <1>12,
     <1>13, <1>14, <1>15, <1>16, <1>17, <1>18
     DEF ListsNext, RequestStep, LoopStep, ReplyStep

\* No agent that was listed all the time is left out of an answer, unless etcd
\* failed for it or it shared its name: for any number of agents and names.
THEOREM AnswersAreComplete == ListsSpec => []AnswerIsComplete
<1>1. ListsInit => TrueInv /\ CompleteInv
  BY DEF ListsInit, TrueInv, Recording, Running, Knows, AnswerIsTrue,
         CompleteInv, Ranged, Asking
<1>2. TypeOK /\ TrueInv /\ [ListsNext]_vars => TrueInv'
  BY TrueInductive
<1>3. TypeOK /\ TrueInv /\ CompleteInv /\ [ListsNext]_vars => CompleteInv'
  BY CompleteInductive
<1>4. CompleteInv => AnswerIsComplete
  BY DEF CompleteInv, AnswerIsComplete, Running, Pending, Covered, Ranged,
         Asking
<1> QED
  BY <1>1, <1>2, <1>3, <1>4, TypeCorrect, PTL DEF ListsSpec
-----------------------------------------------------------------------------
(* The panics.                                                             *)

\* An agent that had a client has one.
KeepsClient == \A a \in dialled : reach[a] # Undialled

\* KeepsClient is kept by every step.
LEMMA KeepsClientInductive ==
    ASSUME TypeOK, KeepsClient, [ListsNext]_vars PROVE KeepsClient'
<1> USE DEF KeepsClient, unheard, directoryVars, historyVars
<1>1. ASSUME UNCHANGED <<reach, dialled>> PROVE KeepsClient'
  BY <1>1
<1>2. ASSUME NEW a \in Agent, DirectoryStep(a) PROVE KeepsClient'
  <2>1. \A b \in Agent : reach[b] # Undialled => reach'[b] # Undialled
    BY <1>2 DEF DirectoryStep, Enlist, Return, Rename, Leave, Arrive, TypeOK
  <2>2. dialled' = dialled \cup {b \in Agent : reach'[b] \in Place}
    BY <1>2 DEF DirectoryStep, Callable
  <2> QED
    BY <2>1, <2>2 DEF TypeOK
<1>3. CASE Restart
  BY <1>3 DEF Restart
<1>4. ASSUME RequestStep \/ \E k \in {"status", "pods", "cards"} : Ask(k)
      PROVE  UNCHANGED <<reach, dialled>>
  BY <1>4 DEF RequestStep, LoopStep, ReplyStep, TakeName, Judge, Ask, VisitForStatus, VisitForPods, VisitPanics,
              VisitForCards, CallEnds, RangeEnds, NextCard, Get, GetSkips,
              Enter, FillCard, CardsEnd, Sent
<1> QED
  BY <1>1, <1>2, <1>3, <1>4 DEF ListsNext, Beats, Ages, GivesUp, vars

\* Only an agent that never had a client ends the list of pods without an answer.
THEOREM NewcomersPanic == ListsSpec => OnlyNewcomersPanic
<1>1. ListsInit => KeepsClient
  BY DEF ListsInit, KeepsClient
<1>2. TypeOK /\ KeepsClient /\ [ListsNext]_vars => KeepsClient'
  BY KeepsClientInductive
<1>3. ASSUME KeepsClient, [ListsNext]_vars, step' = "panicked", step # "panicked"
      PROVE  at' \notin dialled
  <2>1. PICK a \in Agent : VisitPanics(a)
    BY <1>3 DEF ListsNext, RequestStep, LoopStep, ReplyStep, TakeName, Judge, GivesUp, Ask, VisitForStatus, VisitForPods,
              VisitForCards, CallEnds, RangeEnds, NextCard, Get, GetSkips, Enter,
              FillCard, CardsEnd, Sent, Clears, Goes, Continues, Comes, Restart,
              Beats, Ages, DirectoryStep, vars, requestVars
  <2> QED
    BY <1>3, <2>1 DEF VisitPanics, KeepsClient
<1>4. KeepsClient /\ [ListsNext]_vars =>
        [step' = "panicked" /\ step # "panicked" => at' \notin dialled]_vars
  BY <1>3
<1> QED
  BY <1>1, <1>2, <1>4, TypeCorrect, PTL DEF ListsSpec, OnlyNewcomersPanic
=============================================================================
