--------------------------- MODULE MCQuestAssist ---------------------------
(* Features and titles for the model checking of QuestAssist. *)
EXTENDS QuestAssist, TLC

CONSTANTS q1, q2, q3, t1, t2

OneAtATime == {{"map"}, {"list"}, {"watch"}}

\* Two quests share a title.
TwoAlike == q1 :> t1 @@ q2 :> t1 @@ q3 :> t2
=============================================================================
