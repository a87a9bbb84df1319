------------------------------ MODULE TopicSync ------------------------------
(***************************************************************************)
(* What merging a zip into a document promises the readers of that          *)
(* document (services/ingestion/diffIngest.js 1-9), whatever the steps are:  *)
(* a topic goes from the text it had to the text of the zip, never through   *)
(* anything else; only a topic the zip does not have disappears; and a merge *)
(* that ends without an error leaves exactly the topics of the zip.          *)
(***************************************************************************)
CONSTANTS Doc, Sid, Target, NoGoal

VARIABLES
    shown,   \* the texts under which readers find each topic of a document
    goal,    \* the topics that the merge under way in a document wants
    result,  \* how the last merge of a document ended
    spoiled  \* documents whose topics were deleted since their last merge began

vars == <<shown, goal, result, spoiled>>

\* What a zip asks of each topic: one text, or none.
NoTopics == [s \in Sid |-> {}]

Init ==
    /\ shown = [d \in Doc |-> NoTopics]
    /\ goal = [d \in Doc |-> NoGoal]
    /\ result = [d \in Doc |-> "none"]
    /\ spoiled = {}

Begin(d) ==
    /\ goal[d] = NoGoal
    /\ \E t \in Target : goal' = [goal EXCEPT ![d] = t]
    /\ spoiled' = spoiled \ {d}
    /\ UNCHANGED <<shown, result>>

\* A topic takes the text of the zip, or goes because the zip has none.
Move(d) ==
    /\ goal[d] # NoGoal
    /\ \E s \in Sid : shown' = [shown EXCEPT ![d][s] = goal[d][s]]
    /\ UNCHANGED <<goal, result, spoiled>>

\* Topics that the zip does not have go, more than one at a time.
Sweep(d) ==
    /\ goal[d] # NoGoal
    /\ \E S \in SUBSET {s \in Sid : goal[d][s] = {}} :
           shown' = [shown EXCEPT ![d] = [s \in Sid |-> IF s \in S THEN {} ELSE shown[d][s]]]
    /\ UNCHANGED <<goal, result, spoiled>>

Complete(d) ==
    /\ goal[d] # NoGoal
    /\ d \in spoiled \/ shown[d] = goal[d]
    /\ goal' = [goal EXCEPT ![d] = NoGoal]
    /\ result' = [result EXCEPT ![d] = "clean"]
    /\ UNCHANGED <<shown, spoiled>>

\* Merges that fail, or end with the server, leave what they have reached.
Abandon ==
    /\ \E D \in SUBSET Doc :
           /\ goal' = [d \in Doc |-> IF d \in D THEN NoGoal ELSE goal[d]]
           /\ result' = [d \in Doc |-> IF d \in D THEN "partial" ELSE result[d]]
    /\ UNCHANGED <<shown, spoiled>>

\* The document is deleted with its topics, whether or not it is being merged.
Delete(d) ==
    /\ shown' = [shown EXCEPT ![d] = NoTopics]
    /\ spoiled' = spoiled \cup {d}
    /\ UNCHANGED <<goal, result>>

Next ==
    \/ \E d \in Doc : Begin(d) \/ Move(d) \/ Sweep(d) \/ Complete(d) \/ Delete(d)
    \/ Abandon

Spec == Init /\ [][Next]_vars
=============================================================================
