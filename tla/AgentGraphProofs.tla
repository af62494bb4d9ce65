-------------------------- MODULE AgentGraphProofs --------------------------
(* Proofs about AgentGraph, for every setting of its limits. *)
EXTENDS AgentGraph, TLAPS

\* The nodes of a full regeneration that come before the general norms are
\* checked, or report that the check failed.
Entry == {"load_general_norms", "classify_deal", "inform_unsupported_deal",
          "check_general_norms", "inform_user"}

\* The nodes that write a contract, and those on their way.
Cleared == Drafting \cup {"retrieve_norms", "check_written_form", "edit_contract", "save_result"}

-----------------------------------------------------------------------------
(* The inductive invariant *)

\* A question has both of its fields, belongs to a regeneration, is open only
\* while it is asked and afterwards, and tells how far the pipeline had come.
QuestionIsWhole ==
  /\ needed <=> stage # "none"
  /\ needed => node \in {"idle", "ask_clarification"} /\ intent = "regenerate"
  /\ node = "ask_clarification" => needed
  /\ stage = "classification" => ~(saved /\ HasArtifact)
  /\ stage \in {"data_sufficiency", "optional_contract_generation"} => dealType /\ passed
  /\ stage = "optional_contract_generation" => ~written

\* What has been established when a node is reached.
NodeIsReached ==
  /\ node \in Entry => ~(saved /\ HasArtifact)
  /\ node = "check_general_norms" => dealType
  /\ node \in Cleared => dealType /\ passed
  /\ node = "gate_free_plan" => dealType /\ passed
  /\ node \in Entry \cup {"retrieve_norms", "check_written_form", "ask_clarification"} => intent = "regenerate"
  /\ node \in {"validate_contract", "save_result"} => intent \in {"regenerate", "edit"}
  /\ node = "handle_validation_error" => iter < MaxIterations

\* What a regeneration has found out about its contract when it comes to write
\* the recommendations.
FormIsSettled ==
  \/ node \in {"generate_recommendations", "enrich_recommendations"}
  \/ node = "save_result" /\ intent # "edit"
  => ~written \/ valid \/ Exhausted

AgentInv ==
  /\ TypeOK
  /\ QuestionIsWhole
  /\ NodeIsReached
  /\ FormIsSettled
  /\ LoopsBounded
  /\ ShortcutIsSafe
  /\ EditIsEarned
  /\ EndsWithReply
  /\ ReplyMatchesDocx

LEMMA InitAgent == Init => AgentInv
<1> SUFFICES ASSUME Init PROVE AgentInv
  OBVIOUS
<1>1. /\ ~needed /\ ~dealType /\ ~written /\ ~valid /\ ~errors /\ ~recs /\ ~saved
      /\ ~docx
  BY Zenon DEF Init
<1>2. /\ needed \in BOOLEAN /\ dealType \in BOOLEAN /\ written \in BOOLEAN
      /\ valid \in BOOLEAN /\ errors \in BOOLEAN /\ recs \in BOOLEAN
      /\ saved \in BOOLEAN /\ docx \in BOOLEAN
  BY Zenon DEF Init
<1> QED
  BY AgentAssumption, <1>1, <1>2
   DEF Init, AgentInv, TypeOK, QuestionIsWhole, NodeIsReached, FormIsSettled,
       LoopsBounded, ShortcutIsSafe, EditIsEarned, EndsWithReply, ReplyMatchesDocx,
       Nodes, Drafting, Entry, Cleared, Policies, Stages, Replies, HasArtifact, Exhausted

LEMMA NextAgent == AgentInv /\ [Next]_vars => AgentInv'
<1> SUFFICES ASSUME AgentInv, [Next]_vars PROVE AgentInv'
  OBVIOUS
<1> USE AgentAssumption
    DEF AgentInv, TypeOK, QuestionIsWhole, NodeIsReached, FormIsSettled,
       LoopsBounded, ShortcutIsSafe, EditIsEarned, EndsWithReply, ReplyMatchesDocx,
       Nodes, Drafting, Entry, Cleared, Policies, Stages, Replies, HasArtifact,
       settings, question, finding, draft, loops, row, GoTo, EndWith, Ask, ClearQuestion
<1>1. CASE Start
  BY <1>1 DEF Start
<1>2. CASE Answer
  <2>1. ~needed' /\ needed' \in BOOLEAN
    BY <1>2, Zenon DEF Answer
  <2>2. CASE stage = "classification"
    <3>1. CASE dealType
      BY <1>2, <2>2, <2>1, <3>1 DEF Answer, RouteAfterClassification
    <3>2. CASE ~dealType
      BY <1>2, <2>2, <2>1, <3>2 DEF Answer, RouteAfterClassification
    <3> QED
      BY <3>1, <3>2
  <2>3. CASE stage = "data_sufficiency"
    BY <1>2, <2>3, <2>1 DEF Answer, RouteAfterDataSufficiency
  <2>4. CASE stage = "optional_contract_generation"
    <3>1. node' = "check_data_sufficiency" \/ node' = "generate_recommendations"
      BY <1>2, <2>4 DEF Answer, RouteAfterOptionalContractAnswer
    <3> QED
      BY <1>2, <2>4, <2>1, <3>1 DEF Answer
  <2> QED
    BY <1>2, <2>2, <2>3, <2>4 DEF Answer
<1>3. CASE AskAgain
  BY <1>3 DEF AskAgain
<1>4. CASE RouteUserMessage
  <2>1. intent' = "regenerate" \/ intent' = "edit" \/ intent' = "followup"
    BY <1>4 DEF RouteUserMessage
  <2>2. CASE intent' = "regenerate"
    <3>1. node' = "load_general_norms"
      BY <1>4, <2>2 DEF RouteUserMessage, RouteAfterUserMessage
    <3>2. CASE ~saved \/ ~HasArtifact
      BY <1>4, <2>2, <3>1, <3>2 DEF RouteUserMessage
    <3>3. CASE saved /\ HasArtifact
      <4>1. CASE ForgetResult
        <5>1. /\ ~recs' /\ ~valid' /\ ~errors' /\ ~saved' /\ ~docx'
              /\ recs' \in BOOLEAN /\ valid' \in BOOLEAN /\ errors' \in BOOLEAN
              /\ saved' \in BOOLEAN /\ docx' \in BOOLEAN
          BY <4>1, Zenon DEF ForgetResult
        <5> QED
          BY <1>4, <2>2, <3>1, <4>1, <5>1 DEF RouteUserMessage, ForgetResult
      <4> QED
        BY <1>4, <2>2, <3>3, <4>1 DEF RouteUserMessage
    <3> QED
      BY <3>2, <3>3
  <2>3. CASE intent' = "edit"
    <3>1. contract # "none" /\ saved /\ HasArtifact
      BY <1>4, <2>3 DEF RouteUserMessage
    <3>2. valid' = FALSE /\ errors' = FALSE /\ saved' = FALSE
      BY <1>4, <2>3 DEF RouteUserMessage
    <3>3. /\ ~valid' /\ ~errors' /\ ~saved'
          /\ valid' \in BOOLEAN /\ errors' \in BOOLEAN /\ saved' \in BOOLEAN
      BY <3>2, Zenon
    <3>4. CASE allowEdit
      BY <1>4, <2>3, <3>4, <3>1, <3>3 DEF RouteUserMessage, RouteAfterUserMessage
    <3>5. CASE ~allowEdit
      BY <1>4, <2>3, <3>5, <3>1, <3>3 DEF RouteUserMessage, RouteAfterUserMessage
    <3> QED
      BY <3>4, <3>5
  <2>4. CASE intent' = "followup"
    BY <1>4, <2>4 DEF RouteUserMessage, RouteAfterUserMessage
  <2> QED
    BY <2>1, <2>2, <2>3, <2>4
<1>5. CASE GateFreePlan
  BY <1>5 DEF GateFreePlan
<1>6. CASE FollowupResponse
  BY <1>6 DEF FollowupResponse
<1>7. CASE FollowupSubagentSearch
  BY <1>7 DEF FollowupSubagentSearch
<1>8. CASE ClassifyDeal
  <2>1. ~needed /\ stage = "none"
    BY <1>8 DEF ClassifyDeal
  <2>2. CASE asks' = asks + 1 /\ Ask("classification") /\ asks < MaxClarifications
             /\ GoTo("ask_clarification")
    BY <1>8, <2>2 DEF ClassifyDeal
  <2>3. CASE UNCHANGED <<needed, stage, asks>> /\ GoTo(RouteAfterClassification(dealType'))
    <3>1. CASE dealType'
      BY <1>8, <2>1, <2>3, <3>1 DEF ClassifyDeal, RouteAfterClassification
    <3>2. CASE ~dealType'
      BY <1>8, <2>1, <2>3, <3>2 DEF ClassifyDeal, RouteAfterClassification
    <3> QED
      BY <3>1, <3>2
  <2> QED
    BY <1>8, <2>1, <2>2, <2>3 DEF ClassifyDeal
<1>9. CASE InformUnsupportedDeal
  BY <1>9 DEF InformUnsupportedDeal, SetStatus
<1>10. CASE CheckGeneralNorms
  <2>1. passed' \in BOOLEAN
    BY <1>10, Zenon DEF CheckGeneralNorms, ModelSays
  <2>2. CASE passed'
    BY <1>10, <2>1, <2>2 DEF CheckGeneralNorms, RouteAfterGeneralNorms
  <2>3. CASE ~passed'
    BY <1>10, <2>1, <2>3 DEF CheckGeneralNorms, RouteAfterGeneralNorms
  <2> QED
    BY <2>2, <2>3
<1>11. CASE InformUser
  BY <1>11 DEF InformUser, SetStatus
<1>12. CASE CheckWrittenForm
  <2>1. ~needed /\ stage = "none"
    BY <1>12 DEF CheckWrittenForm
  <2>6. written' \in BOOLEAN
    BY <1>12, Zenon DEF CheckWrittenForm, ModelSays
  <2>2. CASE written'
    BY <1>12, <2>1, <2>6, <2>2 DEF CheckWrittenForm, RouteAfterWrittenForm
  <2>3. CASE ~written' /\ policy = "always_ask"
    BY <1>12, <2>1, <2>6, <2>3 DEF CheckWrittenForm, RouteAfterWrittenForm
  <2>4. CASE ~written' /\ policy = "legal_only"
    BY <1>12, <2>1, <2>6, <2>4 DEF CheckWrittenForm, RouteAfterWrittenForm
  <2>5. CASE ~written' /\ policy = "always"
    BY <1>12, <2>1, <2>6, <2>5 DEF CheckWrittenForm, RouteAfterWrittenForm
  <2> QED
    BY <2>2, <2>3, <2>4, <2>5
<1>13. CASE CheckDataSufficiency
  <2>1. CASE Ask("data_sufficiency") /\ GoTo(RouteAfterDataSufficiency(TRUE))
    BY <1>13, <2>1 DEF CheckDataSufficiency, RouteAfterDataSufficiency
  <2>2. CASE ClearQuestion /\ GoTo(RouteAfterDataSufficiency(FALSE))
    <3>1. ~needed' /\ needed' \in BOOLEAN
      BY <2>2, Zenon
    <3> QED
      BY <1>13, <2>2, <3>1 DEF CheckDataSufficiency, RouteAfterDataSufficiency
  <2> QED
    BY <1>13, <2>1, <2>2 DEF CheckDataSufficiency
<1>14. CASE AskClarification
  BY <1>14 DEF AskClarification
<1>15. CASE GenerateRecommendations
  BY <1>15 DEF GenerateRecommendations, Exhausted
<1>16. CASE GenerateContract
  BY <1>16 DEF GenerateContract
<1>17. CASE EditContract
  BY <1>17 DEF EditContract
<1>18. CASE ValidateContract
  <2>1. errors' \in BOOLEAN
    BY <1>18 DEF ValidateContract
  <2>2. valid' \in BOOLEAN
    BY <1>18, Zenon DEF ValidateContract
  <2>3. CASE intent = "edit"
    BY <1>18, <2>3, <2>1, <2>2 DEF ValidateContract, RouteAfterValidation
  <2>4. CASE intent # "edit" /\ ~valid' /\ iter < MaxIterations
    BY <1>18, <2>4, <2>1, <2>2 DEF ValidateContract, RouteAfterValidation
  <2>5. CASE intent # "edit" /\ (valid' \/ ~(iter < MaxIterations))
    <3>1. node' = "generate_recommendations" /\ intent = "regenerate"
      BY <1>18, <2>5 DEF ValidateContract, RouteAfterValidation
    <3>2. valid' \/ errors'
      BY <1>18 DEF ValidateContract
    <3>3. FormIsSettled'
      BY <1>18, <2>5, <3>2 DEF ValidateContract, Exhausted
    <3> QED
      BY <1>18, <2>1, <2>2, <3>1, <3>3 DEF ValidateContract
  <2> QED
    BY <2>3, <2>4, <2>5
<1>19. CASE HandleValidationError
  BY <1>19 DEF HandleValidationError
<1>20. CASE SaveResult
  BY <1>20 DEF SaveResult, Store, FinalText, Deliverable, Quality, Exhausted
<1>21. CASE Cut
  <2>1. CASE node = "save_result" /\ \E stored \in BOOLEAN : Store(stored)
    BY <1>21, <2>1 DEF Cut, Store, Deliverable, Quality, Exhausted
  <2>2. CASE UNCHANGED row \/ SetStatus("error")
    BY <1>21, <2>2 DEF Cut, SetStatus, Exhausted
  <2> QED
    BY <1>21, <2>1, <2>2 DEF Cut
<1>22. CASE LoadGeneralNorms
  BY <1>22 DEF LoadGeneralNorms
<1>23. CASE RetrieveNorms
  BY <1>23 DEF RetrieveNorms
<1>24. CASE EnrichRecommendations
  BY <1>24 DEF EnrichRecommendations, Exhausted
<1>25. CASE UNCHANGED vars
  BY <1>25 DEF vars, Exhausted
<1> QED
  BY <1>1, <1>2, <1>3, <1>4, <1>5, <1>6, <1>7, <1>8, <1>9, <1>10, <1>11, <1>12, <1>13, <1>14, <1>15, <1>16, <1>17, <1>18, <1>19, <1>20, <1>21, <1>22, <1>23, <1>24, <1>25 DEF Next, Message, Node

LEMMA AgentInvariant == Spec => []AgentInv
BY InitAgent, NextAgent, PTL DEF Spec

-----------------------------------------------------------------------------
(* The theorems *)

\* Every field of the thread has a value of its kind.
THEOREM AgentTypeOK == Spec => []TypeOK
<1>1. AgentInv => TypeOK
  BY DEF AgentInv
<1> QED
  BY AgentInvariant, <1>1, PTL

\* The retries of a contract, the questions about the type and the attempts of
\* the search keep to their settings, whatever those are.
THEOREM AgentLoopsBounded == Spec => []LoopsBounded
<1>1. AgentInv => LoopsBounded
  BY DEF AgentInv
<1> QED
  BY AgentInvariant, <1>1, PTL

\* Only a case of a known type that passed the check against the general norms
\* can be edited or asked about without another full run.
THEOREM AgentShortcutIsSafe == Spec => []ShortcutIsSafe
<1>1. AgentInv => ShortcutIsSafe
  BY DEF AgentInv
<1> QED
  BY AgentInvariant, <1>1, PTL

\* An edit run has a contract to edit, checks it may skip, and a plan for it.
THEOREM AgentEditIsEarned == Spec => []EditIsEarned
<1>1. AgentInv => EditIsEarned
  BY DEF AgentInv
<1> QED
  BY AgentInvariant, <1>1, PTL

\* A run ends with one reply, and the thread waits exactly after a question.
THEOREM AgentEndsWithReply == Spec => []EndsWithReply
<1>1. AgentInv => EndsWithReply
  BY DEF AgentInv
<1> QED
  BY AgentInvariant, <1>1, PTL

\* A regeneration announces a version exactly when it has stored one.
THEOREM AgentReplyMatchesDocx == Spec => []ReplyMatchesDocx
<1>1. AgentInv => ReplyMatchesDocx
  BY DEF AgentInv
<1> QED
  BY AgentInvariant, <1>1, PTL

\* Where the law requires the written form, nothing but a validated contract
\* becomes a version or completes its case, except by an edit.
THEOREM AgentRequiredFormIsValid == Spec => RequiredFormIsValid
<1> DEFINE Earned ==
      \/ status' = "completed" /\ status' # status
      \/ version' = "invalid" /\ version' # version
      \/ said' = "delivered" /\ said' # said
      => intent = "edit" \/ ~written \/ valid
<1>1. AgentInv /\ Next => Earned
  <2> SUFFICES ASSUME AgentInv, Next PROVE Earned
    OBVIOUS
  <2>1. CASE SetStatus("error") /\ said' # "delivered"
    BY <2>1 DEF SetStatus
  <2>2. CASE node = "save_result" /\ \E stored \in BOOLEAN :
               Store(stored) /\ said' \in {FinalText(Deliverable /\ stored), "interrupted"}
    <3>1. intent = "edit" \/ ~written \/ valid \/ Exhausted
      BY <2>2 DEF AgentInv, FormIsSettled
    <3>2. PICK stored \in BOOLEAN :
            Store(stored) /\ said' \in {FinalText(Deliverable /\ stored), "interrupted"}
      BY <2>2
    <3>3. CASE Exhausted
      BY <3>2, <3>3 DEF Store, FinalText, Deliverable
    <3> QED
      BY <3>1, <3>3
  <2>3. CASE UNCHANGED row /\ said' # "delivered"
    BY <2>3 DEF row
  <2>5. CASE Message
    BY <2>3, <2>5 DEF Message, Start, Answer, AskAgain, EndWith
  <2>6. CASE InformUnsupportedDeal \/ InformUser
    BY <2>1, <2>6 DEF InformUnsupportedDeal, InformUser, EndWith
  <2>7. CASE SaveResult
    BY <2>2, <2>7 DEF SaveResult, EndWith
  <2>8. CASE Cut
    BY <2>1, <2>2, <2>3, <2>8 DEF Cut, EndWith
  <2>9. CASE Node /\ ~(InformUnsupportedDeal \/ InformUser \/ SaveResult)
    <3>1. AgentInv /\ node # "idle"
      BY <2>9 DEF Node, RouteUserMessage, GateFreePlan, FollowupResponse, FollowupSubagentSearch,
         LoadGeneralNorms, ClassifyDeal, CheckGeneralNorms, RetrieveNorms, CheckWrittenForm,
         CheckDataSufficiency, AskClarification, GenerateRecommendations, EnrichRecommendations,
         GenerateContract, EditContract, ValidateContract, HandleValidationError
    <3>2. said = "pending"
      BY <3>1 DEF AgentInv, EndsWithReply
    <3>3. UNCHANGED row /\ said' # "delivered"
      BY <2>9, <3>2 DEF Node, RouteUserMessage, GateFreePlan, FollowupResponse, FollowupSubagentSearch,
         LoadGeneralNorms, ClassifyDeal, CheckGeneralNorms, RetrieveNorms, CheckWrittenForm,
         CheckDataSufficiency, AskClarification, GenerateRecommendations, EnrichRecommendations,
         GenerateContract, EditContract, ValidateContract, HandleValidationError, GoTo, EndWith
    <3> QED
      BY <2>3, <3>3
  <2> QED
    BY <2>5, <2>6, <2>7, <2>8, <2>9 DEF Next
<1>2. AgentInv /\ [Next]_vars => [Earned]_vars
  BY <1>1
<1> QED
  BY AgentInvariant, <1>2, PTL DEF Spec, RequiredFormIsValid

-----------------------------------------------------------------------------
(* The length of a run *)

\* The longest run drafts the contract, and drafts it again until its retries
\* are used up; or it searches.
LongestRun ==
  LET drafting  == 12 + 4 * MaxIterations
      searching == MaxSearches + 2
  IN  IF drafting < searching THEN searching ELSE drafting

\* A retry is four nodes.
Again == 4 * (MaxIterations - iter)

\* The most nodes that a run can still execute.
StepsLeft ==
  CASE node = "idle" -> 0
    [] node \in {"gate_free_plan", "inform_unsupported_deal", "inform_user",
                 "ask_clarification", "save_result"} -> 1
    [] node = "enrich_recommendations" -> 2
    [] node = "generate_recommendations" -> 3
    [] node = "handle_validation_error" -> Again + 3
    [] node = "validate_contract" -> Again + 4
    [] node \in {"generate_contract", "edit_contract"} -> Again + 5
    [] node = "check_data_sufficiency" -> Again + 6
    [] node = "check_written_form" -> Again + 7
    [] node = "retrieve_norms" -> Again + 8
    [] node = "check_general_norms" -> Again + 9
    [] node = "classify_deal" -> Again + 10
    [] node = "load_general_norms" -> Again + 11
    [] node = "route_user_message" -> LongestRun
    [] node = "followup_response" -> MaxSearches + 1
    [] node = "followup_subagent_search" -> MaxSearches - tries

LEMMA FourTimes ==
  ASSUME NEW m \in Nat, NEW i \in Nat, i <= m
  PROVE  4 * (m - i) \in Nat /\ 4 * (m - i) <= 4 * m
OBVIOUS

LEMMA AgainIsBounded ==
  ASSUME AgentInv
  PROVE  Again \in Nat /\ Again <= 4 * MaxIterations
BY AgentAssumption DEF AgentInv, TypeOK, LoopsBounded, Again

LEMMA LongestIsLong ==
  /\ LongestRun \in Nat
  /\ LongestRun >= 12 + 4 * MaxIterations
  /\ LongestRun >= MaxSearches + 2
BY AgentAssumption DEF LongestRun

LEMMA StepsAreBounded ==
  ASSUME AgentInv
  PROVE  StepsLeft \in 0 .. LongestRun /\ (node # "idle" => StepsLeft > 0)
<1>1. node \in Nodes /\ tries \in Nat /\ tries < MaxSearches /\ MaxSearches \in Nat /\ MaxIterations \in Nat
  BY AgentAssumption DEF AgentInv, TypeOK, LoopsBounded
<1>2. Again \in Nat /\ Again <= 4 * MaxIterations
  BY AgainIsBounded
<1>3. LongestRun \in Nat /\ LongestRun >= 12 + 4 * MaxIterations /\ LongestRun >= MaxSearches + 2
  BY LongestIsLong
<1>4. CASE node \in {"idle", "gate_free_plan", "inform_unsupported_deal", "inform_user",
                     "ask_clarification", "save_result"}
  <2>1. StepsLeft = IF node = "idle" THEN 0 ELSE 1
    BY <1>4 DEF StepsLeft
  <2> QED
    BY <1>1, <1>3, <2>1
<1>5. CASE node \in Drafting
  <2>1. StepsLeft \in {2, 3, Again + 3, Again + 4, Again + 5, Again + 6}
    BY <1>5 DEF StepsLeft, Drafting
  <2> QED
    BY <1>1, <1>2, <1>3, <2>1
<1>6. CASE node \in {"edit_contract", "check_written_form", "retrieve_norms", "check_general_norms",
                     "classify_deal", "load_general_norms"}
  <2>1. StepsLeft \in {Again + 5, Again + 7, Again + 8, Again + 9, Again + 10, Again + 11}
    BY <1>6 DEF StepsLeft
  <2> QED
    BY <1>1, <1>2, <1>3, <2>1
<1>7. CASE node \in {"route_user_message", "followup_response", "followup_subagent_search"}
  <2>1. StepsLeft \in {LongestRun, MaxSearches + 1, MaxSearches - tries}
    BY <1>7 DEF StepsLeft
  <2> QED
    BY <1>1, <1>3, <2>1
<1> QED
  BY <1>1, <1>4, <1>5, <1>6, <1>7 DEF Nodes

\* Whatever the models answer, no node leads back: each leaves the run fewer
\* steps, the retries and the searches included.
LEMMA NodeShortens ==
  ASSUME AgentInv, AgentInv', Node
  PROVE  StepsLeft' < StepsLeft
<1>0. /\ node \in Nodes /\ tries \in Nat /\ tries < MaxSearches /\ MaxSearches \in Nat
      /\ iter \in Nat /\ iter <= MaxIterations /\ MaxIterations \in Nat
      /\ iter' \in Nat /\ iter' <= MaxIterations
  BY AgentAssumption DEF AgentInv, TypeOK, LoopsBounded
<1>1. Again' \in Nat /\ Again' <= 4 * MaxIterations /\ (iter' = iter => Again' = Again)
  <2>1. iter' = iter => Again' = Again
    BY DEF Again
  <2>2. Again' = 4 * (MaxIterations - iter')
    BY DEF Again
  <2>3. 4 * (MaxIterations - iter') \in Nat /\ 4 * (MaxIterations - iter') <= 4 * MaxIterations
    BY <1>0, FourTimes
  <2> QED
    BY <2>1, <2>2, <2>3
<1> USE AgainIsBounded, LongestIsLong, <1>0, <1>1 DEF GoTo, EndWith, loops
<1>2. CASE RouteUserMessage
  <2>1. node = "route_user_message"
    BY <1>2 DEF RouteUserMessage
  <2>2. node' \in {"gate_free_plan", "followup_response", "edit_contract", "load_general_norms"}
    BY <1>2 DEF RouteUserMessage, RouteAfterUserMessage
  <2>3. (LongestRun = LongestRun' /\ MaxSearches = MaxSearches')
    BY DEF LongestRun
  <2> QED
    BY <2>1, <2>2, <2>3 DEF StepsLeft
<1>3. CASE GateFreePlan \/ InformUnsupportedDeal \/ InformUser \/ AskClarification
  BY <1>3 DEF GateFreePlan, InformUnsupportedDeal, InformUser, AskClarification, StepsLeft
<1>4. CASE FollowupResponse
  BY <1>4 DEF FollowupResponse, StepsLeft
<1>5. CASE FollowupSubagentSearch
  BY <1>5 DEF FollowupSubagentSearch, StepsLeft
<1>6. CASE LoadGeneralNorms
  BY <1>6 DEF LoadGeneralNorms, StepsLeft
<1>7. CASE ClassifyDeal
  <2>1. node = "classify_deal" /\ iter' = iter
    BY <1>7 DEF ClassifyDeal
  <2>2. node' \in {"ask_clarification", "check_general_norms", "inform_unsupported_deal"}
    BY <1>7 DEF ClassifyDeal, RouteAfterClassification
  <2> QED
    BY <2>1, <2>2 DEF StepsLeft
<1>8. CASE CheckGeneralNorms
  BY <1>8 DEF CheckGeneralNorms, RouteAfterGeneralNorms, StepsLeft
<1>9. CASE RetrieveNorms
  BY <1>9 DEF RetrieveNorms, StepsLeft
<1>10. CASE CheckWrittenForm
  <2>1. node = "check_written_form" /\ iter' = iter
    BY <1>10 DEF CheckWrittenForm
  <2>2. node' \in {"check_data_sufficiency", "generate_recommendations", "ask_clarification"}
    BY <1>10 DEF CheckWrittenForm, RouteAfterWrittenForm
  <2> QED
    BY <2>1, <2>2 DEF StepsLeft
<1>11. CASE CheckDataSufficiency
  BY <1>11 DEF CheckDataSufficiency, RouteAfterDataSufficiency, StepsLeft
<1>12. CASE GenerateRecommendations \/ EnrichRecommendations \/ SaveResult
  BY <1>12 DEF GenerateRecommendations, EnrichRecommendations, SaveResult, StepsLeft
<1>13. CASE GenerateContract \/ EditContract
  BY <1>13 DEF GenerateContract, EditContract, StepsLeft
<1>14. CASE ValidateContract
  <2>1. node = "validate_contract" /\ iter' = iter
    BY <1>14 DEF ValidateContract
  <2>2. node' \in {"save_result", "handle_validation_error", "generate_recommendations"}
    BY <1>14 DEF ValidateContract, RouteAfterValidation
  <2> QED
    BY <2>1, <2>2 DEF StepsLeft
<1>15. CASE HandleValidationError
  <2>1. /\ node = "handle_validation_error" /\ node' = "check_data_sufficiency"
        /\ iter' = iter + 1
    BY <1>15 DEF HandleValidationError
  <2>2. Again' + 6 < Again + 3
    BY <2>1 DEF Again
  <2> QED
    BY <2>1, <2>2 DEF StepsLeft
<1> QED
  BY <1>2, <1>3, <1>4, <1>5, <1>6, <1>7, <1>8, <1>9, <1>10, <1>11, <1>12, <1>13, <1>14, <1>15
     DEF Node

\* A run executes 12 + 4 * max_iterations nodes at most, or as many as its
\* searches need: the edges of graph.py have no cycle that is not counted.
THEOREM AgentRunsAreShort ==
  Spec => /\ [](StepsLeft \in 0 .. LongestRun /\ (node # "idle" => StepsLeft > 0))
          /\ [][Node => StepsLeft' < StepsLeft]_vars
<1>1. AgentInv => StepsLeft \in 0 .. LongestRun /\ (node # "idle" => StepsLeft > 0)
  BY StepsAreBounded
<1>2. AgentInv /\ AgentInv' /\ [Next]_vars => [Node => StepsLeft' < StepsLeft]_vars
  BY NodeShortens
<1> QED
  BY <1>1, <1>2, AgentInvariant, PTL DEF Spec
=============================================================================
