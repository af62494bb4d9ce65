----------------------------- MODULE AgentGraph -----------------------------
(***************************************************************************)
(* The contract agent (app/agent): the graph that a run walks, node by     *)
(* node, over the state of the thread of one case, and the dialogue that   *)
(* starts the runs - a fresh run for a new message, or the answer to the   *)
(* question the thread waits for (app/cases/langgraph.py).                 *)
(*                                                                         *)
(* The state of the thread outlives its runs, so what one run leaves is    *)
(* what the next one starts from.  A language model decides at most nodes; *)
(* its reply, or the fallback when the call fails, is a nondeterministic   *)
(* choice.  The texts are left out, except whether a draft or the          *)
(* recommendations are blank, and so are the norms that retrieve_norms     *)
(* finds: those are modelled in Retrieval.  The runs of a thread are taken *)
(* one at a time.                                                          *)
(***************************************************************************)
EXTENDS Integers

CONSTANTS
  MaxIterations,       \* settings.max_iterations
  MaxClarifications,   \* settings.max_classification_clarifications
  MaxSearches          \* settings.followup_subagent_max_attempts, at least 1

ASSUME AgentAssumption ==
  /\ MaxIterations \in Nat
  /\ MaxClarifications \in Nat
  /\ MaxSearches \in Nat \ {0}

VARIABLES
  node,       \* the node that is executing, "idle" when no run is under way
  intent,     \* what route_user_message made of the message
  policy,     \* contract_generation_policy, as the fresh run was given it
  allowEdit,  \* the plan allows edits, as the fresh run was given it
  needed,     \* clarification_needed
  stage,      \* clarification_stage
  asks,       \* classification_clarification_attempts
  dealType,   \* deal_type is one of the catalogue
  passed,     \* general_check_passed
  written,    \* requires_written_form
  contract,   \* contract_html: none, drafted by this run, or by an older one
  valid,      \* contract_valid
  errors,     \* validation_errors is not empty
  recs,       \* recommendations is not blank
  iter,       \* iteration_count
  tries,      \* subagent_attempts
  saved,      \* result_saved
  docx,       \* result_docx_path is set
  version,    \* the latest row of contract_versions
  status,     \* cases.status
  said        \* the message that ends the latest run

settings == <<policy, allowEdit>>
question == <<needed, stage, asks>>
finding == <<dealType, passed, written>>
draft == <<contract, valid, errors, recs>>
loops == <<iter, tries>>
row == <<version, status>>
vars == <<node, intent, settings, question, finding, draft, loops, saved,
          docx, row, said>>

Stages == {"classification", "data_sufficiency", "optional_contract_generation"}
Policies == {"always", "legal_only", "always_ask"}
Drafting == {"check_data_sufficiency", "generate_contract", "validate_contract",
             "handle_validation_error", "generate_recommendations",
             "enrich_recommendations"}
Nodes == Drafting \cup
         {"idle", "route_user_message", "gate_free_plan", "followup_response",
          "followup_subagent_search", "load_general_norms", "classify_deal",
          "inform_unsupported_deal", "check_general_norms", "inform_user",
          "retrieve_norms", "check_written_form",
          "ask_clarification", "edit_contract", "save_result"}
Replies == {"answer", "refusal", "question", "unsupported", "unlawful",
            "delivered", "edited", "advice", "bare", "failure"}

Init ==
  /\ node = "idle" /\ intent = "none"
  /\ policy = "always_ask" /\ allowEdit = TRUE
  /\ needed = FALSE /\ stage = "none" /\ asks = 0
  /\ dealType = FALSE /\ passed = TRUE /\ written = FALSE
  /\ contract = "none" /\ valid = FALSE /\ errors = FALSE /\ recs = FALSE
  /\ iter = 0 /\ tries = 0
  /\ saved = FALSE /\ docx = FALSE
  /\ version = "none" /\ status = "in_progress"
  /\ said = "none"

GoTo(n) == node' = n /\ UNCHANGED said
EndWith(reply) == node' = "idle" /\ said' = reply
Ask(s) == needed' = TRUE /\ stage' = s
ClearQuestion == needed' = FALSE /\ stage' = "none"

\* A call of the model: its reply, or the fallback when the call or the reply
\* is of no use.
ModelSays(replies, fallback) == replies \cup {fallback}

\* classify_yesno
Decisions == ModelSays({"yes", "no", "unclear"}, "unclear")

-----------------------------------------------------------------------------
(* Where the edges lead *)

RouteAfterClassification(known) ==
  IF known THEN "check_general_norms" ELSE "inform_unsupported_deal"

\* Mutant: the plan is not looked at.
RouteAfterUserMessage_Ungated(i, edits) ==
  CASE i = "followup" -> "followup_response"
    [] i = "edit" -> "edit_contract"
    [] OTHER -> "load_general_norms"

RouteAfterUserMessage(i, edits) ==
  CASE i = "edit" /\ ~edits -> "gate_free_plan"
    [] i = "followup" -> "followup_response"
    [] i = "edit" /\ edits -> "edit_contract"
    [] OTHER -> "load_general_norms"

RouteAfterGeneralNorms(ok) == IF ok THEN "retrieve_norms" ELSE "inform_user"

RouteAfterDataSufficiency(missing) ==
  IF missing THEN "ask_clarification" ELSE "generate_contract"

RouteAfterOptionalContractAnswer(decision) ==
  IF decision = "yes" THEN "check_data_sufficiency" ELSE "generate_recommendations"

\* always_ask has just set the question when the form is optional.
RouteAfterWrittenForm(p, required) ==
  CASE p = "always" \/ required -> "check_data_sufficiency"
    [] p = "legal_only" /\ ~required -> "generate_recommendations"
    [] OTHER -> "ask_clarification"

RouteAfterValidation(ok) ==
  CASE intent = "edit" -> "save_result"
    [] intent # "edit" /\ ~ok /\ iter < MaxIterations -> "handle_validation_error"
    [] OTHER -> "generate_recommendations"

-----------------------------------------------------------------------------
(* The messages of the user *)

\* start_fresh_run: a new message, and no question is open.
Start ==
  /\ node = "idle"
  /\ ~needed
  /\ node' = "route_user_message" /\ said' = "pending"
  /\ iter' = 0
  /\ policy' \in Policies
  /\ allowEdit' \in BOOLEAN
  /\ contract' = IF contract = "none" THEN "none" ELSE "old"
  /\ UNCHANGED <<intent, question, finding, valid, errors, recs, tries, saved,
                 docx, row>>

\* start_resume_run: the state is patched as if the node that asked had just
\* run, so that its outgoing edge is taken and the node itself is not.
Answer ==
  /\ node = "idle"
  /\ needed
  /\ \/ /\ stage = "classification"
        /\ node' = RouteAfterClassification(dealType)
     \/ /\ stage = "data_sufficiency"
        /\ node' = RouteAfterDataSufficiency(FALSE)
     \/ /\ stage = "optional_contract_generation"
        /\ \E decision \in Decisions \ {"unclear"} :
             node' = RouteAfterOptionalContractAnswer(decision)
  /\ said' = "pending"
  /\ ClearQuestion
  /\ UNCHANGED <<intent, settings, asks, finding, draft, loops, saved, docx,
                 row>>

\* A yes-or-no that cannot be understood: asked again, without a run.
AskAgain ==
  /\ node = "idle"
  /\ needed /\ stage = "optional_contract_generation"
  /\ EndWith("question")
  /\ UNCHANGED <<intent, settings, question, finding, draft, loops, saved,
                 docx, row>>

-----------------------------------------------------------------------------
(* Routing a message, and the questions about a finished case *)

\* Mutant: only the verdict of the last validation is forgotten.
ForgetResult_OnlyVerdict ==
  /\ valid' = FALSE /\ errors' = FALSE
  /\ UNCHANGED <<contract, recs, saved, docx>>

\* What a full regeneration starts without.
ForgetResult ==
  /\ contract' = "none" /\ recs' = FALSE
  /\ valid' = FALSE /\ errors' = FALSE
  /\ saved' = FALSE /\ docx' = FALSE

HasArtifact == contract # "none" \/ recs

\* Without a saved result and something to talk about, the whole pipeline
\* runs, and nothing is reset.  Otherwise the model chooses; an edit needs a
\* contract.
RouteUserMessage ==
  /\ node = "route_user_message"
  /\ \/ /\ ~saved \/ ~HasArtifact
        /\ intent' = "regenerate"
        /\ UNCHANGED <<draft, iter, saved, docx>>
     \/ /\ saved /\ HasArtifact
        /\ intent' = "edit" /\ contract # "none"
        /\ valid' = FALSE /\ errors' = FALSE /\ saved' = FALSE
        /\ iter' = 0
        /\ UNCHANGED <<contract, recs, docx>>
     \/ /\ saved /\ HasArtifact
        /\ intent' = "regenerate"
        /\ ForgetResult
        /\ iter' = 0
     \/ /\ saved /\ HasArtifact
        /\ intent' = "followup"
        /\ UNCHANGED <<draft, iter, saved, docx>>
  /\ GoTo(RouteAfterUserMessage(intent', allowEdit))
  /\ UNCHANGED <<settings, question, finding, tries, row>>

GateFreePlan ==
  /\ node = "gate_free_plan"
  /\ intent' = "followup"
  /\ saved' = TRUE
  /\ EndWith("refusal")
  /\ UNCHANGED <<settings, question, finding, draft, loops, docx, row>>

\* Answered at once, or handed to the search loop.
FollowupResponse ==
  /\ node = "followup_response"
  /\ intent' = "followup"
  /\ tries' = 0
  /\ EndWith("answer") \/ GoTo("followup_subagent_search")
  /\ UNCHANGED <<settings, question, finding, draft, iter, saved, docx, row>>

\* Mutant: one attempt too many.
FollowupSubagentSearch_OneMore ==
  /\ node = "followup_subagent_search"
  /\ \/ EndWith("answer") /\ tries' = 0
     \/ /\ tries < MaxSearches
        /\ tries' = tries + 1
        /\ GoTo("followup_subagent_search")
  /\ UNCHANGED <<intent, settings, question, finding, draft, iter, saved, docx,
                 row>>

\* Found, given up or exhausted; or once more with another query.
FollowupSubagentSearch ==
  /\ node = "followup_subagent_search"
  /\ \/ EndWith("answer") /\ tries' = 0
     \/ /\ tries + 1 < MaxSearches
        /\ tries' = tries + 1
        /\ GoTo("followup_subagent_search")
  /\ UNCHANGED <<intent, settings, question, finding, draft, iter, saved, docx,
                 row>>

-----------------------------------------------------------------------------
(* The pipeline *)

\* Nothing is loaded any more; the node is kept for the threads that know it.
LoadGeneralNorms ==
  /\ node = "load_general_norms"
  /\ GoTo("classify_deal")
  /\ UNCHANGED <<intent, settings, question, finding, draft, loops, saved, docx,
                 row>>

\* An open question about something else than the type would be kept.
ClassifyDeal ==
  /\ node = "classify_deal"
  /\ dealType' \in BOOLEAN
  /\ \/ /\ asks < MaxClarifications
        /\ Ask("classification")
        /\ asks' = asks + 1
        /\ GoTo("ask_clarification")
     \/ /\ IF stage = "classification" THEN ClearQuestion ELSE UNCHANGED <<needed, stage>>
        /\ GoTo(RouteAfterClassification(dealType'))
        /\ UNCHANGED asks
  /\ UNCHANGED <<intent, settings, passed, written, draft, loops, saved, docx,
                 row>>

\* The write of the status may fail; the error is logged and dropped.
SetStatus(s) == status' \in {s, status} /\ UNCHANGED version

InformUnsupportedDeal ==
  /\ node = "inform_unsupported_deal"
  /\ SetStatus("error")
  /\ EndWith("unsupported")
  /\ UNCHANGED <<intent, settings, question, finding, draft, loops, saved, docx>>

CheckGeneralNorms ==
  /\ node = "check_general_norms"
  /\ passed' \in ModelSays(BOOLEAN, TRUE)
  /\ GoTo(RouteAfterGeneralNorms(passed'))
  /\ UNCHANGED <<intent, settings, question, dealType, written, draft, loops,
                 saved, docx, row>>

InformUser ==
  /\ node = "inform_user"
  /\ SetStatus("error")
  /\ EndWith("unlawful")
  /\ UNCHANGED <<intent, settings, question, finding, draft, loops, saved, docx>>

\* With no norms at all the pipeline goes on.
RetrieveNorms ==
  /\ node = "retrieve_norms"
  /\ GoTo("check_written_form")
  /\ UNCHANGED <<intent, settings, question, finding, draft, loops, saved, docx,
                 row>>

\* Mutants: the question is asked under every policy; its stage is misspelt.
CheckWrittenForm_EveryPolicy ==
  /\ node = "check_written_form"
  /\ written' \in ModelSays(BOOLEAN, TRUE)
  /\ IF ~written' THEN Ask("optional_contract_generation")
     ELSE UNCHANGED <<needed, stage>>
  /\ GoTo(RouteAfterWrittenForm(policy, written'))
  /\ UNCHANGED <<intent, settings, asks, dealType, passed, draft, loops, saved,
                 docx, row>>

CheckWrittenForm_Misspelt ==
  /\ node = "check_written_form"
  /\ written' \in ModelSays(BOOLEAN, TRUE)
  /\ IF ~written' /\ policy = "always_ask" THEN Ask("optional_contract")
     ELSE UNCHANGED <<needed, stage>>
  /\ GoTo(RouteAfterWrittenForm(policy, written'))
  /\ UNCHANGED <<intent, settings, asks, dealType, passed, draft, loops, saved,
                 docx, row>>

CheckWrittenForm ==
  /\ node = "check_written_form"
  /\ written' \in ModelSays(BOOLEAN, TRUE)
  /\ IF ~written' /\ policy = "always_ask" THEN Ask("optional_contract_generation")
     ELSE UNCHANGED <<needed, stage>>
  /\ GoTo(RouteAfterWrittenForm(policy, written'))
  /\ UNCHANGED <<intent, settings, asks, dealType, passed, draft, loops, saved,
                 docx, row>>

CheckDataSufficiency ==
  /\ node = "check_data_sufficiency"
  /\ \/ Ask("data_sufficiency") /\ GoTo(RouteAfterDataSufficiency(TRUE))
     \/ ClearQuestion /\ GoTo(RouteAfterDataSufficiency(FALSE))
  /\ UNCHANGED <<intent, settings, asks, finding, draft, loops, saved, docx,
                 row>>

AskClarification ==
  /\ node = "ask_clarification"
  /\ EndWith("question")
  /\ UNCHANGED <<intent, settings, question, finding, draft, loops, saved, docx,
                 row>>

GenerateRecommendations ==
  /\ node = "generate_recommendations"
  /\ recs' \in BOOLEAN
  /\ GoTo("enrich_recommendations")
  /\ UNCHANGED <<intent, settings, question, finding, contract, valid, errors,
                 loops, saved, docx, row>>

\* Clarifications of vague references are woven into the text; without any, or
\* with a blank outcome, it stays as it is, and a blank text stays blank.
EnrichRecommendations ==
  /\ node = "enrich_recommendations"
  /\ GoTo("save_result")
  /\ UNCHANGED <<intent, settings, question, finding, draft, loops, saved, docx,
                 row>>

GenerateContract ==
  /\ node = "generate_contract"
  /\ contract' \in {"none", "new"}
  /\ GoTo("validate_contract")
  /\ UNCHANGED <<intent, settings, question, finding, valid, errors, recs,
                 loops, saved, docx, row>>

\* The edited text is never blank: the current one is the fallback.
EditContract ==
  /\ node = "edit_contract"
  /\ contract' = "new"
  /\ GoTo("validate_contract")
  /\ UNCHANGED <<intent, settings, question, finding, valid, errors, recs,
                 loops, saved, docx, row>>

\* No errors means valid, whatever the verdict says.
ValidateContract ==
  /\ node = "validate_contract"
  /\ errors' \in BOOLEAN
  /\ valid' \in {TRUE, ~errors'}
  /\ GoTo(RouteAfterValidation(valid'))
  /\ UNCHANGED <<intent, settings, question, finding, contract, recs, loops,
                 saved, docx, row>>

\* Mutant: the attempt is not counted.
HandleValidationError_Uncounted ==
  /\ node = "handle_validation_error"
  /\ GoTo("check_data_sufficiency")
  /\ UNCHANGED <<intent, settings, question, finding, draft, loops, saved, docx,
                 row>>

HandleValidationError ==
  /\ node = "handle_validation_error"
  /\ iter' = iter + 1
  /\ GoTo("check_data_sufficiency")
  /\ UNCHANGED <<intent, settings, question, finding, draft, tries, saved, docx,
                 row>>

-----------------------------------------------------------------------------
(* The end of a run *)

\* Mutant: off by one, so that no run ever counts as exhausted.
Exhausted_Never == written /\ errors /\ iter > MaxIterations

Exhausted == written /\ errors /\ iter >= MaxIterations

\* A version is due when there is a contract and nothing speaks against it.
Deliverable == contract # "none" /\ passed /\ ~Exhausted

\* How good the saved version is: drafted by an earlier run, or validated.
Quality ==
  CASE contract = "old" -> "stale"
    [] contract # "old" /\ valid -> "valid"
    [] OTHER -> "invalid"

\* What reaches the database and the store; stored tells if the upload and
\* the insertion went well.
Store(stored) ==
  LET failed == ~passed \/ Exhausted \/ (Deliverable /\ ~stored)
  IN  /\ version' = IF Deliverable /\ stored THEN Quality ELSE version
      /\ status' \in {status, IF failed THEN "error" ELSE "completed"}

FinalText(hasDocx) ==
  CASE Exhausted -> "failure"
    [] ~Exhausted /\ intent = "edit" -> "edited"
    [] ~Exhausted /\ intent # "edit" /\ hasDocx -> "delivered"
    [] ~Exhausted /\ intent # "edit" /\ ~hasDocx /\ recs -> "advice"
    [] OTHER -> "bare"

\* Mutant: a failed upload is taken for a stored version.
SaveResult_IgnoresFailure ==
  /\ node = "save_result"
  /\ \E stored \in BOOLEAN :
       /\ Store(stored)
       /\ docx' = Deliverable
       /\ EndWith(FinalText(Deliverable))
  /\ saved' = TRUE
  /\ UNCHANGED <<intent, settings, question, finding, draft, loops>>

SaveResult ==
  /\ node = "save_result"
  /\ \E stored \in BOOLEAN :
       /\ Store(stored)
       /\ docx' = (Deliverable /\ stored)
       /\ EndWith(FinalText(Deliverable /\ stored))
  /\ saved' = TRUE
  /\ UNCHANGED <<intent, settings, question, finding, draft, loops>>

\* The run is cancelled by the watchdog, raises, or dies with its server: the
\* thread keeps what the finished nodes wrote.  A save_result that was under
\* way may have reached the database, and so may the status of a refusal.
Cut ==
  /\ node # "idle"
  /\ EndWith("interrupted")
  /\ \/ UNCHANGED row
     \/ node = "save_result" /\ \E stored \in BOOLEAN : Store(stored)
     \/ node \in {"inform_user", "inform_unsupported_deal"} /\ SetStatus("error")
  /\ UNCHANGED <<intent, settings, question, finding, draft, loops, saved, docx>>

-----------------------------------------------------------------------------
Message == Start \/ Answer \/ AskAgain

Node ==
  \/ RouteUserMessage \/ GateFreePlan
  \/ FollowupResponse \/ FollowupSubagentSearch
  \/ LoadGeneralNorms \/ ClassifyDeal \/ InformUnsupportedDeal
  \/ CheckGeneralNorms \/ InformUser \/ RetrieveNorms
  \/ CheckWrittenForm \/ CheckDataSufficiency \/ AskClarification
  \/ GenerateRecommendations \/ EnrichRecommendations \/ GenerateContract \/ EditContract
  \/ ValidateContract \/ HandleValidationError \/ SaveResult

Next == Message \/ Node \/ Cut

Spec == Init /\ [][Next]_vars

\* A node that executes ends: the calls it makes return or raise.  Nothing is
\* assumed of the user.
FairSpec == Spec /\ WF_vars(Node)

-----------------------------------------------------------------------------
(* Properties *)

\* Every field has a value of its kind.
TypeOK ==
  /\ node \in Nodes
  /\ intent \in {"none", "regenerate", "edit", "followup"}
  /\ policy \in Policies
  /\ stage \in Stages \cup {"none"}
  /\ allowEdit \in BOOLEAN /\ needed \in BOOLEAN
  /\ dealType \in BOOLEAN /\ passed \in BOOLEAN /\ written \in BOOLEAN
  /\ contract \in {"none", "new", "old"}
  /\ valid \in BOOLEAN /\ errors \in BOOLEAN /\ recs \in BOOLEAN
  /\ asks \in Nat /\ iter \in Nat /\ tries \in Nat
  /\ saved \in BOOLEAN /\ docx \in BOOLEAN
  /\ version \in {"none", "valid", "invalid", "stale"}
  /\ status \in {"in_progress", "completed", "error"}
  /\ said \in Replies \cup {"none", "pending", "interrupted"}

\* The three loops keep to their settings over the whole life of a case, the
\* retries of a contract also across the questions that interrupt them: the
\* limits of graph.py:33-43, nodes.py:883-951 and nodes.py:587-613.
LoopsBounded ==
  /\ iter <= MaxIterations
  /\ asks <= MaxClarifications
  /\ tries < MaxSearches

\* A case on which route_user_message may take the short way, past the
\* classification and the check against the general norms, is one of a known
\* type that has passed that check (nodes.py:354-409).
ShortcutIsSafe == saved /\ HasArtifact => dealType /\ passed

\* A run edits only a contract that exists, of a case that passed the checks
\* the run skips, and under a plan that allows it; and every other run that
\* reaches the validation takes its retries (graph.py:31-43, gate.py:23-46).
EditIsEarned ==
  /\ node = "edit_contract" => intent = "edit"
  /\ node \in {"edit_contract", "validate_contract", "save_result"} /\ intent = "edit"
       => allowEdit /\ contract # "none" /\ dealType /\ passed
  /\ node \in Drafting \ {"validate_contract"} => intent = "regenerate"

\* A run ends with exactly one reply, and the thread waits for an answer
\* exactly when that reply is a question (nodes.py:1614-1616;
\* has_pending_clarification, langgraph.py:52-54): no node but the one that
\* asks comes between the opening of a question and its reply.  A run cut
\* short just there leaves a question that was never shown.
EndsWithReply ==
  /\ node = "idle" <=> said # "pending"
  /\ node = "idle" /\ needed => said \in {"question", "interrupted"}
  /\ node # "idle" /\ needed => node = "ask_clarification"
  /\ said = "question" => needed

\* A reply that announces a new version is backed by one; one that does not
\* announce any leaves none behind in the state (nodes.py:1946-1964).  An edit
\* announces its version whatever became of it, and is not covered.
ReplyMatchesDocx ==
  /\ said = "delivered" => docx /\ version # "none"
  /\ said \in {"advice", "bare", "failure"} => ~docx

\* When the law requires the written form, a regenerated contract becomes a
\* version, is announced, and completes its case, only if it passed the
\* validation (nodes.py:1880-1914).
RequiredFormIsValid ==
  [][ \/ status' = "completed" /\ status' # status
      \/ version' = "invalid" /\ version' # version
      \/ said' = "delivered" /\ said' # said
      => intent = "edit" \/ ~written \/ valid ]_vars

\* Every run comes to an end without the watchdog's help.
EveryRunEnds == node # "idle" ~> node = "idle"

\* nodes.py:1891: "Only produce a DOCX when the contract is actually valid and
\* ready to deliver."
DocxIsValid == version # "invalid"

\* routing.py:42-43: after "generate_recommendations" without a written form
\* "no contract will be produced": a run that drafts nothing saves no version.
NoDraftNoVersion == version # "stale"
=============================================================================
