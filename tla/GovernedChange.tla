--------------------------- MODULE GovernedChange ---------------------------
(***************************************************************************)
(* What the lifecycle of a configuration promises, without rows, requests  *)
(* or audit events: one proposal at a time is drafted, sealed, approved    *)
(* and enacted; what was enacted stays on record, in order; and only an    *)
(* approved proposal takes the place of what stands.                       *)
(***************************************************************************)
EXTENDS Sequences

CONSTANTS
    Content,    \* what a configuration may say
    MayForget   \* is the record only as durable as the process that keeps it?

VARIABLES
    proposal,   \* the change on its way, if any
    enacted,    \* everything that was ever put in force, oldest first
    standing    \* does the last of it still stand?

govVars == <<proposal, enacted, standing>>

NoProposal == [stage |-> "none"]
Proposal(stage, content) == [stage |-> stage, content |-> content]

GovInit == proposal = NoProposal /\ enacted = <<>> /\ standing = FALSE

Propose(c) ==
    /\ proposal = NoProposal
    /\ proposal' = Proposal("draft", c)
    /\ UNCHANGED <<enacted, standing>>

Revise(c) ==
    /\ proposal.stage = "draft"
    /\ proposal' = Proposal("draft", c)
    /\ UNCHANGED <<enacted, standing>>

(* From here on the content is what will be enacted.                       *)
Seal ==
    /\ proposal.stage = "draft"
    /\ proposal' = Proposal("submitted", proposal.content)
    /\ UNCHANGED <<enacted, standing>>

Endorse ==
    /\ proposal.stage = "submitted"
    /\ proposal' = Proposal("approved", proposal.content)
    /\ UNCHANGED <<enacted, standing>>

(* The approved proposal replaces what stands, in two steps.               *)
Withdraw ==
    /\ proposal.stage = "approved"
    /\ standing
    /\ standing' = FALSE
    /\ UNCHANGED <<proposal, enacted>>

Enact ==
    /\ proposal.stage = "approved"
    /\ ~standing
    /\ enacted' = Append(enacted, proposal.content)
    /\ standing' = TRUE
    /\ proposal' = NoProposal

Forget == MayForget /\ GovInit'

GovNext ==
    \/ \E c \in Content : Propose(c) \/ Revise(c)
    \/ Seal \/ Endorse \/ Withdraw \/ Enact \/ Forget

GovSpec == GovInit /\ [][GovNext]_govVars
=============================================================================
