---------------------------- MODULE MCServices -----------------------------
(* Small instances of the six components beside the life of a run and the  *)
(* inbox.  They share no variable: an execution is one of the component     *)
(* that subject names, and the others stay at one of their initial states.  *)
EXTENDS RunActions, Connections, KnowledgeIngest, Delegation, ThirdParty,
        RunAcceptance

VARIABLE subject

Subjects == {"actions", "wire", "ingest", "tree", "third party", "acceptance"}

servicesVars ==
    <<subject, actionVars, wireVars, ingestVars, treeVars, thirdPartyVars,
      acceptanceVars>>

(* Where a component is not the subject, one of its initial states will do. *)
ServicesInit ==
    /\ subject \in Subjects
    /\ ActionsInit /\ WireInit /\ IngestInit /\ TreeInit /\ ThirdPartyInit
    /\ AcceptanceInit
    /\ subject # "wire" => intent = [m \in IntentIds |-> NewIntent(TRUE, {})]
    /\ subject # "actions" => grant = "none" /\ \A c \in 1 .. Calls : risks[c] = "read"
    /\ subject # "tree" => tree[1].bot = CHOOSE bot \in Bots : TRUE
    /\ subject # "third party" => job.supportsStop
    /\ holder = CHOOSE h \in Readers : TRUE
    /\ card.guest \in Hooked
    /\ \A b \in Guests : seat[b].live => seat[b].rules = IF b \in Hooked THEN Rules ELSE {}
    /\ card.state = IF \A b \in Guests : seat[b].live THEN "sent" ELSE "unsent"
    /\ subject # "acceptance" => \A b \in Guests : seat[b].live

(* Bound: rules that would differ in nothing but their number.              *)
FewRules ==
    /\ \A m \in DOMAIN sent : sent[m].fits \in {{}, Rules}
    /\ \A b \in Guests : seat[b].rules \in {{}, {1}, Rules}

ServicesNext ==
    \/ /\ subject = "actions" /\ ActionsNext
       /\ UNCHANGED <<subject, wireVars, ingestVars, treeVars, thirdPartyVars,
                      acceptanceVars>>
    \/ /\ subject = "wire" /\ WireNext
       /\ UNCHANGED <<subject, actionVars, ingestVars, treeVars, thirdPartyVars,
                      acceptanceVars>>
    \/ /\ subject = "ingest" /\ IngestNext
       /\ UNCHANGED <<subject, actionVars, wireVars, treeVars, thirdPartyVars,
                      acceptanceVars>>
    \/ /\ subject = "tree" /\ TreeNext
       /\ UNCHANGED <<subject, actionVars, wireVars, ingestVars, thirdPartyVars,
                      acceptanceVars>>
    \/ /\ subject = "third party" /\ ThirdPartyNext
       /\ UNCHANGED <<subject, actionVars, wireVars, ingestVars, treeVars,
                      acceptanceVars>>
    \/ /\ subject = "acceptance" /\ AcceptanceNext /\ FewRules'
       /\ UNCHANGED <<subject, actionVars, wireVars, ingestVars, treeVars,
                      thirdPartyVars>>

ServicesSpec == ServicesInit /\ [][ServicesNext]_servicesVars

(* The values of the variables of each component have their types.  The     *)
(* others stay where that component begins when it is the subject.          *)
ServicesTypeOK ==
    /\ subject = "actions" => ActionsTypeOK
    /\ subject = "wire" => WireTypeOK
    /\ subject = "ingest" => IngestTypeOK
    /\ subject = "tree" => DelegationTypeOK
    /\ subject = "third party" => ThirdPartyTypeOK
    /\ subject = "acceptance" => AcceptanceTypeOK

=============================================================================
