------------------------------- MODULE MCSupport -------------------------------
(***************************************************************************)
(* The small instances of the parts beside the core of the system: each    *)
(* behaviour is one of one part, and the others keep their initial state.  *)
(* The part "reading" takes no steps: each of its initial states is one    *)
(* question to the pure rules.                                             *)
(***************************************************************************)
EXTENDS IngestionTrail, ReadingRules, DatasetCollection, AreaLabelling, SeedRuns,
        SuggestedForms, TLC

CONSTANT Parts      \* the parts a run checks

VARIABLE part

MCAreasOfDocument == [d \in Documents |-> {"piping"}]
MCAreaOfPerson == [u \in People |-> "piping"]
MCSiteList == <<2, 1, 3>>
MCIdentDocument == <<"one", "one", "two">>
MCRowText == <<"s", "t", "s">>
MCFieldOfRow == [est |-> "discipline", ens |-> "document_type", piping |-> "area", pip |-> "area",
                   asa |-> "project", ana |-> "responsible"]
\* Two areas whose acronyms differ in case only; a type stored in lower case.
MCCodeOf == [est |-> "EST", ens |-> "ENS", piping |-> "PIP", pip |-> "PIP",
               asa |-> "ASA", ana |-> "ANA"]
Data == INSTANCE SeedData
MCSeedManagers == Data!DemoManagers
MCSeedUsers == Data!DemoUsers
MCSeedProjects == Data!DemoProjects
MCSeedDisciplines == Data!DemoDisciplines
MCSeedTypes == Data!DemoTypes
MCSeedDocuments == Data!DemoDocuments
MCSeedRevisions == Data!DemoRevisions
MCFilesByType == Data!DemoFilesByType
MCSeedAccesses == Data!DemoAccesses
MCSeedClauses == Data!DemoClauses
MCOwnTexts == <<"s", "t", "u">>

\* A bound: everything is on offer at first, but for one area.
FirstOffers == {CatalogRows, CatalogRows \ {"piping"}}

Init ==
    /\ part \in Parts
    /\ IF part = "reading" THEN ReadInit ELSE question = [none |-> NoKey]
    /\ TrailInit /\ CollectInit /\ LabelInit /\ SeedInit
    /\ FormsInit
    /\ IF part = "forms" THEN onOffer \in FirstOffers
       ELSE onOffer = CatalogRows /\ uploadRecord = NoEntry

\* A bound: three kinds of failures and races at most, together.
MaxFlaws == 3

Trail == part = "trail" /\ TrailNext /\ Cardinality(flaws') <= MaxFlaws
         /\ UNCHANGED <<part, question, collectVars, labelVars, seedVars, formVars>>
Collect == part = "collection" /\ CollectNext /\ UNCHANGED <<part, question, trailVars, labelVars, seedVars, formVars>>
Label == part = "labelling" /\ LabelNext /\ UNCHANGED <<part, question, trailVars, collectVars, seedVars, formVars>>
SeedAgain == part = "seeding" /\ SeedNext /\ UNCHANGED <<part, question, trailVars, collectVars, labelVars, formVars>>
Form == part = "forms" /\ FormsNext /\ UNCHANGED <<part, question, trailVars, collectVars, labelVars, seedVars>>

Next == Trail \/ Collect \/ Label \/ SeedAgain \/ Form

Spec == Init /\ [][Next]_<<part, question, trailVars, collectVars, labelVars, seedVars, formVars>>

\* The types of the variables of every part.
SupportTypeOK == TrailTypeOK /\ CollectTypeOK /\ LabelTypeOK /\ SeedTypeOK
                 /\ FormsTypeOK

Symmetry == Permutations(Workers) \cup Permutations(Browsers)
================================================================================
