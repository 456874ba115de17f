---------------------------- MODULE SuggestedForms -----------------------------
(***************************************************************************)
(* The suggestions for the form of a new document (document_ai_service)    *)
(* and the form itself (validate_payload): the classifier names labels, a  *)
(* label is matched against the entries of the catalogue that are active,  *)
(* a language model writes the title and the description, and the form is  *)
(* sent with what was suggested some time later.  Meanwhile entries are    *)
(* switched on and off on the administration site, and another browser may *)
(* send the form of the same file, which removes the file and its record.  *)
(*                                                                         *)
(* There is one temporary file.  An entry is a row of the catalogue or a   *)
(* user; a text is its length; NoEntry stands for a field without a value; *)
(* the areas of a form are one area.  Codes and acronyms are kept as they  *)
(* were typed: CodeOf is the code of a row in upper case, which two rows   *)
(* may share, and UpperCased the rows whose code is stored that way.       *)
(***************************************************************************)
EXTENDS Naturals
LOCAL INSTANCE Sequences

CONSTANTS
    Browsers,       \* the places a suggestion is asked for and a form is sent from
    CatalogRows,    \* projects, disciplines, document types, areas and users
    FieldOfRow,     \* the field of the form a row is for
    CodeOf,         \* the code or acronym of a row, in upper case
    UpperCased,     \* the rows whose code is stored in upper case
    Switchable,     \* bound: the rows that are switched on and off
    NoEntry         \* a model value

ASSUME FormsAssumption ==
    /\ FieldOfRow \in [CatalogRows -> {"project", "discipline", "document_type", "area", "responsible"}]
    /\ Switchable \subseteq CatalogRows
    /\ NoEntry \notin CatalogRows
    /\ UpperCased \subseteq CatalogRows
    /\ \A e \in CatalogRows : CodeOf[e] # NoEntry
    \* the code is unique, as it is stored
    /\ \A e, g \in UpperCased :
         FieldOfRow[e] = FieldOfRow[g] /\ CodeOf[e] = CodeOf[g] => e = g

VARIABLES
    onOffer,        \* the entries that are active
    waitingFile,    \* whether the file is in the temporary storage
    uploadRecord,   \* its document in MongoDB, or NoEntry
    browser         \* what each browser is doing, and the suggestion it has

formVars == <<onOffer, waitingFile, uploadRecord, browser>>

MaxTitle == 255
MaxDescription == 500
MaxGenerated == 600     \* bound: the longest text the language model writes

ClassifiedFields == {"discipline", "document_type", "area"}
FieldOrder == <<"discipline", "document_type", "area">>     \* CLASSIFIED_FIELDS
EntryFields == {"project", "discipline", "document_type", "area", "responsible"}

RowsOf(f) == {e \in CatalogRows : FieldOfRow[e] = f}

EveryRow(f) == RowsOf(f)                \* faulty: the inactive ones too

\* list_active_disciplines, list_active_document_types, list_active_areas.
ActiveRows(f) == RowsOf(f) \cap onOffer

Empty == [discipline |-> NoEntry, document_type |-> NoEntry, area |-> NoEntry,
          title |-> 0, description |-> 0]

AllCodes == {CodeOf[e] : e \in CatalogRows}
Codes(f) == {CodeOf[e] : e \in RowsOf(f)}

\* The code of each label of a prediction, if it is in catalog_mapping.json.
Predicted ==
    {labels \in [ClassifiedFields -> AllCodes \cup {NoEntry}] :
        \A f \in ClassifiedFields : labels[f] \in Codes(f) \cup {NoEntry}}

\* _match_catalog_code: the first of the active rows with that code, in any case;
\* their order, by name, is left open.
Matches(f, code) ==
    LET rows == {e \in ActiveRows(f) : CodeOf[e] = code}
    IN  IF rows = {} THEN {NoEntry} ELSE rows

Resting == [step |-> "idle", position |-> 1, labels |-> [f \in ClassifiedFields |-> NoEntry],
            suggestion |-> Empty, switched |-> {}]

\* What a suggestion may hold.
Suggestions ==
    [discipline : RowsOf("discipline") \cup {NoEntry},
     document_type : RowsOf("document_type") \cup {NoEntry},
     area : RowsOf("area") \cup {NoEntry},
     title : 0..MaxGenerated, description : 0..MaxGenerated]

Steps == {"idle", "reading", "matching", "writing", "saving", "shown"}

FormsTypeOK ==
    /\ onOffer \subseteq CatalogRows
    /\ waitingFile \in BOOLEAN
    /\ uploadRecord \in [text : BOOLEAN, suggested : BOOLEAN] \cup {NoEntry}
    /\ browser \in [Browsers -> [step : Steps, position : 1..3, labels : Predicted,
                                 suggestion : Suggestions, switched : SUBSET ClassifiedFields]]

FormsInit ==
    /\ onOffer \in {CatalogRows} \cup {CatalogRows \ {e} : e \in CatalogRows}
    /\ waitingFile = TRUE
    /\ uploadRecord \in [text : BOOLEAN, suggested : {FALSE}] \cup {NoEntry}
    /\ browser = [b \in Browsers |-> Resting]

--------------------------------------------------------------------------------
(* The suggestion: one action per access to a store. *)

\* The file is found, and its type is one of the two that can be classified.
AskForSuggestion(b) ==
    /\ browser[b].step \in {"idle", "shown"}
    /\ waitingFile
    /\ browser' = [browser EXCEPT ![b] = [Resting EXCEPT !.step = "reading"]]
    /\ UNCHANGED <<onOffer, waitingFile, uploadRecord>>

\* The record has no text, is missing or cannot be read: everything stays empty.
SkipClassification(b) ==
    /\ browser[b].step = "reading"
    /\ browser' = [browser EXCEPT ![b].step = "saving"]
    /\ UNCHANGED <<onOffer, waitingFile, uploadRecord>>

\* The classifier reads the text of the record; a failure leaves no labels.
PredictLabels(b) ==
    /\ browser[b].step = "reading"
    /\ uploadRecord # NoEntry
    /\ uploadRecord.text
    /\ \E labels \in Predicted :
        browser' = [browser EXCEPT ![b] = [@ EXCEPT !.step = "matching", !.labels = labels]]
    /\ UNCHANGED <<onOffer, waitingFile, uploadRecord>>

\* One query of the catalogue for each of the three fields; a label is not used again.
MatchLabel(b) ==
    LET s == browser[b]
        f == FieldOrder[s.position]
    IN
    /\ s.step = "matching"
    /\ \E entry \in Matches(f, s.labels[f]) :
        browser' = [browser EXCEPT ![b] = [s EXCEPT
            !.suggestion = [@ EXCEPT ![f] = entry],
            !.labels = [@ EXCEPT ![f] = NoEntry],
            !.position = IF @ = 3 THEN 1 ELSE @ + 1,
            !.step = IF s.position = 3 THEN "writing" ELSE @]]
    /\ UNCHANGED <<onOffer, waitingFile, uploadRecord>>

Shortened(length, maximum) == IF length > maximum THEN maximum ELSE length

\* The language model answers with texts of any length, or with nothing usable.
WriteTexts(b) ==
    LET s == browser[b] IN
    /\ s.step = "writing"
    /\ \E length \in {0, MaxGenerated} :
        browser' = [browser EXCEPT ![b] = [s EXCEPT !.step = "saving",
            !.suggestion = [@ EXCEPT !.title = Shortened(length, MaxTitle),
                                     !.description = Shortened(length, MaxDescription)]]]
    /\ UNCHANGED <<onOffer, waitingFile, uploadRecord>>

\* faulty: a record is made for the suggestion when there is none
Upserted(r) ==
    IF r = NoEntry THEN [text |-> FALSE, suggested |-> TRUE] ELSE [r EXCEPT !.suggested = TRUE]

\* update_one without upsert: nothing happens when the record is gone.
Amended(r) == IF r = NoEntry THEN NoEntry ELSE [r EXCEPT !.suggested = TRUE]

\* A failure to save is swallowed; then the answer is given.
SaveSuggestion(b) ==
    /\ browser[b].step = "saving"
    /\ uploadRecord' \in {uploadRecord, Amended(uploadRecord)}
    /\ browser' = [browser EXCEPT ![b].step = "shown"]
    /\ UNCHANGED <<onOffer, waitingFile>>

\* The answer 500, or the end of the process.
FailToSuggest(b) ==
    /\ browser[b].step \notin {"idle", "shown"}
    /\ browser' = [browser EXCEPT ![b] = Resting]
    /\ UNCHANGED <<onOffer, waitingFile, uploadRecord>>

--------------------------------------------------------------------------------
(* The form. *)

Levels == {"PUBLIC", "CONFIDENTIAL", "SECRET"}

\* What a browser may send: the suggestion as it is, and something of the
\* person's own for each field it leaves empty.
Completed(s) ==
    LET chosen(f) == IF f \in ClassifiedFields /\ s[f] # NoEntry THEN {s[f]}
                     ELSE RowsOf(f) \cup {NoEntry}
    IN  [project : chosen("project"), discipline : chosen("discipline"),
         document_type : chosen("document_type"), area : chosen("area"),
         responsible : chosen("responsible"), user : chosen("responsible"),
         confidentiality : {"PUBLIC", ""},
         title : IF s.title > 0 THEN {s.title} ELSE {0, 1}, description : {s.description}]

\* An area is sent as its acronym, turned to upper case and looked up as it is
\* stored: an area whose acronym is not stored in upper case is never found, but
\* another one whose acronym is may be.  The other entries go by their id.
AreasFound(e) ==
    {a \in RowsOf("area") \cap onOffer \cap UpperCased : e # NoEntry /\ CodeOf[a] = CodeOf[e]}

\* The fields validate_payload complains of: required, not found or inactive,
\* too long, or no level.  The user is optional; the file is always named.
Errors(form) ==
    {f \in EntryFields \ {"area"} : form[f] \notin onOffer}
    \cup {f \in {"area"} : AreasFound(form.area) = {}}
    \cup {f \in {"user"} : form.user # NoEntry /\ form.user \notin onOffer}
    \cup {f \in {"title"} : form.title \notin 1..MaxTitle}
    \cup {f \in {"description"} : form.description > MaxDescription}
    \cup {f \in {"confidentiality"} : form.confidentiality \notin Levels}

\* A form without errors.  Its document may still fail once the file was moved,
\* and the removal of the record may fail: the record stays.
SendForm(b) ==
    /\ browser[b].step = "shown"
    /\ waitingFile
    /\ \E form \in Completed(browser[b].suggestion) : Errors(form) = {}
    /\ waitingFile' = FALSE
    /\ uploadRecord' \in {uploadRecord, NoEntry}
    /\ browser' = [browser EXCEPT ![b] = Resting]
    /\ UNCHANGED onOffer

\* The administration site switches an entry on or off, or a user is removed.
SwitchEntry(e) ==
    LET f == FieldOfRow[e]
        concerned(b) == f \in ClassifiedFields /\ browser[b].suggestion[f] = e
    IN
    /\ onOffer' = IF e \in onOffer THEN onOffer \ {e} ELSE onOffer \cup {e}
    /\ browser' = [b \in Browsers |->
        [browser[b] EXCEPT !.switched = IF concerned(b) THEN @ \cup {f} ELSE @]]
    /\ UNCHANGED <<waitingFile, uploadRecord>>

FormsNext ==
    \/ \E b \in Browsers :
        \/ AskForSuggestion(b) \/ SkipClassification(b) \/ PredictLabels(b) \/ MatchLabel(b)
        \/ WriteTexts(b) \/ SaveSuggestion(b) \/ FailToSuggest(b) \/ SendForm(b)
    \/ \E e \in Switchable : SwitchEntry(e)

FormsSpec == FormsInit /\ [][FormsNext]_formVars

--------------------------------------------------------------------------------
(* Properties. *)

Suggested(s) ==
    {f \in ClassifiedFields : s[f] # NoEntry} \cup {f \in {"title", "description"} : s[f] > 0}

\* An area that is suggested in any case and looked up in upper case only.
InAnotherCase(s) == {f \in {"area"} : s.area \notin UpperCased}

\* A form is never refused for what was suggested, unless the entry has been
\* switched since it was matched, or is an area whose acronym is not stored in
\* upper case: suggestions and validation are two modules with limits, lists and
\* conversions of their own.
SuggestionsFitTheForm ==
    \A b \in Browsers : browser[b].step = "shown" =>
        LET s == browser[b].suggestion
        IN  \A form \in Completed(s) :
              Errors(form) \cap Suggested(s) \subseteq browser[b].switched \cup InAnotherCase(s)

\* A record that was removed, or was never written, does not come back: a
\* suggestion that is saved late must not leave a record without its file.
DiscardedStayDiscarded == [][uploadRecord = NoEntry => uploadRecord' = NoEntry]_formVars

--------------------------------------------------------------------------------
(* The inductive invariant. *)

\* What is suggested for a field was matched while it was on offer, so it is
\* still on offer unless the entry was switched since.
SuggestedAreOnOffer ==
    \A b \in Browsers : \A f \in ClassifiedFields :
        LET entry == browser[b].suggestion[f]
        IN  entry # NoEntry => entry \in onOffer \/ f \in browser[b].switched

\* The texts were cut when they were written.
TextsAreShort ==
    \A b \in Browsers : /\ browser[b].suggestion.title <= MaxTitle
                        /\ browser[b].suggestion.description <= MaxDescription

FormsInv == FormsTypeOK /\ SuggestedAreOnOffer /\ TextsAreShort

================================================================================
