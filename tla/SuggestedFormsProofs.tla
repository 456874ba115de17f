-------------------------- MODULE SuggestedFormsProofs --------------------------
(***************************************************************************)
(* Proofs about SuggestedForms, for any number of browsers and any         *)
(* catalogue: a form is never refused for what was suggested, unless the   *)
(* entry was switched since it was matched, or is an area whose acronym is *)
(* not stored in upper case.                                               *)
(*                                                                         *)
(* The property looks at what is shown only.  Its inductive form,          *)
(* FormsInv, holds from the moment a label is matched: the texts are cut   *)
(* and what is suggested is on offer or was switched, whatever the browser *)
(* is doing.                                                               *)
(***************************************************************************)
EXTENDS SuggestedForms, TLAPS

Requests == [step : Steps, position : 1..3, labels : Predicted,
             suggestion : Suggestions, switched : SUBSET ClassifiedFields]

\* What FormsInv says of one browser, given the entries on offer.
Sound(s, offered) ==
    /\ \A f \in ClassifiedFields : s.suggestion[f] # NoEntry =>
            s.suggestion[f] \in offered \/ f \in s.switched
    /\ s.suggestion.title <= MaxTitle
    /\ s.suggestion.description <= MaxDescription

--------------------------------------------------------------------------------
(* Lemmas about the operators. *)

\* The invariant is a statement about each browser.
LEMMA ByBrowser ==
    FormsInv <=> /\ FormsTypeOK
                 /\ \A b \in Browsers : Sound(browser[b], onOffer)
BY DEF FormsInv, SuggestedAreOnOffer, TextsAreShort, Sound

\* A suggestion holds, for a field that is classified, an entry of that field.
LEMMA FieldsAreTyped ==
    ASSUME NEW s \in Suggestions, NEW f \in ClassifiedFields
    PROVE  s[f] \in RowsOf(f) \cup {NoEntry}
BY DEF Suggestions, ClassifiedFields

\* An entry of a field may be put into a suggestion: nothing else changes.
LEMMA FieldIsSet ==
    ASSUME NEW s \in Suggestions, NEW f \in ClassifiedFields,
           NEW entry \in RowsOf(f) \cup {NoEntry}
    PROVE  LET x == [s EXCEPT ![f] = entry]
           IN  /\ x \in Suggestions
               /\ x[f] = entry
               /\ \A g \in ClassifiedFields \ {f} : x[g] = s[g]
               /\ x.title = s.title /\ x.description = s.description
<1>1. CASE f = "discipline"
  BY <1>1 DEF Suggestions, ClassifiedFields
<1>2. CASE f = "document_type"
  BY <1>2 DEF Suggestions, ClassifiedFields
<1>3. CASE f = "area"
  BY <1>3 DEF Suggestions, ClassifiedFields
<1> QED BY <1>1, <1>2, <1>3 DEF ClassifiedFields

\* The request at rest is one, with nothing suggested.
LEMMA RestingIsSound ==
    ASSUME NEW offered
    PROVE  Resting \in Requests /\ Sound(Resting, offered)
<1>1. Empty \in Suggestions
  BY DEF Empty, Suggestions, MaxGenerated
<1>2. [f \in ClassifiedFields |-> NoEntry] \in Predicted
  <2> DEFINE none == [f \in ClassifiedFields |-> NoEntry]
  <2>1. none \in [ClassifiedFields -> AllCodes \cup {NoEntry}]
    OBVIOUS
  <2>2. \A f \in ClassifiedFields : none[f] \in Codes(f) \cup {NoEntry}
    OBVIOUS
  <2> QED BY <2>1, <2>2 DEF Predicted
<1>3. Resting \in Requests
  BY <1>1, <1>2 DEF Resting, Requests, Steps
<1>4. Sound(Resting, offered)
  BY DEF Resting, Sound, Empty, ClassifiedFields, MaxTitle, MaxDescription
<1> QED BY <1>3, <1>4

\* Changing the request of one browser keeps the invariant if the new one is sound.
LEMMA OneBrowser ==
    ASSUME FormsInv, NEW b \in Browsers, NEW s \in Requests, Sound(s, onOffer),
           browser' = [browser EXCEPT ![b] = s],
           onOffer' = onOffer,
           waitingFile' \in BOOLEAN,
           uploadRecord' \in [text : BOOLEAN, suggested : BOOLEAN] \cup {NoEntry}
    PROVE  FormsInv'
<1>1. FormsTypeOK'
  BY DEF FormsInv, FormsTypeOK, Requests
<1>2. \A c \in Browsers : Sound(browser[c], onOffer)'
  <2> SUFFICES ASSUME NEW c \in Browsers PROVE Sound(browser[c], onOffer)'
    OBVIOUS
  <2>1. browser'[c] = IF c = b THEN s ELSE browser[c]
    BY DEF FormsInv, FormsTypeOK
  <2>2. Sound(browser'[c], onOffer')
    BY <2>1, ByBrowser
  <2> QED BY <2>2 DEF Sound
<1> QED BY <1>1, <1>2 DEF FormsInv, SuggestedAreOnOffer, TextsAreShort, Sound

\* What is known of the request of a browser.
LEMMA BrowserIsSound ==
    ASSUME FormsInv, NEW b \in Browsers
    PROVE  /\ browser[b] \in Requests
           /\ Sound(browser[b], onOffer)
BY ByBrowser DEF FormsInv, FormsTypeOK, Requests

\* A step of one browser that changes no store but the record, and leaves its
\* suggestion as it was.
LEMMA StepIsSound ==
    ASSUME FormsInv, NEW b \in Browsers, NEW s \in Steps,
           browser' = [browser EXCEPT ![b].step = s],
           UNCHANGED <<onOffer, waitingFile>>,
           uploadRecord' \in [text : BOOLEAN, suggested : BOOLEAN] \cup {NoEntry}
    PROVE  FormsInv'
<1> DEFINE r == [browser[b] EXCEPT !.step = s]
<1>1. browser[b] \in Requests /\ Sound(browser[b], onOffer)
  BY BrowserIsSound
<1>2. r \in Requests /\ Sound(r, onOffer)
  BY <1>1 DEF Requests, Sound
<1>3. browser' = [browser EXCEPT ![b] = r] /\ waitingFile' \in BOOLEAN
  BY DEF FormsInv, FormsTypeOK
<1> QED BY <1>2, <1>3, OneBrowser

\* A request that is begun, answered with an error or turned into a form.
LEMMA ForgottenIsSound ==
    ASSUME FormsInv, NEW b \in Browsers, NEW s \in Steps,
           browser' = [browser EXCEPT ![b] = [Resting EXCEPT !.step = s]],
           UNCHANGED onOffer, waitingFile' \in BOOLEAN,
           uploadRecord' \in [text : BOOLEAN, suggested : BOOLEAN] \cup {NoEntry}
    PROVE  FormsInv'
<1> DEFINE r == [Resting EXCEPT !.step = s]
<1>1. Resting \in Requests /\ Sound(Resting, onOffer)
  BY RestingIsSound
<1>2. r \in Requests /\ Sound(r, onOffer)
  BY <1>1 DEF Requests, Sound
<1> QED BY <1>2, OneBrowser

--------------------------------------------------------------------------------
(* The initial states, and one lemma for each action that changes a suggestion. *)

LEMMA InitIsSound == FormsInit => FormsInv
<1> SUFFICES ASSUME FormsInit PROVE FormsInv
  OBVIOUS
<1>1. Resting \in Requests /\ Sound(Resting, onOffer)
  BY RestingIsSound
<1>2. \A b \in Browsers : browser[b] = Resting
  BY DEF FormsInit
<1>3. FormsTypeOK
  <2>1. browser \in [Browsers -> Requests]
    BY <1>1 DEF FormsInit
  <2>2. onOffer \subseteq CatalogRows
    BY DEF FormsInit
  <2>3. uploadRecord \in [text : BOOLEAN, suggested : BOOLEAN] \cup {NoEntry}
    BY DEF FormsInit
  <2> QED BY <2>1, <2>2, <2>3 DEF FormsTypeOK, FormsInit, Requests
<1> QED BY <1>1, <1>2, <1>3, ByBrowser

\* The classifier names labels; nothing is suggested yet.
LEMMA PredictionIsSound ==
    ASSUME FormsInv, NEW b \in Browsers, PredictLabels(b)
    PROVE  FormsInv'
<1>1. browser[b] \in Requests /\ Sound(browser[b], onOffer)
  BY BrowserIsSound
<1>2. PICK labels \in Predicted :
        browser' = [browser EXCEPT ![b] =
                       [browser[b] EXCEPT !.step = "matching", !.labels = labels]]
  BY DEF PredictLabels
<1> DEFINE r == [browser[b] EXCEPT !.step = "matching", !.labels = labels]
<1>3. r \in Requests /\ Sound(r, onOffer)
  BY <1>1 DEF Requests, Sound, Steps
<1>4. browser' = [browser EXCEPT ![b] = r] /\ UNCHANGED <<onOffer, waitingFile, uploadRecord>>
  BY <1>2 DEF PredictLabels
<1>5. /\ waitingFile' \in BOOLEAN
      /\ uploadRecord' \in [text : BOOLEAN, suggested : BOOLEAN] \cup {NoEntry}
  BY <1>4 DEF FormsInv, FormsTypeOK
<1> QED BY <1>3, <1>4, <1>5, OneBrowser

\* An entry is suggested only if the query finds it among those on offer.
LEMMA MatchIsSound ==
    ASSUME FormsInv, NEW b \in Browsers, MatchLabel(b)
    PROVE  FormsInv'
<1> DEFINE s == browser[b]
           f == FieldOrder[s.position]
           l == [s.labels EXCEPT ![f] = NoEntry]
           p == IF s.position = 3 THEN 1 ELSE s.position + 1
           t == IF s.position = 3 THEN "writing" ELSE s.step
<1>found. PICK entry \in Matches(f, s.labels[f]) :
            browser' = [browser EXCEPT ![b] = [s EXCEPT
                !.suggestion = [s.suggestion EXCEPT ![f] = entry],
                !.labels = l, !.position = p, !.step = t]]
  BY DEF MatchLabel
<1> DEFINE x == [s.suggestion EXCEPT ![f] = entry]
           r == [s EXCEPT !.suggestion = x, !.labels = l, !.position = p, !.step = t]
<1>1. s \in Requests /\ Sound(s, onOffer)
  BY BrowserIsSound
<1>2. /\ s.step \in Steps /\ s.position \in 1..3 /\ s.labels \in Predicted
      /\ s.suggestion \in Suggestions /\ s.switched \in SUBSET ClassifiedFields
  BY <1>1 DEF Requests
<1>3. f \in ClassifiedFields
  BY <1>2 DEF FieldOrder, ClassifiedFields
<1>4. /\ entry \in RowsOf(f) \cup {NoEntry}
      /\ entry # NoEntry => entry \in onOffer
  BY <1>found DEF Matches, ActiveRows
<1>5. /\ x \in Suggestions /\ x[f] = entry
      /\ \A g \in ClassifiedFields \ {f} : x[g] = s.suggestion[g]
      /\ x.title = s.suggestion.title /\ x.description = s.suggestion.description
  <2> HIDE DEF f
  <2> QED BY <1>2, <1>3, <1>4, FieldIsSet
<1>6. l \in Predicted
  <2> HIDE DEF f
  <2>1. l \in [ClassifiedFields -> AllCodes \cup {NoEntry}]
    BY <1>2 DEF Predicted
  <2>2. \A g \in ClassifiedFields : l[g] \in Codes(g) \cup {NoEntry}
    BY <1>2 DEF Predicted
  <2> QED BY <2>1, <2>2 DEF Predicted
<1>7. p \in 1..3 /\ t \in Steps
  BY <1>2 DEF Steps
<1>8. r \in Requests /\ r.suggestion = x /\ r.switched = s.switched
  <2> HIDE DEF x, l, p, t
  <2> QED BY <1>1, <1>5, <1>6, <1>7 DEF Requests
<1>9. Sound(r, onOffer)
  <2> HIDE DEF x, r, f
  <2> QED BY <1>1, <1>4, <1>5, <1>8 DEF Sound
<1>10. browser' = [browser EXCEPT ![b] = r] /\ UNCHANGED <<onOffer, waitingFile, uploadRecord>>
  BY <1>found DEF MatchLabel
<1>11. /\ waitingFile' \in BOOLEAN
       /\ uploadRecord' \in [text : BOOLEAN, suggested : BOOLEAN] \cup {NoEntry}
  BY <1>10 DEF FormsInv, FormsTypeOK
<1> HIDE DEF r
<1> QED BY <1>8, <1>9, <1>10, <1>11, OneBrowser

\* A text is never longer than what it was cut to.
LEMMA ShortenedIsShort ==
    ASSUME NEW n \in Nat, NEW m \in Nat
    PROVE  Shortened(n, m) \in 0..m
BY DEF Shortened

\* The texts are cut before they are kept.
LEMMA TextsAreSound ==
    ASSUME FormsInv, NEW b \in Browsers, WriteTexts(b)
    PROVE  FormsInv'
<1> DEFINE s == browser[b]
<1>1. s \in Requests /\ Sound(s, onOffer)
  BY BrowserIsSound
<1>2. PICK length \in {0, MaxGenerated} :
        browser' = [browser EXCEPT ![b] = [browser[b] EXCEPT !.step = "saving",
            !.suggestion = [browser[b].suggestion EXCEPT
                !.title = Shortened(length, MaxTitle), !.description = Shortened(length, MaxDescription)]]]
  BY DEF WriteTexts
<1> DEFINE title == Shortened(length, MaxTitle)
           description == Shortened(length, MaxDescription)
           x == [s.suggestion EXCEPT !.title = title, !.description = description]
           r == [s EXCEPT !.step = "saving", !.suggestion = x]
<1>3. title \in 0..MaxTitle /\ description \in 0..MaxDescription
  <2>1. length \in Nat /\ MaxTitle \in Nat /\ MaxDescription \in Nat
    BY DEF MaxGenerated, MaxTitle, MaxDescription
  <2> QED BY <2>1, ShortenedIsShort
<1>4. /\ x \in Suggestions
      /\ x.title = title /\ x.description = description
      /\ \A g \in ClassifiedFields : x[g] = s.suggestion[g]
  <2>1. s.suggestion \in Suggestions
    BY <1>1 DEF Requests
  <2>2. title \in 0..MaxGenerated /\ description \in 0..MaxGenerated
    BY <1>3 DEF MaxGenerated, MaxTitle, MaxDescription
  <2> HIDE DEF title, description, s
  <2> QED BY <2>1, <2>2 DEF Suggestions, ClassifiedFields
<1>5. r \in Requests /\ r.suggestion = x /\ r.switched = s.switched
  <2> HIDE DEF x
  <2> QED BY <1>1, <1>4 DEF Requests, Steps
<1>6. Sound(r, onOffer)
  <2> HIDE DEF x, r, title, description
  <2> QED BY <1>1, <1>3, <1>4, <1>5 DEF Sound, MaxTitle, MaxDescription
<1>7. browser' = [browser EXCEPT ![b] = r] /\ UNCHANGED <<onOffer, waitingFile, uploadRecord>>
  BY <1>2 DEF WriteTexts
<1>8. /\ waitingFile' \in BOOLEAN
      /\ uploadRecord' \in [text : BOOLEAN, suggested : BOOLEAN] \cup {NoEntry}
  BY <1>7 DEF FormsInv, FormsTypeOK
<1> HIDE DEF r
<1> QED BY <1>5, <1>6, <1>7, <1>8, OneBrowser

\* An entry that is switched is marked in every suggestion that holds it.
LEMMA SwitchIsSound ==
    ASSUME FormsInv, NEW e \in Switchable, SwitchEntry(e)
    PROVE  FormsInv'
<1> DEFINE f == FieldOfRow[e]
           marked(b) == IF f \in ClassifiedFields /\ browser[b].suggestion[f] = e
                        THEN browser[b].switched \cup {f} ELSE browser[b].switched
<1>1. /\ e \in CatalogRows /\ e # NoEntry
      /\ onOffer \in SUBSET CatalogRows
  BY FormsAssumption DEF FormsInv, FormsTypeOK
<1>2. /\ onOffer' = IF e \in onOffer THEN onOffer \ {e} ELSE onOffer \cup {e}
      /\ browser' = [b \in Browsers |-> [browser[b] EXCEPT !.switched = marked(b)]]
      /\ UNCHANGED <<waitingFile, uploadRecord>>
  BY DEF SwitchEntry
<1>3. \A b \in Browsers : browser'[b] \in Requests /\ Sound(browser'[b], onOffer')
  <2> SUFFICES ASSUME NEW b \in Browsers
               PROVE  browser'[b] \in Requests /\ Sound(browser'[b], onOffer')
    OBVIOUS
  <2> DEFINE s == browser[b]
             r == [s EXCEPT !.switched = marked(b)]
  <2>1. s \in Requests /\ Sound(s, onOffer)
    BY BrowserIsSound
  <2>2. browser'[b] = r
    BY <1>2
  <2>3. marked(b) \in SUBSET ClassifiedFields /\ s.switched \subseteq marked(b)
    BY <2>1 DEF Requests
  <2>4. r \in Requests /\ r.suggestion = s.suggestion /\ r.switched = marked(b)
    <3> HIDE DEF marked
    <3> QED BY <2>1, <2>3 DEF Requests
  <2>5. \A g \in ClassifiedFields : s.suggestion[g] # NoEntry =>
            s.suggestion[g] \in onOffer' \/ g \in marked(b)
    <3> SUFFICES ASSUME NEW g \in ClassifiedFields, s.suggestion[g] # NoEntry
                 PROVE  s.suggestion[g] \in onOffer' \/ g \in marked(b)
      OBVIOUS
    <3>1. s.suggestion[g] \in onOffer \/ g \in s.switched
      BY <2>1 DEF Sound
    <3>2. CASE g \in s.switched
      BY <2>3, <3>2
    <3>3. CASE s.suggestion[g] \in onOffer /\ s.suggestion[g] # e
      BY <1>2, <3>3
    <3>4. CASE s.suggestion[g] = e
      <4>1. s.suggestion \in Suggestions
        BY <2>1 DEF Requests
      <4>2. e \in RowsOf(g)
        BY <1>1, <3>4, <4>1, FieldsAreTyped
      <4>3. f = g
        BY <4>2 DEF RowsOf
      <4> QED BY <3>4, <4>3
    <3> QED BY <3>1, <3>2, <3>3, <3>4
  <2>6. Sound(r, onOffer')
    <3> HIDE DEF marked, r
    <3> QED BY <2>1, <2>4, <2>5 DEF Sound
  <2> QED BY <2>2, <2>4, <2>6
<1>4. FormsTypeOK'
  <2>1. browser' \in [Browsers -> Requests]
    BY <1>2, <1>3
  <2>2. onOffer' \subseteq CatalogRows
    BY <1>1, <1>2
  <2> QED BY <1>2, <2>1, <2>2 DEF FormsInv, FormsTypeOK, Requests
<1>5. SuggestedAreOnOffer' /\ TextsAreShort'
  BY <1>3 DEF SuggestedAreOnOffer, TextsAreShort, Sound
<1> QED BY <1>4, <1>5 DEF FormsInv

--------------------------------------------------------------------------------
(* The theorems. *)

\* Every step keeps the invariant.
LEMMA StepKeepsSound == FormsInv /\ [FormsNext]_formVars => FormsInv'
<1> SUFFICES ASSUME FormsInv, [FormsNext]_formVars PROVE FormsInv'
  OBVIOUS
<1> USE DEF Steps
<1>1. /\ waitingFile \in BOOLEAN
      /\ uploadRecord \in [text : BOOLEAN, suggested : BOOLEAN] \cup {NoEntry}
  BY DEF FormsInv, FormsTypeOK
<1>2. ASSUME NEW b \in Browsers, AskForSuggestion(b) PROVE FormsInv'
  BY <1>1, <1>2, ForgottenIsSound DEF AskForSuggestion
<1>3. ASSUME NEW b \in Browsers, SkipClassification(b) PROVE FormsInv'
  BY <1>1, <1>3, StepIsSound DEF SkipClassification
<1>4. ASSUME NEW b \in Browsers, PredictLabels(b) PROVE FormsInv'
  BY <1>4, PredictionIsSound
<1>5. ASSUME NEW b \in Browsers, MatchLabel(b) PROVE FormsInv'
  BY <1>5, MatchIsSound
<1>6. ASSUME NEW b \in Browsers, WriteTexts(b) PROVE FormsInv'
  BY <1>6, TextsAreSound
<1>7. ASSUME NEW b \in Browsers, SaveSuggestion(b) PROVE FormsInv'
  <2>1. uploadRecord' \in [text : BOOLEAN, suggested : BOOLEAN] \cup {NoEntry}
    BY <1>1, <1>7 DEF SaveSuggestion, Amended
  <2> QED BY <1>7, <2>1, StepIsSound DEF SaveSuggestion
<1>8. ASSUME NEW b \in Browsers, FailToSuggest(b) PROVE FormsInv'
  <2>1. Resting \in Requests /\ Sound(Resting, onOffer)
    BY RestingIsSound
  <2> QED BY <1>1, <1>8, <2>1, OneBrowser DEF FailToSuggest
<1>9. ASSUME NEW b \in Browsers, SendForm(b) PROVE FormsInv'
  <2>1. Resting \in Requests /\ Sound(Resting, onOffer)
    BY RestingIsSound
  <2>2. uploadRecord' \in [text : BOOLEAN, suggested : BOOLEAN] \cup {NoEntry}
    BY <1>1, <1>9 DEF SendForm
  <2> QED BY <1>9, <2>1, <2>2, OneBrowser DEF SendForm
<1>10. ASSUME NEW e \in Switchable, SwitchEntry(e) PROVE FormsInv'
  BY <1>10, SwitchIsSound
<1>11. CASE UNCHANGED formVars
  BY <1>11 DEF formVars, FormsInv, FormsTypeOK, SuggestedAreOnOffer, TextsAreShort
<1> QED
  BY <1>2, <1>3, <1>4, <1>5, <1>6, <1>7, <1>8, <1>9, <1>10, <1>11 DEF FormsNext

\* The inductive invariant of the suggestions, with their types.
THEOREM FormsInvariantHolds == FormsSpec => []FormsInv
BY InitIsSound, StepKeepsSound, PTL DEF FormsSpec

\* What the invariant says of a form that is sent with what was suggested.
LEMMA FormIsAccepted ==
    ASSUME FormsInv
    PROVE  SuggestionsFitTheForm
<1> SUFFICES ASSUME NEW b \in Browsers, NEW form \in Completed(browser[b].suggestion),
                    NEW f \in Errors(form) \cap Suggested(browser[b].suggestion)
             PROVE  f \in browser[b].switched \cup InAnotherCase(browser[b].suggestion)
  BY DEF SuggestionsFitTheForm
<1> DEFINE s == browser[b].suggestion
<1>1. Sound(browser[b], onOffer) /\ s \in Suggestions
  BY BrowserIsSound DEF Requests
<1>texts. s.title \in Nat /\ s.description \in Nat
  <2> HIDE DEF s
  <2> QED BY <1>1 DEF Suggestions, MaxGenerated
<1>2. CASE f \in ClassifiedFields
  <2>1. s[f] # NoEntry
    BY <1>2 DEF Suggested, ClassifiedFields
  <2>2. form[f] = s[f]
    BY <1>2, <2>1 DEF Completed, ClassifiedFields
  <2>3. CASE f = "area"
    <3>1. s.area \in RowsOf("area")
      BY <1>1, <2>1, <2>3 DEF Suggestions
    <3>2. AreasFound(s.area) = {}
      BY <2>2, <2>3 DEF Errors, EntryFields
    <3>3. s.area \notin onOffer \/ s.area \notin UpperCased
      BY <2>1, <2>3, <3>1, <3>2 DEF AreasFound
    <3> QED BY <1>1, <1>2, <2>1, <2>3, <3>3 DEF Sound, InAnotherCase
  <2>4. CASE f # "area"
    <3>1. form[f] \notin onOffer
      BY <1>2, <2>4 DEF Errors, ClassifiedFields
    <3> QED BY <1>1, <1>2, <2>1, <2>2, <3>1 DEF Sound
  <2> QED BY <2>3, <2>4
<1>3. CASE f = "title"
  <2>1. s.title > 0
    BY <1>3 DEF Suggested, ClassifiedFields
  <2>2. form.title = s.title
    BY <2>1 DEF Completed
  <2>3. form.title \notin 1..MaxTitle
    BY <1>3 DEF Errors, EntryFields
  <2>4. s.title \in Nat /\ s.title <= MaxTitle
    BY <1>1, <1>texts DEF Sound
  <2> QED BY <2>1, <2>2, <2>3, <2>4 DEF MaxTitle
<1>4. CASE f = "description"
  <2>1. form.description = s.description
    BY DEF Completed
  <2>2. form.description > MaxDescription
    BY <1>4 DEF Errors, EntryFields
  <2>3. s.description \in Nat /\ s.description <= MaxDescription
    BY <1>1, <1>texts DEF Sound
  <2> QED BY <2>1, <2>2, <2>3 DEF MaxDescription
<1> QED BY <1>2, <1>3, <1>4 DEF Suggested

\* A form is never refused for what was suggested to it, but for an entry that
\* was switched meanwhile or an area stored in another case: validate_payload
\* against the suggestions of document_ai_service.
THEOREM SuggestionsFit == FormsSpec => []SuggestionsFitTheForm
BY FormIsAccepted, FormsInvariantHolds, PTL

\* A record of an upload that is gone stays gone, however late a suggestion for
\* it is saved.
THEOREM DiscardedStay == FormsSpec => DiscardedStayDiscarded
<1>1. [FormsNext]_formVars => [uploadRecord = NoEntry => uploadRecord' = NoEntry]_formVars
  BY DEF FormsNext, AskForSuggestion, SkipClassification, PredictLabels, MatchLabel,
         WriteTexts, SaveSuggestion, Amended, FailToSuggest, SendForm, SwitchEntry, formVars
<1> QED BY <1>1, PTL DEF FormsSpec, DiscardedStayDiscarded
================================================================================
