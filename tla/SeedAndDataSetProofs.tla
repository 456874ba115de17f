------------------------- MODULE SeedAndDataSetProofs --------------------------
(***************************************************************************)
(* Proofs about the commands that fill tables and files, for every input   *)
(* and every number of runs, killed and given up ones too: what            *)
(* label_areas writes can be relied on under every number of criteria      *)
(* versions, what the commands of the collection leave behind has          *)
(* everything, and everything once, for every list of identifiers, and the *)
(* seed creates each row once and undoes no work, for all data and every   *)
(* use of the rows between its runs.                                       *)
(***************************************************************************)
EXTENDS AreaLabelling, DatasetCollection, SeedRuns, FiniteSetTheorems, SequenceTheorems,
        WellFoundedInduction, TLAPS

--------------------------------------------------------------------------------
(* Lemmas about rows and keys. *)

\* Every row of the input has a key under every version of the criteria.
LEMMA RowHasKey ==
    ASSUME LabelInv, Working
    PROVE  /\ Row \in DOMAIN RowText /\ Row = Len(labels) + 1 /\ Len(labels) \in Nat
           /\ RowKey \in Keys /\ RowKey = <<RowText[Row], version>>
           /\ version # NoLabel
<1>1. labels \in Seq(Keys \cup {NoLabel}) /\ version \in CriteriaVersions \cup {NoLabel}
  BY DEF LabelInv, LabelTypeOK
<1>2. DOMAIN RowText = 1..Len(RowText) /\ Len(RowText) \in Nat
  BY LabellingAssumption
<1>3. Row \in DOMAIN RowText /\ Row = Len(labels) + 1 /\ Len(labels) \in Nat
  BY <1>1, <1>2 DEF Working, Row
<1>4. RowText[Row] \in Range(RowText)
  BY <1>3 DEF Range
<1>5. version \in CriteriaVersions /\ version # NoLabel
  BY <1>1 DEF Working, Running
<1> QED BY <1>3, <1>4, <1>5 DEF RowKey, AreaKey, Keys

\* A label that is known is the label of its key, and was answered.
LEMMA KnownIsFound ==
    ASSUME LabelInv, Running, NEW key, IsKnown(key)
    PROVE  Cached(key) = key /\ <<key, key>> \in Answers
<1> DEFINE found == CHOOSE entry \in known : entry[1] = key
<1>1. found \in known /\ found[1] = key
  BY DEF IsKnown
<1>2. found \in Answers /\ found[2] = key /\ known \subseteq Keys \X Keys
  BY <1>1 DEF LabelInv, KnownIsTheCache, CacheIsOfItsKeys, LabelTypeOK
<1>3. found = <<key, key>>
  <2> HIDE DEF found
  <2>1. \A entry \in Keys \X Keys : entry = <<entry[1], entry[2]>>
    OBVIOUS
  <2> QED BY <1>1, <1>2, <2>1
<1>4. Cached(key) = found[2]
  BY DEF Cached
<1> QED BY <1>2, <1>3, <1>4

\* A sequence without its last element: the others are where they were.
LEMMA AllButTheLast ==
    ASSUME NEW S, NEW s \in Seq(S)
    PROVE  /\ SubSeq(s, 1, Len(s) - 1) \in Seq(S)
           /\ DOMAIN SubSeq(s, 1, Len(s) - 1) = 1 .. Len(s) - 1
           /\ \A n \in 1 .. Len(s) - 1 : SubSeq(s, 1, Len(s) - 1)[n] = s[n]
<1> DEFINE m == Len(s) - 1
           front == SubSeq(s, 1, m)
<1>1. Len(s) \in Nat /\ DOMAIN s = 1..Len(s) /\ m \in Int /\ m <= Len(s)
      /\ \A n \in 1..m : s[n] \in S
  OBVIOUS
<1>2. /\ front \in Seq(S)
      /\ Len(front) = IF 1 <= m THEN m - 1 + 1 ELSE 0
      /\ \A n \in 1 .. m - 1 + 1 : front[n] = s[1 + n - 1]
  <2> HIDE DEF m
  <2> QED BY <1>1, SubSeqProperties
<1>3. DOMAIN front = 1..m
  <2>1. Len(front) = IF 1 <= m THEN m ELSE 0
    BY <1>1, <1>2
  <2>2. DOMAIN front = 1..Len(front)
    BY <1>2, LenProperties
  <2>3. 1..(IF 1 <= m THEN m ELSE 0) = 1..m
    <3> HIDE DEF m
    <3>1. CASE 1 <= m
      BY <3>1
    <3>2. CASE ~(1 <= m)
      <4>1. 1..m = {} /\ 1..0 = {}
        BY <1>1, <3>2
      <4> QED BY <3>2, <4>1
    <3> QED BY <3>1, <3>2
  <2> QED BY <2>1, <2>2, <2>3
<1>4. \A n \in 1..m : front[n] = s[n]
  <2> HIDE DEF m
  <2> QED BY <1>1, <1>2
<1> QED BY <1>2, <1>3, <1>4

\* What is said of the cache file whether a command runs or not.
CacheIsSound ==
    /\ cacheFile \in Seq(Keys \X Keys) /\ merged \subseteq Keys \X Keys
    /\ cacheEnd \in {"clean", "unended", "torn"}
    /\ CacheIsOfItsKeys /\ AskedOnce
    /\ Cardinality(merged) <= 2
    /\ merged # {} => cacheEnd = "torn"
    /\ cacheEnd = "unended" => cacheFile # <<>>

LEMMA CachePart == LabelInv => CacheIsSound
BY DEF LabelInv, LabelTypeOK, KnownIsTheCache, LabelsAreSound, AnswersAreCached, CacheIsSound

LEMMA CacheKept == CacheIsSound /\ UNCHANGED cacheVars => CacheIsSound' /\ Answers' = Answers
BY DEF CacheIsSound, cacheVars, CacheIsOfItsKeys, AskedOnce, Answers, Range

\* The rest of the invariant, with the cache file.
LEMMA LabelPartsAfter ==
    ASSUME CacheIsSound', LabelTypeOK', LabelsFitTheirRun', NoRowIsLeftOut',
           (Running => known = Answers)',
           (Range(labels) \cup {entry[2] : entry \in output}
              \subseteq {entry[2] : entry \in Answers} \cup {NoLabel})'
    PROVE  LabelInv'
BY DEF CacheIsSound, LabelInv, LabelsAreSound, AnswersAreCached, KnownIsTheCache

\* A line with the answer to a key the file does not have is appended.
LEMMA LineAppended ==
    ASSUME CacheIsSound, NEW key \in Keys, \A entry \in Answers : entry[1] # key,
           cacheEnd # "unended", cacheEnd' \in {cacheEnd, "unended", "torn"},
           cacheEnd = "torn" => cacheEnd' = "torn",
           cacheFile' = Append(cacheFile, <<key, key>>), UNCHANGED merged
    PROVE  CacheIsSound' /\ Answers' = Answers \cup {<<key, key>>}
<1> DEFINE m == Len(cacheFile)
           lines == Keys \X Keys
           line == <<key, key>>
<1>1. /\ line \in lines /\ cacheFile \in Seq(lines) /\ line[1] = key /\ line[2] = key
      /\ cacheFile' = Append(cacheFile, line)
  BY DEF CacheIsSound
<1>2. /\ cacheFile' \in Seq(lines) /\ cacheFile' # <<>>
      /\ DOMAIN cacheFile' = 1..(m + 1) /\ DOMAIN cacheFile = 1..m /\ m \in Nat
      /\ \A n \in 1..m : cacheFile'[n] = cacheFile[n]
      /\ cacheFile'[m + 1] = line
  <2> HIDE DEF lines, line
  <2> QED BY <1>1
<1>3. Range(cacheFile') = Range(cacheFile) \cup {line}
  <2> HIDE DEF line
  <2> QED BY <1>2 DEF Range
<1>4. Answers' = Answers \cup {line}
  BY <1>3 DEF Answers
<1>5. CacheIsOfItsKeys'
  BY <1>1, <1>4 DEF CacheIsSound, CacheIsOfItsKeys
<1>6. AskedOnce'
  <2>1. \A n \in 1..m : cacheFile[n][1] # key
    BY <1>2 DEF Answers, Range
  <2>2. \A k, n \in 1..m : cacheFile[k][1] = cacheFile[n][1] => k = n
    BY <1>2 DEF CacheIsSound, AskedOnce
  <2>3. ASSUME NEW k \in 1..(m + 1), NEW n \in 1..(m + 1), cacheFile'[k][1] = cacheFile'[n][1]
        PROVE  k = n
    <3>1. CASE k \in 1..m /\ n \in 1..m
      BY <1>2, <2>2, <2>3, <3>1
    <3>2. CASE k \in 1..m /\ n = m + 1
      BY <1>1, <1>2, <2>1, <2>3, <3>2
    <3>3. CASE k = m + 1 /\ n \in 1..m
      BY <1>1, <1>2, <2>1, <2>3, <3>3
    <3> QED BY <1>2, <3>1, <3>2, <3>3
  <2>4. ASSUME NEW n \in 1..(m + 1), NEW entry \in merged PROVE cacheFile'[n][1] # entry[1]
    <3>1. CASE n \in 1..m
      BY <1>2, <3>1 DEF CacheIsSound, AskedOnce
    <3>2. CASE n = m + 1
      BY <1>1, <1>2, <3>2 DEF Answers
    <3> QED BY <1>2, <3>1, <3>2
  <2> QED BY <1>2, <2>3, <2>4 DEF AskedOnce
<1> QED BY <1>2, <1>4, <1>5, <1>6 DEF CacheIsSound

\* What is written after a line without its end takes that line with it, and no other.
LEMMA LineMerged ==
    ASSUME CacheIsSound, NEW key \in Keys, \A entry \in Answers : entry[1] # key,
           cacheEnd = "unended", NEW entries \in SUBSET {<<key, key>>},
           MergeIntoLastLine(entries)
    PROVE  CacheIsSound' /\ Answers' = Answers \cup entries
<1> DEFINE m == Len(cacheFile)
<1>1. /\ cacheFile \in Seq(Keys \X Keys) /\ cacheFile # <<>> /\ merged = {}
      /\ cacheFile' = SubSeq(cacheFile, 1, m - 1) /\ merged' = {LastLine} \cup entries
      /\ cacheEnd' = "torn"
  BY DEF CacheIsSound, MergeIntoLastLine
<1>2. /\ cacheFile' \in Seq(Keys \X Keys) /\ DOMAIN cacheFile' = 1 .. m - 1
      /\ \A n \in 1 .. m - 1 : cacheFile'[n] = cacheFile[n]
  BY <1>1, AllButTheLast
<1>3. /\ m \in Nat /\ m >= 1 /\ DOMAIN cacheFile = 1..m /\ m \in DOMAIN cacheFile
      /\ LastLine = cacheFile[m] /\ LastLine \in Keys \X Keys
  BY <1>1 DEF LastLine
<1>4. Range(cacheFile) = Range(cacheFile') \cup {LastLine}
  <2> HIDE DEF m
  <2>1. ASSUME NEW n \in 1..m PROVE cacheFile[n] \in Range(cacheFile') \cup {LastLine}
    <3>1. CASE n = m
      BY <1>3, <3>1
    <3>2. CASE n # m
      <4>1. n \in 1 .. m - 1
        BY <1>3, <3>2
      <4> QED BY <1>2, <4>1 DEF Range
    <3> QED BY <3>1, <3>2
  <2>2. ASSUME NEW n \in 1 .. m - 1 PROVE cacheFile'[n] \in Range(cacheFile)
    <3>1. n \in 1..m
      BY <1>3
    <3> QED BY <1>2, <1>3, <3>1 DEF Range
  <2>3. LastLine \in Range(cacheFile)
    BY <1>3 DEF Range
  <2>4. Range(cacheFile) \subseteq Range(cacheFile') \cup {LastLine}
    BY <1>3, <2>1 DEF Range
  <2>5. Range(cacheFile') \subseteq Range(cacheFile)
    BY <1>2, <2>2 DEF Range
  <2> QED BY <2>3, <2>4, <2>5
<1>5. Answers' = Answers \cup entries
  BY <1>1, <1>4 DEF Answers
<1>6. CacheIsOfItsKeys'
  BY <1>5 DEF CacheIsSound, CacheIsOfItsKeys
<1>7. AskedOnce'
  <2>1. \A k, n \in 1..m : cacheFile[k][1] = cacheFile[n][1] => k = n
    BY <1>3 DEF CacheIsSound, AskedOnce
  <2>2. \A n \in 1 .. m - 1 : n \in 1..m /\ n # m
    BY <1>3
  <2>3. \A n \in 1 .. m - 1 : cacheFile'[n][1] # LastLine[1]
    BY <1>2, <1>3, <2>1, <2>2
  <2>4. \A n \in 1 .. m - 1 : cacheFile[n][1] # key
    BY <1>3, <2>2 DEF Answers, Range
  <2>5. \A n \in 1 .. m - 1 : \A entry \in merged' : cacheFile'[n][1] # entry[1]
    BY <1>1, <1>2, <2>3, <2>4
  <2> QED BY <1>2, <2>1, <2>2, <2>5 DEF AskedOnce
<1>8. merged' \subseteq Keys \X Keys /\ Cardinality(merged') <= 2
  <2> DEFINE a == LastLine
             b == <<key, key>>
  <2>1. /\ Cardinality({}) = 0 /\ IsFiniteSet({})
        /\ IsFiniteSet({a}) /\ Cardinality({a}) <= 1
        /\ IsFiniteSet({a} \cup {b}) /\ Cardinality({a} \cup {b}) <= 2
    <3> HIDE DEF a, b
    <3>1. IsFiniteSet({}) /\ Cardinality({}) = 0
      BY FS_EmptySet
    <3>2. IsFiniteSet({} \cup {a}) /\ Cardinality({} \cup {a}) <= 1
      BY <3>1, FS_AddElement
    <3>3. {} \cup {a} = {a}
      OBVIOUS
    <3>4. IsFiniteSet({a}) /\ Cardinality({a}) <= 1 /\ Cardinality({a}) \in Nat
      BY <3>2, <3>3, FS_CardinalityType
    <3>5. IsFiniteSet({a} \cup {b}) /\ Cardinality({a} \cup {b}) <= 2
      BY <3>4, FS_AddElement
    <3> QED BY <3>1, <3>4, <3>5
  <2>2. merged' \subseteq {a} \cup {b}
    BY <1>1
  <2>3. Cardinality(merged') <= Cardinality({a} \cup {b}) /\ Cardinality(merged') \in Nat
        /\ Cardinality({a} \cup {b}) \in Nat
    <3> HIDE DEF a, b
    <3> QED BY <2>1, <2>2, FS_Subset, FS_CardinalityType
  <2> QED BY <1>1, <1>3, <2>1, <2>3
<1> QED BY <1>1, <1>2, <1>5, <1>6, <1>7, <1>8 DEF CacheIsSound

\* A row that is done, with a label of its own or none, leaves the labels sound.
LEMMA RowAdded ==
    ASSUME LabelInv, Working, NEW label, label \in {NoLabel, RowKey},
           labels' = Append(labels, label), UNCHANGED <<version, output, lastRun>>
    PROVE  /\ labels' \in Seq(Keys \cup {NoLabel}) /\ Len(labels') <= Len(RowText)
           /\ Range(labels') = Range(labels) \cup {label}
           /\ LabelsFitTheirRun' /\ NoRowIsLeftOut'
<1>1. labels \in Seq(Keys \cup {NoLabel}) /\ Len(labels) \in Nat
  BY RowHasKey DEF LabelInv, LabelTypeOK
<1>2. label \in Keys \cup {NoLabel} /\ label \in {NoLabel, <<RowText[Row], version>>}
  BY RowHasKey
<1>3. /\ labels' \in Seq(Keys \cup {NoLabel})
      /\ DOMAIN labels' = 1..(Len(labels) + 1) /\ DOMAIN labels = 1..Len(labels)
      /\ Len(labels') = Len(labels) + 1
      /\ \A k \in 1..Len(labels) : labels'[k] = labels[k]
      /\ labels'[Len(labels) + 1] = label
  BY <1>1, <1>2
<1>4. Len(labels') <= Len(RowText)
  BY <1>1, <1>3, LabellingAssumption DEF Working, Row
<1>5. Range(labels') = Range(labels) \cup {label}
  BY <1>1, <1>3 DEF Range
<1>6. LabelsFitTheirRun'
  <2>1. LabelsFitTheirRun
    BY DEF LabelInv, LabelsAreSound
  <2>2. \A k \in DOMAIN labels' : labels'[k] \in {NoLabel, <<RowText[k], version>>}
    <3> SUFFICES ASSUME NEW k \in DOMAIN labels'
                 PROVE  labels'[k] \in {NoLabel, <<RowText[k], version>>}
      OBVIOUS
    <3>1. CASE k \in 1..Len(labels)
      BY <1>3, <2>1, <3>1 DEF LabelsFitTheirRun
    <3>2. CASE k = Len(labels) + 1
      BY <1>2, <1>3, <3>2 DEF Row
    <3> QED BY <1>1, <1>3, <3>1, <3>2
  <2> QED BY <2>1, <2>2 DEF LabelsFitTheirRun
<1>7. NoRowIsLeftOut'
  BY DEF LabelInv, LabelsAreSound, NoRowIsLeftOut
<1> QED BY <1>3, <1>4, <1>5, <1>6, <1>7

--------------------------------------------------------------------------------
(* The initial states, and one lemma for each action. *)

LEMMA LabelInitIsSound == LabelInit => LabelInv
<1> SUFFICES ASSUME LabelInit PROVE LabelInv
  OBVIOUS
<1> USE DEF LabelInit, NoRun
<1>1. LabelTypeOK
  BY LabellingAssumption DEF LabelTypeOK
<1>2. CacheIsOfItsKeys /\ KnownIsTheCache
  BY DEF CacheIsOfItsKeys, KnownIsTheCache, Running, Answers, Range
<1>3. LabelsFitTheirRun /\ NoRowIsLeftOut /\ AskedOnce
  BY DEF LabelsFitTheirRun, NoRowIsLeftOut, AskedOnce
<1>4. AnswersAreCached
  BY FS_EmptySet DEF AnswersAreCached, Range
<1> QED BY <1>1, <1>2, <1>3, <1>4 DEF LabelInv, LabelsAreSound

\* A run begins with what the file has, and with no labels of its own.
LEMMA StartIsSound ==
    ASSUME LabelInv, NEW v \in CriteriaVersions, StartLabelling(v)
    PROVE  LabelInv'
<1> USE DEF StartLabelling, NoRun
<1>1. CacheIsSound' /\ Answers' = Answers
  BY CachePart, CacheKept
<1>2. known' = Answers' /\ known' \subseteq Keys \X Keys
  <2>1. merged = {}
    BY CachePart DEF CacheIsSound
  <2>2. \A n \in DOMAIN cacheFile : cacheFile[n] \in Keys \X Keys
    BY CachePart DEF CacheIsSound
  <2> QED BY <1>1, <2>1, <2>2 DEF Answers, Range
<1>3. LabelTypeOK'
  BY <1>2, LabellingAssumption DEF LabelInv, LabelTypeOK, cacheVars
<1>4. LabelsFitTheirRun' /\ NoRowIsLeftOut'
  BY DEF LabelInv, LabelsAreSound, LabelsFitTheirRun, NoRowIsLeftOut
<1>5. Range(labels') = {} /\ UNCHANGED output
  BY DEF Range
<1> QED BY <1>1, <1>2, <1>3, <1>4, <1>5, LabelPartsAfter
        DEF LabelInv, LabelsAreSound, AnswersAreCached

\* A cached label is the one of the row under the version of the run.
LEMMA CachedIsSound ==
    ASSUME LabelInv, UseCached
    PROVE  LabelInv'
<1>1. Cached(RowKey) = RowKey /\ <<RowKey, RowKey>> \in Answers
  BY KnownIsFound DEF UseCached, Working
<1>2. /\ labels' \in Seq(Keys \cup {NoLabel}) /\ Len(labels') <= Len(RowText)
      /\ Range(labels') = Range(labels) \cup {RowKey}
      /\ LabelsFitTheirRun' /\ NoRowIsLeftOut'
  BY <1>1, RowAdded DEF UseCached
<1>3. CacheIsSound' /\ Answers' = Answers
  BY CachePart, CacheKept DEF UseCached
<1>4. LabelTypeOK'
  BY <1>2 DEF UseCached, LabelInv, LabelTypeOK, cacheVars
<1>5. (Running => known = Answers)'
  BY <1>3 DEF UseCached, LabelInv, KnownIsTheCache, Running
<1>6. RowKey \in {entry[2] : entry \in Answers}
  <2>1. <<RowKey, RowKey>>[2] = RowKey
    OBVIOUS
  <2> QED BY <1>1, <2>1
<1>7. UNCHANGED output
  BY DEF UseCached
<1> QED BY <1>2, <1>3, <1>4, <1>5, <1>6, <1>7, LabelPartsAfter
        DEF LabelInv, LabelsAreSound, AnswersAreCached

\* An answer is put into the file at once, under a key the file did not have.
LEMMA AnswerIsSound ==
    ASSUME LabelInv, Answer
    PROVE  LabelInv'
<1>1. /\ RowKey \in Keys /\ RowKey = <<RowText[Row], version>> /\ ~IsKnown(RowKey)
      /\ Running /\ Working
  BY RowHasKey DEF Answer, Working
<1>2. /\ IF cacheEnd = "unended"
         THEN MergeIntoLastLine({<<RowKey, RowKey>>})
         ELSE cacheFile' = Append(cacheFile, <<RowKey, RowKey>>) /\ UNCHANGED <<cacheEnd, merged>>
      /\ known' = known \cup {<<RowKey, RowKey>>}
      /\ labels' = Append(labels, RowKey)
      /\ UNCHANGED <<version, output, lastRun>>
  BY <1>1 DEF Answer, Put, FinishRow
<1>3. \A entry \in Answers : entry[1] # RowKey
  BY <1>1 DEF IsKnown, LabelInv, KnownIsTheCache
<1>4. CacheIsSound' /\ Answers' = Answers \cup {<<RowKey, RowKey>>}
  <2>1. CASE cacheEnd = "unended"
    BY <1>1, <1>2, <1>3, <2>1, CachePart, LineMerged
  <2>2. CASE cacheEnd # "unended"
    BY <1>1, <1>2, <1>3, <2>2, CachePart, LineAppended
  <2> QED BY <2>1, <2>2
<1>5. /\ labels' \in Seq(Keys \cup {NoLabel}) /\ Len(labels') <= Len(RowText)
      /\ Range(labels') = Range(labels) \cup {RowKey}
      /\ LabelsFitTheirRun' /\ NoRowIsLeftOut'
  BY <1>1, <1>2, RowAdded
<1>6. (Running => known = Answers)'
  BY <1>1, <1>2, <1>4 DEF LabelInv, KnownIsTheCache
<1>7. LabelTypeOK'
  <2>1. attempt' \in 1..MaxAttempts /\ streak' \in 0..MaxUnreachable
    BY <1>1, LabellingAssumption
    DEF Answer, FinishRow, Working, GivenUp, LabelInv, LabelTypeOK
  <2>2. known' \subseteq Keys \X Keys
    <3>1. <<RowKey, RowKey>> \in Keys \X Keys /\ known \subseteq Keys \X Keys
      BY <1>1 DEF LabelInv, LabelTypeOK
    <3> QED BY <1>2, <3>1
  <2> QED BY <1>1, <1>2, <1>4, <1>5, <2>1, <2>2 DEF LabelInv, LabelTypeOK, CacheIsSound
<1>8. {entry[2] : entry \in Answers'} = {entry[2] : entry \in Answers} \cup {RowKey}
  <2>1. <<RowKey, RowKey>>[2] = RowKey
    OBVIOUS
  <2> QED BY <1>4, <2>1
<1> QED BY <1>2, <1>4, <1>5, <1>6, <1>7, <1>8, LabelPartsAfter
        DEF LabelInv, LabelsAreSound, AnswersAreCached

\* An attempt that fails writes nothing; after the last one the row has no label.
LEMMA FailureIsSound ==
    ASSUME LabelInv, FailAttempt
    PROVE  LabelInv'
<1>1. PICK noConnection \in BOOLEAN :
        /\ Working
        /\ IF attempt < MaxAttempts
           THEN /\ attempt' = attempt + 1 /\ UNCHANGED <<labels, streak>>
           ELSE FinishRow(NoLabel, noConnection)
        /\ UNCHANGED <<cacheVars, known, version, output, lastRun>>
  BY DEF FailAttempt
<1>2. /\ labels' \in Seq(Keys \cup {NoLabel}) /\ Len(labels') <= Len(RowText)
      /\ Range(labels') \subseteq Range(labels) \cup {NoLabel}
      /\ LabelsFitTheirRun' /\ NoRowIsLeftOut'
  <2>1. CASE attempt < MaxAttempts
    BY <1>1, <2>1 DEF LabelInv, LabelTypeOK, LabelsAreSound, LabelsFitTheirRun, NoRowIsLeftOut
  <2>2. CASE ~(attempt < MaxAttempts)
    BY <1>1, <2>2, RowAdded DEF FinishRow
  <2> QED BY <2>1, <2>2
<1>3. attempt' \in 1..MaxAttempts /\ streak' \in 0..MaxUnreachable
  BY <1>1, LabellingAssumption DEF FinishRow, Working, GivenUp, LabelInv, LabelTypeOK
<1>4. LabelTypeOK'
  BY <1>1, <1>2, <1>3 DEF LabelInv, LabelTypeOK, cacheVars
<1>5. CacheIsSound' /\ Answers' = Answers /\ (Running => known = Answers)'
  BY <1>1, CachePart, CacheKept DEF LabelInv, KnownIsTheCache, Running
<1> QED BY <1>1, <1>2, <1>4, <1>5, LabelPartsAfter DEF LabelInv, LabelsAreSound, AnswersAreCached

\* The output has the rows that have a label, with the label of the row; when
\* nothing failed and the run was not given up, that is every row.
LEMMA EndIsSound ==
    ASSUME LabelInv, EndLabelling
    PROVE  LabelInv'
<1> DEFINE labelled == {k \in DOMAIN labels : labels[k] # NoLabel}
<1>1. /\ output' = {<<k, labels[k]>> : k \in labelled}
      /\ lastRun' = [labels |-> labels, version |-> version, code |-> ExitCode]
      /\ labels' = <<>> /\ attempt' = 1 /\ streak' = 0 /\ known' = {} /\ version' = NoLabel
      /\ UNCHANGED cacheVars
  BY DEF EndLabelling, Stopped
<1>2. /\ labels \in Seq(Keys \cup {NoLabel}) /\ Len(labels) <= Len(RowText)
      /\ DOMAIN labels = 1..Len(labels) /\ Len(labels) \in Nat
      /\ DOMAIN RowText = 1..Len(RowText) /\ Len(RowText) \in Nat
  BY LabellingAssumption DEF LabelInv, LabelTypeOK
<1>3. \A k \in labelled : k \in DOMAIN RowText /\ labels[k] \in Keys
  BY <1>2
<1>4. LabelTypeOK'
  <2>1. output' \subseteq (DOMAIN RowText) \X Keys
    BY <1>1, <1>3
  <2>2. lastRun'.code \in {0, 1, 2}
    BY <1>1 DEF ExitCode
  <2> QED BY <1>1, <1>2, <2>1, <2>2, LabellingAssumption DEF LabelInv, LabelTypeOK, cacheVars
<1>5. CacheIsSound' /\ Answers' = Answers /\ (Running => known = Answers)'
  BY <1>1, CachePart, CacheKept DEF Running
<1>6. LabelsFitTheirRun'
  BY <1>1 DEF LabelInv, LabelsAreSound, LabelsFitTheirRun
<1>7. NoRowIsLeftOut'
  <2> SUFFICES ASSUME ExitCode = 0
               PROVE  {entry[1] : entry \in output'} = DOMAIN RowText
    BY <1>1 DEF NoRowIsLeftOut
  <2>1. ~GivenUp /\ NoLabel \notin Range(labels)
    BY DEF ExitCode
  <2>2. ~(Len(labels) + 1 <= Len(RowText))
    BY <2>1 DEF EndLabelling, Working, Row
  <2>3. DOMAIN labels = DOMAIN RowText
    <3> DEFINE m == Len(labels)
               n == Len(RowText)
    <3>1. m \in Nat /\ n \in Nat /\ m <= n /\ ~(m + 1 <= n)
      BY <1>2, <2>2
    <3>2. m = n
      <4> HIDE DEF m, n
      <4> QED BY <3>1
    <3> QED BY <1>2, <3>2
  <2>4. labelled = DOMAIN RowText
    BY <2>1, <2>3 DEF Range
  <2>5. \A k \in DOMAIN RowText : <<k, labels[k]>> \in output'
    BY <1>1, <2>4
  <2>6. \A entry \in output' : entry[1] \in DOMAIN RowText
    BY <1>1, <2>4
  <2>7. \A k \in DOMAIN RowText : k \in {entry[1] : entry \in output'}
    <3> SUFFICES ASSUME NEW k \in DOMAIN RowText
                 PROVE  \E entry \in output' : k = entry[1]
      OBVIOUS
    <3>1. <<k, labels[k]>> \in output'
      BY <2>5
    <3>2. <<k, labels[k]>>[1] = k
      OBVIOUS
    <3> QED BY <3>1, <3>2
  <2> QED BY <2>6, <2>7
<1>8. Range(labels') = {} /\ {entry[2] : entry \in output'} \subseteq Range(labels)
  BY <1>1 DEF Range
<1> QED BY <1>4, <1>5, <1>6, <1>7, <1>8, LabelPartsAfter DEF LabelInv, LabelsAreSound, AnswersAreCached

\* A process that is killed loses its labels, and nothing that the file has.
LEMMA KillIsSound ==
    ASSUME LabelInv, KillLabelling
    PROVE  LabelInv'
<1>1. /\ labels' = <<>> /\ attempt' = 1 /\ streak' = 0 /\ known' = {} /\ version' = NoLabel
      /\ lastRun' = NoRun /\ output' \in {output, {}} /\ UNCHANGED cacheVars
  BY DEF KillLabelling, Stopped
<1>2. LabelTypeOK'
  BY <1>1, LabellingAssumption DEF LabelInv, LabelTypeOK, NoRun, cacheVars
<1>3. CacheIsSound' /\ Answers' = Answers /\ (Running => known = Answers)'
  BY <1>1, CachePart, CacheKept DEF Running
<1>4. LabelsFitTheirRun' /\ NoRowIsLeftOut'
  BY <1>1 DEF LabelsFitTheirRun, NoRowIsLeftOut, NoRun
<1>5. Range(labels') = {}
  BY <1>1 DEF Range
<1> QED BY <1>1, <1>2, <1>3, <1>4, <1>5, LabelPartsAfter
        DEF LabelInv, LabelsAreSound, AnswersAreCached

\* A line that is being written is cut or has no end, and takes with it no line but
\* one that had none.
LEMMA TornAnswerIsSound ==
    ASSUME LabelInv, TearAnswer
    PROVE  LabelInv'
<1>1. /\ labels' = <<>> /\ attempt' = 1 /\ streak' = 0 /\ known' = {} /\ version' = NoLabel
      /\ lastRun' = NoRun /\ UNCHANGED output
  BY DEF TearAnswer, Stopped
<1>2. /\ RowKey \in Keys /\ RowKey = <<RowText[Row], version>> /\ ~IsKnown(RowKey) /\ Running
  BY RowHasKey DEF TearAnswer, Working
<1>3. \A entry \in Answers : entry[1] # RowKey
  BY <1>2 DEF IsKnown, LabelInv, KnownIsTheCache
<1>4. CacheIsSound' /\ Answers \subseteq Answers'
  <2>1. CASE cacheEnd = "unended"
    <3>1. MergeIntoLastLine({})
      BY <2>1 DEF TearAnswer
    <3> QED BY <1>2, <1>3, <2>1, <3>1, CachePart, LineMerged
  <2>2. CASE cacheEnd # "unended" /\ cacheEnd' = "torn" /\ UNCHANGED <<cacheFile, merged>>
    BY <2>2, CachePart DEF CacheIsSound, CacheIsOfItsKeys, AskedOnce, Answers, Range
  <2>3. CASE /\ cacheEnd # "unended"
             /\ cacheFile' = Append(cacheFile, <<RowKey, <<RowText[Row], version>>>>)
             /\ cacheEnd' = IF cacheEnd = "clean" THEN "unended" ELSE "torn"
             /\ UNCHANGED merged
    <3>1. cacheFile' = Append(cacheFile, <<RowKey, RowKey>>)
      BY <1>2, <2>3
    <3> QED BY <1>2, <1>3, <2>3, <3>1, CachePart, LineAppended
  <2> QED BY <2>1, <2>2, <2>3 DEF TearAnswer
<1>5. LabelTypeOK'
  BY <1>1, <1>4, LabellingAssumption DEF LabelInv, LabelTypeOK, NoRun, CacheIsSound
<1>6. LabelsFitTheirRun' /\ NoRowIsLeftOut' /\ (Running => known = Answers)'
  BY <1>1 DEF LabelsFitTheirRun, NoRowIsLeftOut, NoRun, Running
<1>7. Range(labels') = {}
  BY <1>1 DEF Range
<1>8. {entry[2] : entry \in output'} \subseteq {entry[2] : entry \in Answers'} \cup {NoLabel}
  BY <1>1, <1>4 DEF LabelInv, LabelsAreSound, AnswersAreCached
<1> QED BY <1>4, <1>5, <1>6, <1>7, <1>8, LabelPartsAfter

--------------------------------------------------------------------------------
(* The theorem about label_areas. *)

LEMMA LabelStepIsSound == LabelInv /\ [LabelNext]_labelVars => LabelInv'
<1> SUFFICES ASSUME LabelInv, [LabelNext]_labelVars PROVE LabelInv'
  OBVIOUS
<1>1. ASSUME NEW v \in CriteriaVersions, StartLabelling(v) PROVE LabelInv'
  BY <1>1, StartIsSound
<1>2. CASE UseCached
  BY <1>2, CachedIsSound
<1>3. CASE Answer
  BY <1>3, AnswerIsSound
<1>4. CASE FailAttempt
  BY <1>4, FailureIsSound
<1>5. CASE EndLabelling
  BY <1>5, EndIsSound
<1>6. CASE KillLabelling
  BY <1>6, KillIsSound
<1>7. CASE TearAnswer
  BY <1>7, TornAnswerIsSound
<1>8. CASE UNCHANGED labelVars
  <2>1. UNCHANGED <<cacheVars, known, version, labels, attempt, streak, output, lastRun>>
    BY <1>8 DEF labelVars, rowVars
  <2>2. LabelTypeOK'
    BY <2>1 DEF LabelInv, LabelTypeOK, cacheVars
  <2>3. CacheIsSound' /\ Answers' = Answers /\ (Running => known = Answers)'
    BY <2>1, CachePart, CacheKept DEF LabelInv, KnownIsTheCache, Running
  <2>4. LabelsFitTheirRun' /\ NoRowIsLeftOut'
    BY <2>1 DEF LabelInv, LabelsAreSound, LabelsFitTheirRun, NoRowIsLeftOut
  <2> QED BY <2>1, <2>2, <2>3, <2>4, LabelPartsAfter DEF LabelInv, LabelsAreSound, AnswersAreCached, Range
<1> QED BY <1>1, <1>2, <1>3, <1>4, <1>5, <1>6, <1>7, <1>8 DEF LabelNext

\* The inductive invariant of the labelling, with its types.
THEOREM LabelInvariantHolds == LabelSpec => []LabelInv
BY LabelInitIsSound, LabelStepIsSound, PTL DEF LabelSpec

\* Every label that label_areas writes is of the text of its row under the
\* criteria of its run, an exit code of 0 leaves no row out, and an answer is
\* kept over every kill and asked for once.
THEOREM LabelsHold == LabelSpec => []LabelsAreSound
<1>1. LabelInv => LabelsAreSound
  BY DEF LabelInv
<1> QED BY <1>1, LabelInvariantHolds, PTL

--------------------------------------------------------------------------------
(* The collection: its invariant in parts, and what leaves a part as it is. *)

ListPart == ListingIsWhole /\ ListingsBeginTheSite /\ ListingGoesOn
RecordPart == FetchedOnce /\ DetailsGoOn

CsvPart == \A a, b \in csv : a.document = b.document => a = b

EndPart ==
    /\ NothingIsLeftBehind
    /\ ended = <<"build_csv", 0>> =>
         \A n \in Buildable : \E row \in csv : row.document = DocumentOf(n)

LEMMA InParts ==
    CollectInv <=> /\ CollectTypeOK /\ ListPart /\ RecordPart /\ DownloadsGoOn
                   /\ CsvPart /\ EndPart /\ RunsGoOn
BY DEF CollectInv, OutputsAreWhole, EachDocumentOnce, ListPart, RecordPart, CsvPart, EndPart

LEMMA PartsAfter ==
    ASSUME CollectTypeOK', ListPart', RecordPart', DownloadsGoOn', CsvPart', EndPart', RunsGoOn'
    PROVE  CollectInv'
BY DEF CollectInv, OutputsAreWhole, EachDocumentOnce, ListPart, RecordPart, CsvPart, EndPart

LEMMA ListKept ==
    ASSUME ListPart, UNCHANGED <<listing, partial, listed>>, command' # "listing"
    PROVE  ListPart'
BY DEF ListPart, ListingIsWhole, ListingsBeginTheSite, BeginsTheSite, ListingGoesOn

LEMMA RecordsKept ==
    ASSUME RecordPart, UNCHANGED metadata, command' # "details"
    PROVE  RecordPart'
BY DEF RecordPart, FetchedOnce, DetailsGoOn

LEMMA FilesKept ==
    ASSUME command' # "download"
    PROVE  DownloadsGoOn'
BY DEF DownloadsGoOn

LEMMA CsvKept ==
    ASSUME CsvPart, UNCHANGED csv
    PROVE  CsvPart'
BY DEF CsvPart

LEMMA NothingEnded ==
    ASSUME ended' = <<"none", 0>>
    PROVE  EndPart'
BY DEF EndPart, NothingIsLeftBehind

\* What is known of the places in the lists.
LEMMA CollectTypes ==
    ASSUME CollectTypeOK
    PROVE  /\ listing \in Seq(Idents) /\ partial \in Seq(Idents) /\ metadata \in Seq(Records)
           /\ Len(listing) \in Nat /\ DOMAIN listing = 1..Len(listing)
           /\ Len(partial) \in Nat /\ DOMAIN partial = 1..Len(partial)
           /\ Len(metadata) \in Nat /\ DOMAIN metadata = 1..Len(metadata)
           /\ \A k \in DOMAIN listing : listing[k] \in Idents
           /\ \A n \in DOMAIN metadata : metadata[n] \in Records /\ metadata[n].ident \in Idents
           /\ listed \subseteq Nat /\ asked \subseteq Nat /\ queue \subseteq Nat /\ failures \in Nat
<1>1. listing \in Seq(Idents) /\ partial \in Seq(Idents) /\ metadata \in Seq(Records)
  BY DEF CollectTypeOK
<1>2. /\ Len(listing) \in Nat /\ DOMAIN listing = 1..Len(listing)
      /\ Len(partial) \in Nat /\ DOMAIN partial = 1..Len(partial)
      /\ Len(metadata) \in Nat /\ DOMAIN metadata = 1..Len(metadata)
  BY <1>1
<1>3. /\ \A k \in DOMAIN listing : listing[k] \in Idents
      /\ \A n \in DOMAIN metadata : metadata[n] \in Records
  BY <1>1, <1>2
<1>4. \A n \in DOMAIN metadata : metadata[n].ident \in Idents
  BY <1>3 DEF Records
<1> QED BY <1>1, <1>2, <1>3, <1>4 DEF CollectTypeOK

\* The site lists each identifier once, and every identifier is one it lists.
LEMMA SiteTypes ==
    /\ SiteList \in Seq(Idents) /\ SiteList \in Seq(Nat) /\ Idents \subseteq Nat
    /\ Len(SiteList) \in Nat /\ DOMAIN SiteList = 1..Len(SiteList)
    /\ \A k \in DOMAIN SiteList : SiteList[k] \in Idents
    /\ \A j, k \in DOMAIN SiteList : SiteList[j] = SiteList[k] => j = k
<1>1. /\ SiteList \in Seq(Nat)
      /\ \A j, k \in DOMAIN SiteList : SiteList[j] = SiteList[k] => j = k
  BY CollectionAssumption DEF IsInjective
<1>2. Len(SiteList) \in Nat /\ DOMAIN SiteList = 1..Len(SiteList)
      /\ \A k \in DOMAIN SiteList : SiteList[k] \in Nat
  BY <1>1
<1>3. \A k \in DOMAIN SiteList : SiteList[k] \in Idents
  BY DEF Idents, Range
<1>4. Idents \subseteq Nat
  BY <1>2 DEF Idents, Range
<1>5. SiteList \in Seq(Idents)
  BY <1>1, <1>2, <1>3
<1> QED BY <1>1, <1>2, <1>3, <1>4, <1>5

\* A set of naturals that is not empty has a least one.
LEMMA LeastOf ==
    ASSUME NEW T \in SUBSET Nat, T # {}
    PROVE  \E x \in T : \A y \in T : x <= y
<1> DEFINE R == OpToRel(<, Nat)
<1>1. IsWellFoundedOn(R, Nat)
  BY NatLessThanWellFounded
<1>2. PICK x \in T : \A y \in T : ~(<<y, x>> \in R)
  <2> HIDE DEF R
  <2> QED BY <1>1, WFMin
<1>3. \A y \in T : ~(y < x)
  <2> SUFFICES ASSUME NEW y \in T, y < x PROVE <<y, x>> \in R
    BY <1>2
  <2> QED BY Zenon DEF OpToRel
<1> QED BY <1>3

--------------------------------------------------------------------------------
(* The collection: the initial states, and the actions that end a command. *)

LEMMA CollectInitIsSound == CollectInit => CollectInv
<1> SUFFICES ASSUME CollectInit PROVE CollectInv
  OBVIOUS
<1> USE DEF CollectInit
<1>1. CollectTypeOK
  BY DEF CollectTypeOK
<1>2. ListPart
  <2>1. BeginsTheSite(<<>>)
    BY SiteTypes DEF BeginsTheSite
  <2>2. DOMAIN listing = {}
    OBVIOUS
  <2> QED BY <2>1, <2>2 DEF ListPart, ListingIsWhole, ListingsBeginTheSite, ListingGoesOn
<1>3. RecordPart /\ DownloadsGoOn
  BY DEF RecordPart, FetchedOnce, DetailsGoOn, DownloadsGoOn
<1>4. CsvPart /\ EndPart /\ RunsGoOn
  BY DEF CsvPart, EndPart, NothingIsLeftBehind, RunsGoOn
<1> QED BY <1>1, <1>2, <1>3, <1>4, InParts

\* The process is killed: nothing is to be done, and nothing was ended.
LEMMA KilledParts ==
    ASSUME CollectInv, Killed
    PROVE  /\ EndPart' /\ RunsGoOn' /\ command' = "idle"
           /\ asked' \subseteq Nat /\ queue' \subseteq Nat /\ failures' \in Nat /\ ended'[2] \in {0, 1}
BY NothingEnded DEF Killed, RunsGoOn

LEMMA KillLosesNothing ==
    ASSUME CollectInv, Kill
    PROVE  CollectInv'
<1>1. Killed /\ UNCHANGED <<listing, partial, metadata, tail, pdf, csv, listed>>
  BY DEF Kill, files
<1>2. /\ EndPart' /\ RunsGoOn' /\ command' = "idle"
      /\ asked' \subseteq Nat /\ queue' \subseteq Nat /\ failures' \in Nat /\ ended'[2] \in {0, 1}
  BY <1>1, KilledParts
<1>3. CollectTypeOK'
  BY <1>1, <1>2, InParts DEF CollectTypeOK
<1>4. ListPart' /\ RecordPart' /\ DownloadsGoOn' /\ CsvPart'
  BY <1>1, <1>2, InParts, ListKept, RecordsKept, FilesKept, CsvKept
<1> QED BY <1>2, <1>3, <1>4, PartsAfter

\* One that cannot be fetched is counted, and left for another run.
LEMMA FailedRequestIsSound ==
    ASSUME CollectInv, FailRequest
    PROVE  CollectInv'
<1>1. PICK c \in {"details", "download"}, k \in queue : Taking(c, k)
  BY DEF FailRequest
<1>2. /\ command = c /\ command' = c /\ queue' = queue \ {k} /\ ended' = ended
      /\ asked' = asked /\ failures' = failures + 1
      /\ UNCHANGED <<listing, partial, metadata, tail, pdf, csv, listed>>
  BY <1>1 DEF FailRequest, Taking, files
<1>3. failures \in Nat /\ failures' # 0
  BY <1>2, CollectTypes, InParts
<1>4. CollectTypeOK'
  BY <1>2, <1>3, InParts DEF CollectTypeOK
<1>5. ListPart' /\ CsvPart'
  BY <1>2, InParts, ListKept, CsvKept
<1>6. RecordPart'
  BY <1>2, <1>3, InParts DEF RecordPart, FetchedOnce, DetailsGoOn, ToFetch, Fetched
<1>7. DownloadsGoOn'
  BY <1>2, <1>3, InParts DEF DownloadsGoOn, ToDownload, WithPublicPart, IsDownloaded
<1>8. EndPart' /\ RunsGoOn'
  <2>1. ended' = <<"none", 0>>
    BY <1>2, InParts DEF RunsGoOn
  <2> QED BY <1>2, <2>1, NothingEnded DEF RunsGoOn
<1> QED BY <1>4, <1>5, <1>6, <1>7, <1>8, PartsAfter

\* A command that begins has not ended.
LEMMA StartingParts ==
    ASSUME CollectInv, NEW c, NEW items \in SUBSET Nat, NEW todo, Starting(c, items, todo)
    PROVE  /\ EndPart' /\ RunsGoOn' /\ command' = c /\ failures' = 0
           /\ asked' = items /\ queue' = items \cap todo
           /\ asked' \subseteq Nat /\ queue' \subseteq Nat /\ failures' \in Nat /\ ended'[2] \in {0, 1}
BY NothingEnded DEF Starting, RunsGoOn

\* A command that ends leaves nothing to do.
LEMMA EndingParts ==
    ASSUME CollectInv, NEW c \in {"listing", "details", "download", "build_csv"}, Ending(c)
    PROVE  /\ RunsGoOn' /\ command = c /\ command' = "idle" /\ queue = {} /\ queue' = {}
           /\ ended' = <<c, IF failures = 0 THEN 0 ELSE 1>>
           /\ asked' = asked /\ failures' = failures /\ failures' \in Nat /\ ended'[2] \in {0, 1}
BY InParts, CollectTypes DEF Ending, RunsGoOn

--------------------------------------------------------------------------------
(* The collection: listing. *)

LEMMA StartListingIsSound ==
    ASSUME CollectInv, StartListing
    PROVE  CollectInv'
<1>1. PICK final \in {Len(SiteList)} \cup DOMAIN SiteList : Starting("listing", 1..final, 1..final)
  BY DEF StartListing
<1>2. final \in 0..Len(SiteList) /\ 1..final \in SUBSET Nat
  BY <1>1, SiteTypes
<1>3. partial' = <<>> /\ UNCHANGED <<listing, metadata, tail, pdf, csv, listed>>
  BY DEF StartListing
<1> DEFINE items == 1..final
<1>4. /\ EndPart' /\ RunsGoOn' /\ command' = "listing" /\ asked' = 1..final /\ queue' = 1..final
      /\ asked' \subseteq Nat /\ queue' \subseteq Nat /\ failures' \in Nat /\ ended'[2] \in {0, 1}
  <2>1. Starting("listing", items, items) /\ items \in SUBSET Nat /\ items \cap items = items
    BY <1>1, <1>2
  <2> HIDE DEF items
  <2>2. /\ EndPart' /\ RunsGoOn' /\ command' = "listing" /\ asked' = items /\ queue' = items
        /\ asked' \subseteq Nat /\ queue' \subseteq Nat /\ failures' \in Nat /\ ended'[2] \in {0, 1}
    BY <2>1, StartingParts
  <2> QED BY <2>2 DEF items
<1>5. CollectTypeOK'
  BY <1>3, <1>4, InParts DEF CollectTypeOK
<1>6. ListPart'
  <2>1. BeginsTheSite(partial)'
    BY <1>3, SiteTypes DEF BeginsTheSite
  <2>2. BeginsTheSite(listing)'
    BY <1>3, InParts DEF ListPart, ListingsBeginTheSite, BeginsTheSite
  <2>3. Len(partial') = 0
    BY <1>3
  <2>4. ListingGoesOn'
    BY <1>2, <1>4, <2>3 DEF ListingGoesOn
  <2>5. ListingIsWhole'
    BY <1>3, InParts DEF ListPart, ListingIsWhole
  <2> QED BY <2>1, <2>2, <2>4, <2>5 DEF ListPart, ListingsBeginTheSite
<1>7. RecordPart' /\ DownloadsGoOn' /\ CsvPart'
  BY <1>3, <1>4, InParts, RecordsKept, FilesKept, CsvKept
<1> QED BY <1>4, <1>5, <1>6, <1>7, PartsAfter

\* What is written next is what the site lists next.
LEMMA PageIsSound ==
    ASSUME CollectInv, WritePage
    PROVE  CollectInv'
<1>1. PICK k \in queue : Taking("listing", k) /\ partial' = Append(partial, SiteList[k])
  BY DEF WritePage
<1>2. /\ command = "listing" /\ command' = command /\ queue' = queue \ {k} /\ ended' = ended
      /\ asked' = asked /\ \A other \in queue : k <= other
      /\ UNCHANGED <<listing, metadata, tail, pdf, csv, listed, failures>>
  BY <1>1 DEF WritePage, Taking, IsNext
<1> DEFINE m == Len(partial)
<1>last. PICK n \in 0..Len(SiteList) : m <= n /\ asked = 1..n /\ queue = m + 1 .. n
  BY <1>2, InParts DEF ListPart, ListingGoesOn
<1>3. /\ m \in Nat /\ n \in Nat /\ Len(SiteList) \in Nat /\ n <= Len(SiteList)
      /\ DOMAIN partial = 1..m /\ partial \in Seq(Idents)
  BY CollectTypes, SiteTypes, InParts
<1>4. queue = m + 1 .. n /\ BeginsTheSite(partial) /\ BeginsTheSite(listing)
  BY <1>last, InParts DEF ListPart, ListingsBeginTheSite
<1>5. k = m + 1 /\ k <= n
  <2>1. k \in m + 1 .. n /\ m + 1 \in m + 1 .. n
    BY <1>1, <1>3, <1>4
  <2>2. k <= m + 1
    BY <1>2, <1>4, <2>1
  <2> QED BY <1>3, <2>1, <2>2
<1>6. SiteList[k] \in Idents /\ k \in DOMAIN SiteList
  BY <1>3, <1>5, SiteTypes
<1>7. /\ partial' \in Seq(Idents) /\ Len(partial') = m + 1 /\ DOMAIN partial' = 1..(m + 1)
      /\ \A j \in 1..m : partial'[j] = partial[j]
      /\ partial'[m + 1] = SiteList[k]
  BY <1>1, <1>3, <1>6
<1>8. ListPart'
  <2>1. BeginsTheSite(partial')
    <3>1. ASSUME NEW j \in 1..(m + 1) PROVE partial'[j] = SiteList[j]
      <4>1. CASE j \in 1..m
        BY <1>3, <1>4, <1>7, <4>1 DEF BeginsTheSite
      <4>2. CASE j = m + 1
        BY <1>5, <1>7, <4>2
      <4> QED BY <1>3, <4>1, <4>2
    <3>2. m + 1 <= Len(SiteList)
      BY <1>3, <1>5
    <3> QED BY <1>3, <1>7, <3>1, <3>2 DEF BeginsTheSite
  <2>2. Len(partial') <= n /\ asked' = 1..n /\ queue' = Len(partial') + 1 .. n
    BY <1>2, <1>3, <1>4, <1>5, <1>7, <1>last
  <2>3. ListingIsWhole' /\ BeginsTheSite(listing)'
    BY <1>2, <1>4, InParts DEF ListPart, ListingIsWhole, BeginsTheSite
  <2> QED BY <2>1, <2>2, <2>3 DEF ListPart, ListingsBeginTheSite, ListingGoesOn, BeginsTheSite
<1>9. CollectTypeOK'
  <2>1. queue' \subseteq Nat
    BY <1>2, CollectTypes, InParts
  <2> QED BY <1>2, <1>7, <2>1, InParts DEF CollectTypeOK
<1>10. RecordPart' /\ DownloadsGoOn' /\ CsvPart'
  BY <1>2, InParts, RecordsKept, FilesKept, CsvKept
<1>11. EndPart' /\ RunsGoOn'
  <2>1. ended' = <<"none", 0>>
    BY <1>2, InParts DEF RunsGoOn
  <2> QED BY <1>2, <2>1, NothingEnded DEF RunsGoOn
<1> QED BY <1>8, <1>9, <1>10, <1>11, PartsAfter

LEMMA OddPageIsSound ==
    ASSUME CollectInv, ReadOddPage
    PROVE  CollectInv'
<1>1. /\ command = "listing" /\ command' = command /\ queue' = {} /\ asked' = asked \ queue
      /\ UNCHANGED <<listing, partial, metadata, tail, pdf, csv, listed, failures, ended>>
  BY DEF ReadOddPage, files
<1>2. CollectTypeOK'
  BY <1>1, InParts DEF CollectTypeOK
<1>3. ListPart'
  <2> DEFINE m == Len(partial)
  <2>1. PICK n \in 0..Len(SiteList) : m <= n /\ asked = 1..n /\ queue = m + 1 .. n
    BY <1>1, InParts DEF ListPart, ListingGoesOn
  <2>2. m \in 0..Len(SiteList)
    BY <2>1, InParts, CollectTypes, SiteTypes
  <2>3. asked' = 1..m /\ queue' = m + 1 .. m
    BY <1>1, <2>1, <2>2
  <2>4. ListingGoesOn'
    BY <1>1, <2>2, <2>3 DEF ListingGoesOn
  <2>5. ListingIsWhole' /\ ListingsBeginTheSite'
    BY <1>1, InParts DEF ListPart, ListingIsWhole, ListingsBeginTheSite, BeginsTheSite
  <2> QED BY <2>4, <2>5 DEF ListPart
<1>4. RecordPart' /\ DownloadsGoOn' /\ CsvPart'
  BY <1>1, InParts, RecordsKept, FilesKept, CsvKept
<1>5. EndPart' /\ RunsGoOn'
  <2>1. ended' = <<"none", 0>>
    BY <1>1, InParts DEF RunsGoOn
  <2> QED BY <1>1, <2>1, NothingEnded DEF RunsGoOn
<1> QED BY <1>2, <1>3, <1>4, <1>5, PartsAfter

\* Nothing is left to write: what was written is all that the site lists.
LEMMA EndListingIsSound ==
    ASSUME CollectInv, EndListing
    PROVE  CollectInv'
<1>1. Ending("listing") /\ listing' = partial /\ listed' = asked /\ partial' = <<>>
      /\ UNCHANGED <<metadata, tail, pdf, csv>>
  BY DEF EndListing
<1>2. /\ RunsGoOn' /\ command = "listing" /\ command' = "idle" /\ queue = {} /\ queue' = {}
      /\ ended' = <<"listing", IF failures = 0 THEN 0 ELSE 1>>
      /\ asked' = asked /\ failures' \in Nat /\ ended'[2] \in {0, 1}
  BY <1>1, EndingParts
<1>3. CollectTypeOK'
  BY <1>1, <1>2, InParts DEF CollectTypeOK
<1>4. ListPart'
  <2> DEFINE m == Len(partial)
  <2>1. PICK n \in 0..Len(SiteList) : m <= n /\ asked = 1..n /\ queue = m + 1 .. n
    BY <1>2, InParts DEF ListPart, ListingGoesOn
  <2>2. m \in Nat /\ n \in Nat /\ DOMAIN partial = 1..m
    BY <2>1, CollectTypes, SiteTypes, InParts
  <2>3. m = n
    <3>1. m + 1 \notin m + 1 .. n /\ m \in Nat /\ n \in Nat /\ m <= n
      BY <1>2, <2>1, <2>2
    <3> HIDE DEF m
    <3> QED BY <3>1
  <2>4. BeginsTheSite(partial) /\ BeginsTheSite(<<>>)
    BY InParts, SiteTypes DEF ListPart, ListingsBeginTheSite, BeginsTheSite
  <2>5. DOMAIN listing' = listed' /\ \A k \in listed' : listing'[k] = SiteList[k]
    BY <1>1, <2>1, <2>2, <2>3, <2>4 DEF BeginsTheSite
  <2> QED
    BY <1>1, <1>2, <2>4, <2>5 DEF ListPart, ListingIsWhole, ListingsBeginTheSite,
       ListingGoesOn, BeginsTheSite
<1>5. RecordPart' /\ DownloadsGoOn' /\ CsvPart'
  BY <1>1, <1>2, InParts, RecordsKept, FilesKept, CsvKept
<1>6. EndPart'
  BY <1>2 DEF EndPart, NothingIsLeftBehind
<1> QED BY <1>2, <1>3, <1>4, <1>5, <1>6, PartsAfter

--------------------------------------------------------------------------------
(* The collection: details. *)

LEMMA StartDetailsIsSound ==
    ASSUME CollectInv, StartDetails
    PROVE  CollectInv'
<1>1. PICK sample \in SUBSET DOMAIN listing : Starting("details", sample, ToFetch)
  BY DEF StartDetails
<1>2. UNCHANGED <<listing, partial, metadata, tail, pdf, csv, listed>> /\ sample \in SUBSET Nat
  BY InParts, CollectTypes DEF StartDetails, files
<1>3. /\ EndPart' /\ RunsGoOn' /\ command' = "details"
      /\ asked' = sample /\ queue' = sample \cap ToFetch
      /\ asked' \subseteq Nat /\ queue' \subseteq Nat /\ failures' \in Nat /\ ended'[2] \in {0, 1}
  BY <1>1, <1>2, StartingParts
<1>4. CollectTypeOK'
  BY <1>2, <1>3, InParts DEF CollectTypeOK
<1>5. RecordPart'
  BY <1>1, <1>2, <1>3, InParts DEF RecordPart, FetchedOnce, DetailsGoOn, ToFetch, Fetched
<1>6. ListPart' /\ DownloadsGoOn' /\ CsvPart'
  BY <1>2, <1>3, InParts, ListKept, FilesKept, CsvKept
<1> QED BY <1>3, <1>4, <1>5, <1>6, PartsAfter

\* The last record is lost: the others are where they were.
LEMMA ButLastKeeps ==
    ASSUME NEW s \in Seq(Records)
    PROVE  /\ ButLast(s) \in Seq(Records)
           /\ \A n \in DOMAIN ButLast(s) : n \in DOMAIN s /\ ButLast(s)[n] = s[n]
           /\ \A n \in DOMAIN s : n # Len(s) => n \in DOMAIN ButLast(s)
<1>1. /\ ButLast(s) \in Seq(Records) /\ DOMAIN ButLast(s) = 1 .. Len(s) - 1
      /\ \A n \in 1 .. Len(s) - 1 : ButLast(s)[n] = s[n]
  BY AllButTheLast DEF ButLast
<1>2. DOMAIN s = 1..Len(s) /\ Len(s) \in Nat
  OBVIOUS
<1> QED BY <1>1, <1>2

\* A record is appended: the others are where they were.
LEMMA AppendKeeps ==
    ASSUME NEW s \in Seq(Records), NEW r \in Records
    PROVE  /\ Append(s, r) \in Seq(Records)
           /\ DOMAIN s = 1..Len(s) /\ Len(s) \in Nat
           /\ DOMAIN Append(s, r) = 1..(Len(s) + 1)
           /\ \A n \in 1..Len(s) : Append(s, r)[n] = s[n]
           /\ Append(s, r)[Len(s) + 1] = r
OBVIOUS

\* A record of an identifier that has none keeps every record the only one of its
\* identifier.
LEMMA AppendedOnce ==
    ASSUME CollectTypeOK, FetchedOnce, NEW r \in Records, r.ident \notin Fetched,
           metadata' = Append(metadata, r)
    PROVE  /\ FetchedOnce'
           /\ Fetched' = Fetched \cup {r.ident}
           /\ metadata' \in Seq(Records)
<1> DEFINE m == Len(metadata)
<1>1. /\ metadata' \in Seq(Records) /\ m \in Nat
      /\ DOMAIN metadata = 1..m /\ DOMAIN metadata' = 1..(m + 1)
      /\ \A n \in 1..m : metadata'[n] = metadata[n]
      /\ metadata'[m + 1] = r
  BY AppendKeeps, CollectTypes
<1>2. \A n \in 1..m : metadata[n].ident \in Fetched
  BY <1>1 DEF Fetched, Range
<1>3. Fetched' = Fetched \cup {r.ident}
  <2>1. Range(metadata') = Range(metadata) \cup {r}
    BY <1>1 DEF Range
  <2> QED BY <2>1 DEF Fetched
<1>4. ASSUME NEW j \in 1..(m + 1), NEW n \in 1..(m + 1), metadata'[j].ident = metadata'[n].ident
      PROVE  j = n
  <2>1. CASE j \in 1..m /\ n \in 1..m
    BY <1>1, <1>4, <2>1 DEF FetchedOnce
  <2>2. CASE j \in 1..m /\ n = m + 1
    BY <1>1, <1>2, <1>4, <2>2
  <2>3. CASE j = m + 1 /\ n \in 1..m
    BY <1>1, <1>2, <1>4, <2>3
  <2> QED BY <1>1, <2>1, <2>2, <2>3
<1>5. FetchedOnce'
  BY <1>1, <1>4 DEF FetchedOnce
<1> QED BY <1>1, <1>3, <1>5

\* The record that is written is of an identifier that had none; what is still to
\* be fetched has none either, because the site lists each identifier once.
LEMMA FetchIsSound ==
    ASSUME CollectInv, FetchDetails
    PROVE  CollectInv'
<1>1. PICK k \in queue, record \in Records :
        /\ Taking("details", k) /\ record.ident = listing[k]
        /\ metadata' = IF tail = "unended" THEN ButLast(metadata) ELSE Append(metadata, record)
        /\ tail' = IF tail = "clean" THEN "clean" ELSE "torn"
        /\ UNCHANGED <<listing, partial, pdf, csv, listed, failures>>
  BY DEF FetchDetails, StillRead
<1>2. /\ command = "details" /\ command' = command /\ queue' = queue \ {k} /\ ended' = ended
      /\ asked' = asked
  BY <1>1 DEF Taking
<1>3. /\ asked \subseteq DOMAIN listing /\ queue \subseteq asked \cap ToFetch
      /\ failures = 0 /\ tail # "torn" => asked \cap ToFetch \subseteq queue
      /\ FetchedOnce /\ CollectTypeOK
  BY <1>2, InParts DEF RecordPart, DetailsGoOn
<1>4. /\ k \in DOMAIN listing /\ listing[k] \notin Fetched
      /\ \A j \in queue : j \in asked /\ j \in DOMAIN listing /\ listing[j] \notin Fetched
  BY <1>3 DEF ToFetch
<1>5. \A j \in DOMAIN listing : listing[j] = listing[k] => j = k
  <2>1. \A j \in DOMAIN listing : j \in DOMAIN SiteList /\ listing[j] = SiteList[j]
    BY <1>3, InParts, CollectTypes, SiteTypes DEF ListPart, ListingsBeginTheSite, BeginsTheSite
  <2> QED BY <1>4, <2>1, SiteTypes
<1>6. CASE tail = "unended"
  <2>1. metadata' = ButLast(metadata) /\ tail' = "torn"
    BY <1>1, <1>6
  <2>2. /\ metadata' \in Seq(Records)
        /\ \A n \in DOMAIN metadata' : n \in DOMAIN metadata /\ metadata'[n] = metadata[n]
    BY <1>3, <2>1, ButLastKeeps, CollectTypes
  <2>3. FetchedOnce' /\ Fetched' \subseteq Fetched
    BY <1>3, <2>2 DEF FetchedOnce, Fetched, Range
  <2>4. RecordPart'
    <3>1. asked' \subseteq DOMAIN listing' /\ queue' \subseteq asked' \cap ToFetch'
      BY <1>1, <1>2, <1>3, <1>4, <2>3 DEF ToFetch
    <3> QED BY <2>1, <2>3, <3>1 DEF RecordPart, DetailsGoOn
  <2>5. CollectTypeOK'
    BY <1>1, <1>2, <1>3, <2>1, <2>2 DEF CollectTypeOK
  <2> QED BY <1>1, <1>2, <2>4, <2>5, InParts, ListKept, FilesKept, CsvKept, NothingEnded,
             PartsAfter DEF RunsGoOn
<1>7. CASE tail # "unended"
  <2>1. metadata' = Append(metadata, record) /\ (tail = "torn" => tail' = "torn")
    BY <1>1, <1>7
  <2>2. FetchedOnce' /\ Fetched' = Fetched \cup {listing[k]} /\ metadata' \in Seq(Records)
    BY <1>1, <1>3, <1>4, <2>1, AppendedOnce
  <2>3. RecordPart'
    <3>1. asked' \subseteq DOMAIN listing' /\ queue' \subseteq asked' \cap ToFetch'
      BY <1>1, <1>2, <1>3, <1>4, <1>5, <2>2 DEF ToFetch
    <3>2. failures' = 0 /\ tail' # "torn" => asked' \cap ToFetch' \subseteq queue'
      <4>1. ToFetch' \subseteq ToFetch \ {k}
        BY <1>1, <2>2 DEF ToFetch
      <4> QED BY <1>1, <1>2, <1>3, <2>1, <4>1
    <3> QED BY <2>2, <3>1, <3>2 DEF RecordPart, DetailsGoOn
  <2>4. CollectTypeOK'
    BY <1>1, <1>2, <1>3, <2>1, <2>2 DEF CollectTypeOK
  <2> QED BY <1>1, <1>2, <2>3, <2>4, InParts, ListKept, FilesKept, CsvKept, NothingEnded,
             PartsAfter DEF RunsGoOn
<1> QED BY <1>6, <1>7

\* When nothing failed, what was to be fetched has its record.
LEMMA EndDetailsIsSound ==
    ASSUME CollectInv, EndDetails
    PROVE  CollectInv'
<1>1. Ending("details") /\ UNCHANGED <<listing, partial, metadata, tail, pdf, csv, listed>>
  BY DEF EndDetails, files
<1>2. /\ RunsGoOn' /\ command = "details" /\ command' = "idle" /\ queue = {} /\ queue' = {}
      /\ ended' = <<"details", IF failures = 0 THEN 0 ELSE 1>>
      /\ asked' = asked /\ failures' \in Nat /\ ended'[2] \in {0, 1}
  BY <1>1, EndingParts
<1>3. CollectTypeOK'
  BY <1>1, <1>2, InParts DEF CollectTypeOK
<1>4. ListPart' /\ RecordPart' /\ DownloadsGoOn' /\ CsvPart'
  BY <1>1, <1>2, InParts, ListKept, RecordsKept, FilesKept, CsvKept
<1>5. EndPart'
  <2>1. failures = 0 /\ tail # "torn" => \A k \in asked : listing[k] \in Fetched
    BY <1>2, InParts DEF RecordPart, DetailsGoOn, ToFetch
  <2>2. UNCHANGED <<Fetched, listing>>
    BY <1>1 DEF Fetched, Range
  <2> QED BY <1>1, <1>2, <2>1, <2>2 DEF EndPart, NothingIsLeftBehind
<1> QED BY <1>2, <1>3, <1>4, <1>5, PartsAfter

\* The line that is cut is of the next identifier to be fetched, which has none.
LEMMA TornLineIsSound ==
    ASSUME CollectInv, TearLine
    PROVE  CollectInv'
<1>1. /\ Killed /\ command = "details"
      /\ UNCHANGED <<listing, partial, pdf, csv, listed>> /\ tail' \in {"unended", "torn"}
  BY DEF TearLine
<1>2. /\ EndPart' /\ RunsGoOn' /\ command' = "idle"
      /\ asked' \subseteq Nat /\ queue' \subseteq Nat /\ failures' \in Nat /\ ended'[2] \in {0, 1}
  BY <1>1, KilledParts
<1>3. metadata' \in Seq(Records) /\ FetchedOnce'
  <2>1. CASE metadata' = metadata
    BY <2>1, InParts DEF CollectTypeOK, RecordPart, FetchedOnce
  <2>2. CASE metadata' = ButLast(metadata)
    <3>1. /\ metadata' \in Seq(Records)
          /\ \A n \in DOMAIN metadata' : n \in DOMAIN metadata /\ metadata'[n] = metadata[n]
      BY <2>2, InParts, ButLastKeeps, CollectTypes
    <3> QED BY <3>1, InParts DEF RecordPart, FetchedOnce
  <2>3. CASE \E k \in queue :
            metadata' = Append(metadata, [ident |-> listing[k], part |-> listing[k] \in WithPart])
    <3>1. PICK k \in queue :
            metadata' = Append(metadata, [ident |-> listing[k], part |-> listing[k] \in WithPart])
      BY <2>3
    <3>2. k \in DOMAIN listing /\ listing[k] \notin Fetched
      BY <1>1, InParts DEF RecordPart, DetailsGoOn, ToFetch
    <3> DEFINE r == [ident |-> listing[k], part |-> listing[k] \in WithPart]
    <3>3. r \in Records /\ r.ident \notin Fetched
      BY <3>2, InParts, CollectTypes DEF Records
    <3> QED BY <3>1, <3>3, InParts, AppendedOnce DEF RecordPart
  <2> QED BY <2>1, <2>2, <2>3 DEF TearLine, StillRead
<1>4. CollectTypeOK'
  BY <1>1, <1>2, <1>3, InParts DEF CollectTypeOK
<1>5. RecordPart'
  BY <1>2, <1>3 DEF RecordPart, DetailsGoOn
<1>6. ListPart' /\ DownloadsGoOn' /\ CsvPart'
  BY <1>1, <1>2, InParts, ListKept, FilesKept, CsvKept
<1> QED BY <1>2, <1>4, <1>5, <1>6, PartsAfter

--------------------------------------------------------------------------------
(* The collection: download. *)

LEMMA StartDownloadIsSound ==
    ASSUME CollectInv, StartDownload
    PROVE  CollectInv'
<1>1. PICK final \in {Len(metadata)} \cup ToDownload :
        Starting("download", WithinLimit(final), ToDownload)
  BY DEF StartDownload
<1> DEFINE items == WithinLimit(final)
<1>2. /\ items \in SUBSET Nat /\ items \subseteq WithPublicPart
      /\ UNCHANGED <<listing, partial, metadata, tail, pdf, csv, listed>>
  BY InParts, CollectTypes DEF StartDownload, files, WithinLimit, WithPublicPart
<1>3. /\ EndPart' /\ RunsGoOn' /\ command' = "download"
      /\ asked' = items /\ queue' = items \cap ToDownload
      /\ asked' \subseteq Nat /\ queue' \subseteq Nat /\ failures' \in Nat /\ ended'[2] \in {0, 1}
  BY <1>1, <1>2, StartingParts
<1>4. CollectTypeOK'
  BY <1>2, <1>3, InParts DEF CollectTypeOK
<1>5. DownloadsGoOn'
  BY <1>2, <1>3, InParts DEF DownloadsGoOn, ToDownload, WithPublicPart, IsDownloaded
<1>6. ListPart' /\ RecordPart' /\ CsvPart'
  BY <1>2, <1>3, InParts, ListKept, RecordsKept, CsvKept
<1> QED BY <1>3, <1>4, <1>5, <1>6, PartsAfter

\* The file that is written is of one record only, and what is still to be
\* written has none, because each identifier has one record.
LEMMA PartIsSound ==
    ASSUME CollectInv, DownloadPart
    PROVE  CollectInv'
<1>1. PICK n \in queue : Taking("download", n) /\ pdf' = [pdf EXCEPT ![metadata[n].ident] = "whole"]
  BY DEF DownloadPart
<1>2. /\ command = "download" /\ command' = command /\ queue' = queue \ {n} /\ ended' = ended
      /\ asked' = asked /\ UNCHANGED <<listing, partial, metadata, tail, csv, listed, failures>>
  BY <1>1 DEF DownloadPart, Taking
<1>3. /\ asked \subseteq WithPublicPart /\ queue \subseteq asked \cap ToDownload
      /\ failures = 0 => asked \cap ToDownload \subseteq queue
  BY <1>2, InParts DEF DownloadsGoOn
<1>4. n \in DOMAIN metadata /\ metadata[n].ident \in Idents
  BY <1>3, InParts, CollectTypes DEF ToDownload, WithPublicPart
<1>5. /\ pdf' \in [Idents -> {"none", "empty", "short", "whole"}]
      /\ pdf'[metadata[n].ident] = "whole"
      /\ \A i \in Idents \ {metadata[n].ident} : pdf'[i] = pdf[i]
  BY <1>1, <1>4, InParts DEF CollectTypeOK
<1>6. \A m \in DOMAIN metadata : metadata[m].ident = metadata[n].ident <=> m = n
  BY <1>4, InParts DEF RecordPart, FetchedOnce
<1>7. ToDownload' = ToDownload \ {n} /\ WithPublicPart' = WithPublicPart
  BY <1>2, <1>4, <1>5, <1>6, InParts, CollectTypes DEF ToDownload, WithPublicPart, IsDownloaded
<1>8. DownloadsGoOn'
  BY <1>2, <1>3, <1>5, <1>7 DEF DownloadsGoOn
<1>9. CollectTypeOK'
  BY <1>2, <1>5, InParts DEF CollectTypeOK
<1>10. ListPart' /\ RecordPart' /\ CsvPart'
  BY <1>2, InParts, ListKept, RecordsKept, CsvKept
<1>11. EndPart' /\ RunsGoOn'
  <2>1. ended' = <<"none", 0>>
    BY <1>2, InParts DEF RunsGoOn
  <2> QED BY <1>2, <2>1, NothingEnded DEF RunsGoOn
<1> QED BY <1>8, <1>9, <1>10, <1>11, PartsAfter

LEMMA TornFileIsSound ==
    ASSUME CollectInv, TearFile
    PROVE  CollectInv'
<1>1. /\ Killed /\ command = "download"
      /\ UNCHANGED <<listing, partial, metadata, tail, csv, listed>>
  BY DEF TearFile
<1>2. /\ EndPart' /\ RunsGoOn' /\ command' = "idle"
      /\ asked' \subseteq Nat /\ queue' \subseteq Nat /\ failures' \in Nat /\ ended'[2] \in {0, 1}
  BY <1>1, KilledParts
<1>3. CollectTypeOK'
  <2>1. PICK n \in queue, rest \in {"empty", "short"} : pdf' = [pdf EXCEPT ![metadata[n].ident] = rest]
    BY DEF TearFile
  <2> QED BY <1>1, <1>2, <2>1, InParts DEF CollectTypeOK
<1>4. DownloadsGoOn'
  BY <1>1, <1>2 DEF DownloadsGoOn
<1>5. ListPart' /\ RecordPart' /\ CsvPart'
  BY <1>1, <1>2, InParts, ListKept, RecordsKept, CsvKept
<1> QED BY <1>2, <1>3, <1>4, <1>5, PartsAfter

\* When nothing failed, what was to be downloaded is whole.
LEMMA EndDownloadIsSound ==
    ASSUME CollectInv, EndDownload
    PROVE  CollectInv'
<1>1. Ending("download") /\ UNCHANGED <<listing, partial, metadata, tail, pdf, csv, listed>>
  BY DEF EndDownload, files
<1>2. /\ RunsGoOn' /\ command = "download" /\ command' = "idle" /\ queue = {} /\ queue' = {}
      /\ ended' = <<"download", IF failures = 0 THEN 0 ELSE 1>>
      /\ asked' = asked /\ failures' \in Nat /\ ended'[2] \in {0, 1}
  BY <1>1, EndingParts
<1>3. CollectTypeOK'
  BY <1>1, <1>2, InParts DEF CollectTypeOK
<1>4. ListPart' /\ RecordPart' /\ DownloadsGoOn' /\ CsvPart'
  BY <1>1, <1>2, InParts, ListKept, RecordsKept, FilesKept, CsvKept
<1>5. EndPart'
  <2>1. failures = 0 => \A n \in asked : pdf[metadata[n].ident] \in {"short", "whole"}
    BY <1>2, InParts DEF DownloadsGoOn, ToDownload, IsDownloaded
  <2> QED BY <1>1, <1>2, <2>1 DEF EndPart, NothingIsLeftBehind
<1> QED BY <1>2, <1>3, <1>4, <1>5, PartsAfter

--------------------------------------------------------------------------------
(* The collection: build_csv. *)

LEMMA StartBuildIsSound ==
    ASSUME CollectInv, StartBuild
    PROVE  CollectInv'
<1>1. Starting("build_csv", {}, {}) /\ UNCHANGED <<listing, partial, metadata, tail, pdf, csv, listed>>
  BY DEF StartBuild, files
<1>2. /\ EndPart' /\ RunsGoOn' /\ command' = "build_csv"
      /\ asked' \subseteq Nat /\ queue' \subseteq Nat /\ failures' \in Nat /\ ended'[2] \in {0, 1}
  BY <1>1, StartingParts
<1>3. CollectTypeOK'
  BY <1>1, <1>2, InParts DEF CollectTypeOK
<1>4. ListPart' /\ RecordPart' /\ DownloadsGoOn' /\ CsvPart'
  BY <1>1, <1>2, InParts, ListKept, RecordsKept, FilesKept, CsvKept
<1> QED BY <1>2, <1>3, <1>4, PartsAfter

\* Of two lines of the csv one comes first.
LEMMA LinesAreOrdered ==
    ASSUME CollectTypeOK, NEW m \in DOMAIN metadata, NEW n \in DOMAIN metadata, m # n
    PROVE  Before(m, n) \/ Before(n, m)
<1>1. /\ metadata[m].ident \in Nat /\ metadata[n].ident \in Nat /\ m \in Nat /\ n \in Nat
  <2>1. metadata[m].ident \in Idents /\ metadata[n].ident \in Idents /\ m \in Nat /\ n \in Nat
    BY CollectTypes
  <2> QED BY <2>1, SiteTypes
<1> QED BY <1>1 DEF Before

\* The rows that may be built name a document once, and have every document that
\* a row could be made of: the first of its lines that can be used has a row.
LEMMA RowsAreWhole ==
    ASSUME CollectTypeOK, FetchedOnce, NEW text \in PdfReadings
    PROVE  /\ RowsFor(text) \subseteq CsvRows
           /\ \A a, b \in RowsFor(text) : a.document = b.document => a = b
           /\ \A n \in Buildable : \E row \in RowsFor(text) : row.document = DocumentOf(n)
<1>1. \A n \in Usable(text) :
        n \in DOMAIN metadata /\ n \in Readable(text) /\ metadata[n].ident \in Idents
  BY CollectTypes DEF Usable, Readable, WithPublicPart
<1>2. RowsFor(text) \subseteq CsvRows
  <2> SUFFICES ASSUME NEW n \in Usable(text)
               PROVE  [line |-> n, document |-> DocumentOf(n), text |-> text[metadata[n].ident]]
                        \in CsvRows
    BY DEF RowsFor
  <2>1. n \in Nat
    BY <1>1, CollectTypes
  <2>2. DocumentOf(n) \in Range(IdentDocument)
    BY <1>1, CollectionAssumption DEF DocumentOf, Range
  <2>3. text[metadata[n].ident] \in {"short", "whole"}
    BY <1>1 DEF PdfReadings, Readable
  <2> QED BY <2>1, <2>2, <2>3 DEF CsvRows
<1>3. ASSUME NEW m \in Usable(text), NEW n \in Usable(text), DocumentOf(m) = DocumentOf(n)
      PROVE  m = n
  BY <1>1, <1>3, LinesAreOrdered DEF Usable
<1>4. ASSUME NEW a \in RowsFor(text), NEW b \in RowsFor(text), a.document = b.document
      PROVE  a = b
  <2>1. PICK m \in Usable(text) :
          a = [line |-> m, document |-> DocumentOf(m), text |-> text[metadata[m].ident]]
    BY DEF RowsFor
  <2>2. PICK n \in Usable(text) :
          b = [line |-> n, document |-> DocumentOf(n), text |-> text[metadata[n].ident]]
    BY DEF RowsFor
  <2>3. DocumentOf(m) = DocumentOf(n)
    BY <1>4, <2>1, <2>2
  <2> QED BY <1>3, <2>1, <2>2, <2>3
<1>5. ASSUME NEW n \in Buildable
      PROVE  \E row \in RowsFor(text) : row.document = DocumentOf(n)
  <2>1. /\ n \in DOMAIN metadata /\ metadata[n].ident \in Idents /\ n \in WithPublicPart
        /\ metadata[n].ident \in Mapped /\ metadata[n].ident \in LongEnough
        /\ pdf[metadata[n].ident] = "whole"
    BY CollectTypes DEF Buildable, WithPublicPart
  <2>2. text[metadata[n].ident] = "whole"
    BY <2>1 DEF PdfReadings, PdfTexts
  <2>3. n \in Readable(text)
    BY <2>1, <2>2 DEF Readable
  <2> DEFINE same == {m \in Readable(text) : DocumentOf(m) = DocumentOf(n)}
             numbers == {metadata[m].ident : m \in same}
  <2>4. \A m \in same : m \in DOMAIN metadata /\ metadata[m].ident \in Nat
    BY CollectTypes, SiteTypes DEF Readable, WithPublicPart
  <2>5. numbers \in SUBSET Nat /\ numbers # {}
    BY <2>3, <2>4
  <2>6. PICK least \in numbers : \A number \in numbers : least <= number
    <3> HIDE DEF numbers
    <3> QED BY <2>5, LeastOf
  <2>7. PICK first \in same : metadata[first].ident = least
    OBVIOUS
  <2>8. ASSUME NEW m \in Readable(text), Before(m, first)
        PROVE  DocumentOf(m) # DocumentOf(first)
    <3> SUFFICES ASSUME m \in same PROVE FALSE
      OBVIOUS
    <3>1. least <= metadata[m].ident /\ least \in Nat /\ metadata[m].ident \in Nat
      BY <2>4, <2>6, <2>7
    <3>2. metadata[m].ident = metadata[first].ident /\ m < first
      BY <2>7, <2>8, <3>1 DEF Before
    <3>3. m = first
      BY <2>4, <2>7, <3>2 DEF FetchedOnce
    <3>4. m \in Nat
      BY <2>4, CollectTypes
    <3> QED BY <3>2, <3>3, <3>4
  <2>9. first \in Usable(text) /\ DocumentOf(first) = DocumentOf(n)
    BY <2>7, <2>8 DEF Usable
  <2> DEFINE row == [line |-> first, document |-> DocumentOf(first),
                     text |-> text[metadata[first].ident]]
  <2>10. row \in RowsFor(text) /\ row.document = DocumentOf(n)
    BY <2>9 DEF RowsFor
  <2> QED BY <2>10
<1> QED BY <1>2, <1>4, <1>5

LEMMA EndBuildIsSound ==
    ASSUME CollectInv, EndBuild
    PROVE  CollectInv'
<1>1. PICK text \in PdfReadings : csv' = RowsFor(text)
  BY DEF EndBuild, BuiltRows
<1>2. Ending("build_csv") /\ UNCHANGED <<listing, partial, metadata, tail, pdf, listed>>
  BY DEF EndBuild
<1>3. /\ RunsGoOn' /\ command = "build_csv" /\ command' = "idle" /\ queue = {} /\ queue' = {}
      /\ ended'[1] = "build_csv"
      /\ asked' = asked /\ failures' \in Nat /\ ended'[2] \in {0, 1}
  BY <1>2, EndingParts
<1>4. /\ csv' \subseteq CsvRows /\ CsvPart'
      /\ \A n \in Buildable : \E row \in csv' : row.document = DocumentOf(n)
  BY <1>1, RowsAreWhole, InParts DEF CsvPart, RecordPart
<1>5. CollectTypeOK'
  BY <1>2, <1>3, <1>4, InParts DEF CollectTypeOK
<1>6. ListPart' /\ RecordPart' /\ DownloadsGoOn'
  BY <1>2, <1>3, InParts, ListKept, RecordsKept, FilesKept
<1>7. EndPart'
  BY <1>2, <1>3, <1>4 DEF EndPart, NothingIsLeftBehind, Buildable, WithPublicPart, DocumentOf
<1> QED BY <1>3, <1>4, <1>5, <1>6, <1>7, PartsAfter

LEMMA TornCsvIsSound ==
    ASSUME CollectInv, TearCsv
    PROVE  CollectInv'
<1>1. /\ Killed /\ command = "build_csv"
      /\ UNCHANGED <<listing, partial, metadata, tail, pdf, listed>>
  BY DEF TearCsv
<1>2. /\ EndPart' /\ RunsGoOn' /\ command' = "idle"
      /\ asked' \subseteq Nat /\ queue' \subseteq Nat /\ failures' \in Nat /\ ended'[2] \in {0, 1}
  BY <1>1, KilledParts
<1>3. csv' \subseteq CsvRows /\ CsvPart'
  <2>1. CASE csv' = {}
    BY <2>1 DEF CsvPart
  <2>2. CASE csv' # {}
    <3>1. PICK rows \in BuiltRows : csv' \subseteq rows
      BY <2>2 DEF TearCsv
    <3>2. PICK text \in PdfReadings : rows = RowsFor(text)
      BY DEF BuiltRows
    <3> QED BY <3>1, <3>2, RowsAreWhole, InParts DEF CsvPart, RecordPart
  <2> QED BY <2>1, <2>2
<1>4. CollectTypeOK'
  BY <1>1, <1>2, <1>3, InParts DEF CollectTypeOK
<1>5. ListPart' /\ RecordPart' /\ DownloadsGoOn'
  BY <1>1, <1>2, InParts, ListKept, RecordsKept, FilesKept
<1> QED BY <1>2, <1>3, <1>4, <1>5, PartsAfter

--------------------------------------------------------------------------------
(* The theorems about the collection. *)

LEMMA CollectStepIsSound == CollectInv /\ [CollectNext]_collectVars => CollectInv'
<1> SUFFICES ASSUME CollectInv, [CollectNext]_collectVars PROVE CollectInv'
  OBVIOUS
<1>1. CASE FailRequest \/ Kill
  BY <1>1, FailedRequestIsSound, KillLosesNothing
<1>2. CASE StartListing \/ WritePage \/ ReadOddPage \/ EndListing
  BY <1>2, StartListingIsSound, PageIsSound, OddPageIsSound, EndListingIsSound
<1>3. CASE StartDetails \/ FetchDetails \/ EndDetails \/ TearLine
  BY <1>3, StartDetailsIsSound, FetchIsSound, EndDetailsIsSound, TornLineIsSound
<1>4. CASE StartDownload \/ DownloadPart \/ TearFile \/ EndDownload
  BY <1>4, StartDownloadIsSound, PartIsSound, TornFileIsSound, EndDownloadIsSound
<1>5. CASE StartBuild \/ EndBuild \/ TearCsv
  BY <1>5, StartBuildIsSound, EndBuildIsSound, TornCsvIsSound
<1>6. CASE UNCHANGED collectVars
  <2>1. UNCHANGED <<listing, partial, metadata, tail, pdf, csv, listed, command, asked, queue,
                    failures, ended>>
    BY <1>6 DEF collectVars
  <2>2. CollectTypeOK'
    BY <2>1, InParts DEF CollectTypeOK
  <2>3. ListPart'
    BY <2>1, InParts DEF ListPart, ListingIsWhole, ListingsBeginTheSite, BeginsTheSite, ListingGoesOn
  <2>4. RecordPart'
    BY <2>1, InParts DEF RecordPart, FetchedOnce, DetailsGoOn, ToFetch, Fetched
  <2>5. DownloadsGoOn'
    BY <2>1, InParts DEF DownloadsGoOn, ToDownload, WithPublicPart, IsDownloaded
  <2>6. CsvPart' /\ RunsGoOn'
    BY <2>1, InParts DEF CsvPart, RunsGoOn
  <2>7. EndPart'
    BY <2>1, InParts DEF EndPart, NothingIsLeftBehind, Buildable, WithPublicPart, DocumentOf, Fetched
  <2> QED BY <2>2, <2>3, <2>4, <2>5, <2>6, <2>7, PartsAfter
<1> QED BY <1>1, <1>2, <1>3, <1>4, <1>5, <1>6 DEF CollectNext

\* The inductive invariant of the collection, with its types.
THEOREM CollectInvariantHolds == CollectSpec => []CollectInv
BY CollectInitIsSound, CollectStepIsSound, PTL DEF CollectSpec

\* What the commands leave behind is whole and has everything once, over any
\* number of runs, kills and failures: the listing, the records, the csv, and
\* what an exit code of 0 says of them.
THEOREM OutputsHold == CollectSpec => []OutputsAreWhole
<1>1. CollectInv => OutputsAreWhole
  BY DEF CollectInv
<1> QED BY <1>1, CollectInvariantHolds, PTL

\* Only a file that is not whole is written, and a record is only appended, but
\* for the one whose line was left without its end.
LEMMA StepKeeps ==
    ASSUME CollectInv, [CollectNext]_collectVars
    PROVE  /\ \A i \in Idents : pdf[i] = "whole" => pdf'[i] = "whole"
           /\ \A n \in DOMAIN metadata :
                \/ n \in DOMAIN metadata' /\ metadata'[n] = metadata[n]
                \/ n = Len(metadata) /\ tail = "unended"
<1>1. \A i \in Idents : pdf[i] = "whole" => pdf'[i] = "whole"
  <2>1. CASE DownloadPart
    <3>1. PICK n \in queue : pdf' = [pdf EXCEPT ![metadata[n].ident] = "whole"]
      BY <2>1 DEF DownloadPart
    <3> QED BY <3>1, InParts DEF CollectTypeOK
  <2>2. CASE TearFile
    <3>1. PICK n \in queue, rest \in {"empty", "short"} : pdf' = [pdf EXCEPT ![metadata[n].ident] = rest]
      BY <2>2 DEF TearFile
    <3>2. pdf[metadata[n].ident] # "whole"
      BY <2>2, InParts DEF TearFile, DownloadsGoOn, ToDownload, IsDownloaded
    <3> QED BY <3>1, <3>2, InParts DEF CollectTypeOK
  <2>3. CASE ~DownloadPart /\ ~TearFile
    <3>1. pdf' = pdf
      BY <2>3 DEF CollectNext, FailRequest, Kill, StartListing, WritePage, ReadOddPage, EndListing,
         StartDetails, FetchDetails, EndDetails, TearLine, StartDownload, EndDownload,
         StartBuild, EndBuild, TearCsv, files, collectVars
    <3> QED BY <3>1
  <2> QED BY <2>1, <2>2, <2>3
<1>2. \A n \in DOMAIN metadata : \/ n \in DOMAIN metadata' /\ metadata'[n] = metadata[n]
                                 \/ n = Len(metadata) /\ tail = "unended"
  <2>1. \/ UNCHANGED metadata
        \/ \E r \in Records : metadata' = Append(metadata, r)
        \/ tail = "unended" /\ metadata' = ButLast(metadata)
    <3>1. CASE FetchDetails
      BY <3>1 DEF FetchDetails, StillRead
    <3>2. CASE TearLine
      <4>1. CASE \E k \in queue :
              metadata' = Append(metadata, [ident |-> listing[k], part |-> listing[k] \in WithPart])
        <5>1. PICK k \in queue :
                metadata' = Append(metadata, [ident |-> listing[k], part |-> listing[k] \in WithPart])
          BY <4>1
        <5>2. listing[k] \in Idents
          BY <3>2, InParts, CollectTypes DEF TearLine, RecordPart, DetailsGoOn, ToFetch
        <5>3. [ident |-> listing[k], part |-> listing[k] \in WithPart] \in Records
          BY <5>2 DEF Records
        <5> QED BY <5>1, <5>3
      <4>2. CASE metadata' = StillRead
        BY <4>2 DEF StillRead
      <4> QED BY <3>2, <4>1, <4>2 DEF TearLine
    <3>3. CASE ~FetchDetails /\ ~TearLine
      BY <3>3 DEF CollectNext, FailRequest, Kill, StartListing, WritePage, ReadOddPage, EndListing,
         StartDetails, EndDetails, StartDownload, DownloadPart, TearFile, EndDownload,
         StartBuild, EndBuild, TearCsv, files, collectVars
    <3> QED BY <3>1, <3>2, <3>3
  <2>2. metadata \in Seq(Records) /\ DOMAIN metadata = 1..Len(metadata) /\ Len(metadata) \in Nat
    BY InParts, CollectTypes
  <2>3. CASE \E r \in Records : metadata' = Append(metadata, r)
    BY <2>2, <2>3, AppendKeeps
  <2>4. CASE tail = "unended" /\ metadata' = ButLast(metadata)
    BY <2>2, <2>4, ButLastKeeps
  <2> QED BY <2>1, <2>3, <2>4
<1> QED BY <1>1, <1>2

\* No run undoes what another has done: a whole file is never written again, and
\* a record is lost only with a line that a kill left without its end.
THEOREM WorkIsKept == CollectSpec => KeptAcrossRestarts
<1>1. CollectInv /\ [CollectNext]_collectVars =>
        [/\ \A i \in Idents : pdf[i] = "whole" => pdf'[i] = "whole"
         /\ \A n \in DOMAIN metadata :
              \/ n \in DOMAIN metadata' /\ metadata'[n] = metadata[n]
              \/ n = Len(metadata) /\ tail = "unended"]_collectVars
  BY StepKeeps
<1> QED BY <1>1, CollectInvariantHolds, PTL DEF CollectSpec, KeptAcrossRestarts

--------------------------------------------------------------------------------
(* Lemmas about rows and users. *)

\* get_or_create keeps every row it finds.
LEMMA RowsAreKept == \A rows, seeded : KeptIn(rows, GetOrCreate(rows, seeded))
  BY DEF GetOrCreate, KeptIn

\* The same rows are created once.
LEMMA CreatedOnce ==
    ASSUME NEW rows, NEW seeded
    PROVE  GetOrCreate(GetOrCreate(rows, seeded), seeded) = GetOrCreate(rows, seeded)
<1> DEFINE once == GetOrCreate(rows, seeded)
<1>1. /\ DOMAIN once = DOMAIN rows \cup DOMAIN seeded
      /\ once = [row \in DOMAIN once |-> once[row]]
  BY DEF GetOrCreate
<1>2. GetOrCreate(once, seeded) = [row \in DOMAIN once |-> once[row]]
  BY <1>1 DEF GetOrCreate
<1> QED BY <1>1, <1>2

\* Where the rows of the data are all there, nothing is created.
LEMMA NothingToCreate ==
    ASSUME NEW rows, NEW seeded, rows = [row \in DOMAIN rows |-> rows[row]],
           DOMAIN seeded \subseteq DOMAIN rows
    PROVE  GetOrCreate(rows, seeded) = rows
  BY DEF GetOrCreate

\* The number of an account is that of a run that was: the next one is free.
LEMMA NewAccounts ==
    ASSUME NEW tables, AccountsFit(tables), tables.creations \in Nat
    PROVE  /\ Creations(tables) \in Nat /\ tables.creations <= Creations(tables)
           /\ (Missing(tables.accounts) \X {Creations(tables)}) \cap DOMAIN tables.accounts = {}
           /\ Missing(tables.accounts) # {} => Creations(tables) = tables.creations + 1
<1>1. /\ Creations(tables) \in Nat /\ tables.creations <= Creations(tables)
      /\ Missing(tables.accounts) # {} => Creations(tables) = tables.creations + 1
  BY DEF Creations
<1>2. ASSUME NEW id \in (Missing(tables.accounts) \X {Creations(tables)}) \cap DOMAIN tables.accounts
      PROVE  FALSE
  <2>1. id[2] = tables.creations + 1
    BY <1>1, <1>2
  <2>2. id[2] \in 1..tables.creations
    BY <1>2 DEF AccountsFit
  <2> QED BY <2>1, <2>2
<1> QED BY <1>1, <1>2

\* After a run every user of the data has an account.
LEMMA NobodyIsMissing ==
    ASSUME NEW tables, AccountsFit(tables), tables.creations \in Nat
    PROVE  Missing(SeededAccounts(tables)) = {}
<1> DEFINE created == [id \in Missing(tables.accounts) \X {Creations(tables)} |->
            [mail |-> id[1], area |-> SeedUsers[id[1]].area, active |-> SeedUsers[id[1]].active]]
<1>0. SeededAccounts(tables) = GetOrCreate(tables.accounts, created)
  BY DEF SeededAccounts
<1> HIDE DEF created
<1>1. /\ DOMAIN SeededAccounts(tables) = DOMAIN tables.accounts \cup DOMAIN created
      /\ \A id \in DOMAIN tables.accounts : SeededAccounts(tables)[id] = tables.accounts[id]
      /\ \A id \in DOMAIN created \ DOMAIN tables.accounts : SeededAccounts(tables)[id] = created[id]
  BY <1>0 DEF GetOrCreate
<1>2. SUFFICES ASSUME NEW key \in DOMAIN SeedUsers
               PROVE  OfMail(SeededAccounts(tables), key) # {}
  BY DEF Missing
<1>3. CASE key \in Missing(tables.accounts)
  <2> DEFINE id == <<key, Creations(tables)>>
  <2>1. id \in DOMAIN created /\ id \notin DOMAIN tables.accounts /\ created[id].mail = key
    BY <1>3, NewAccounts DEF created
  <2>2. SeededAccounts(tables)[id] = created[id] /\ id \in DOMAIN SeededAccounts(tables)
    BY <1>1, <2>1
  <2> QED BY <2>1, <2>2 DEF OfMail
<1>4. CASE key \notin Missing(tables.accounts)
  <2>1. PICK id \in DOMAIN tables.accounts : tables.accounts[id].mail = key
    BY <1>4 DEF Missing, OfMail
  <2>2. id \in DOMAIN SeededAccounts(tables) /\ SeededAccounts(tables)[id] = tables.accounts[id]
    BY <1>1, <2>1
  <2> QED BY <2>1, <2>2 DEF OfMail
<1> QED BY <1>3, <1>4

\* The users of a run are accounts, each of its own.
LEMMA UsersAreAccounts ==
    ASSUME NEW accounts, Missing(accounts) = {}
    PROVE  /\ DOMAIN UserOf(accounts) = DOMAIN SeedUsers \cup {NoRow}
           /\ UserOf(accounts)[NoRow] = NoRow
           /\ \A key \in DOMAIN SeedUsers : /\ UserOf(accounts)[key] \in DOMAIN accounts
                                            /\ accounts[UserOf(accounts)[key]].mail = key
           /\ \A key \in DOMAIN SeedUsers \cup {NoRow} : UserOf(accounts)[key] \in DOMAIN accounts \cup {NoRow}
<1>1. DOMAIN UserOf(accounts) = DOMAIN SeedUsers \cup {NoRow} /\ UserOf(accounts)[NoRow] = NoRow
  BY DEF UserOf
<1>2. ASSUME NEW key \in DOMAIN SeedUsers
      PROVE  UserOf(accounts)[key] \in OfMail(accounts, key)
  <2>1. OfMail(accounts, key) # {} /\ key # NoRow
    BY SeedAssumption DEF Missing, SeedAssumption
  <2>2. UserOf(accounts)[key] = CHOOSE id \in OfMail(accounts, key) : TRUE
    BY <2>1 DEF UserOf
  <2> QED BY <2>1, <2>2
<1> QED BY <1>1, <1>2 DEF OfMail

\* The tables after a run, one by one.
LEMMA TablesOfARun ==
    ASSUME NEW tables
    PROVE  LET after == Seeded(tables)
               accounts == SeededAccounts(tables)
               user == UserOf(accounts)
               documents == SeededDocuments(tables.documents, user)
               revisions == SeededRevisions(tables.revisions, user)
           IN  /\ DOMAIN after = {"accounts", "managers", "documents", "revisions", "files",
                                  "accesses", "clauses", "audit", "excluded", "creations",
                      "inherited"}
               /\ after.accounts = accounts
               /\ after.managers = SeededManagers(tables.managers, user)
               /\ after.documents = documents
               /\ after.revisions = revisions
               /\ after.files = SeededFiles(tables.files, documents)
               /\ after.accesses = SeededAccesses(tables.accesses, user)
               /\ after.clauses = GetOrCreate(tables.clauses, SeedClauses)
               /\ after.audit = SeededTrail(tables.audit, EventsOf(accounts, user, revisions))
               /\ after.excluded = tables.excluded
               /\ after.creations = Creations(tables)
               /\ after.inherited = tables.inherited
  BY DEF Seeded

\* A second run finds every account, and creates none.
LEMMA NoAccountAgain ==
    ASSUME NEW tables, AccountsFit(tables), tables.creations \in Nat
    PROVE  LET after == Seeded(tables)
           IN  /\ Missing(after.accounts) = {}
               /\ SeededAccounts(after) = after.accounts
               /\ Creations(after) = after.creations
<1> DEFINE after == Seeded(tables)
<1>1. /\ after.accounts = SeededAccounts(tables)
      /\ after.creations = Creations(tables)
  BY TablesOfARun
<1> HIDE DEF after
<1>2. Missing(after.accounts) = {}
  BY <1>1, NobodyIsMissing
<1>3. Creations(after) = after.creations
  BY <1>1, <1>2, NewAccounts DEF Creations
<1>4. after.accounts = [id \in DOMAIN after.accounts |-> after.accounts[id]]
  BY <1>1 DEF SeededAccounts, GetOrCreate
<1> DEFINE created == [id \in Missing(after.accounts) \X {Creations(after)} |->
            [mail |-> id[1], area |-> SeedUsers[id[1]].area, active |-> SeedUsers[id[1]].active]]
<1>5. DOMAIN created = {}
  BY <1>2
<1>6. SeededAccounts(after) = GetOrCreate(after.accounts, created)
  BY DEF SeededAccounts
<1> HIDE DEF created
<1>7. SeededAccounts(after) = after.accounts
  BY <1>4, <1>5, <1>6, NothingToCreate
<1> QED BY <1>2, <1>3, <1>7 DEF after

\* A second run changes no table.
LEMMA NothingAgain ==
    ASSUME NEW tables, AccountsFit(tables), tables.creations \in Nat
    PROVE  Seeded(Seeded(tables)) = Seeded(tables)
<1> DEFINE after == Seeded(tables)
           accounts == SeededAccounts(tables)
           user == UserOf(accounts)
<1>1. /\ after.accounts = accounts
      /\ after.managers = SeededManagers(tables.managers, user)
      /\ after.documents = SeededDocuments(tables.documents, user)
      /\ after.revisions = SeededRevisions(tables.revisions, user)
      /\ after.files = SeededFiles(tables.files, after.documents)
      /\ after.accesses = SeededAccesses(tables.accesses, user)
      /\ after.clauses = GetOrCreate(tables.clauses, SeedClauses)
      /\ after.audit = SeededTrail(tables.audit, EventsOf(accounts, user, after.revisions))
      /\ after.excluded = tables.excluded
      /\ after.creations = Creations(tables)
      /\ after.inherited = tables.inherited
  BY TablesOfARun
<1>2. SeededAccounts(after) = accounts /\ Creations(after) = after.creations
  BY <1>1, NoAccountAgain
<1>3. after = [accounts |-> after.accounts, managers |-> after.managers,
               documents |-> after.documents, revisions |-> after.revisions,
               files |-> after.files, accesses |-> after.accesses, clauses |-> after.clauses,
               audit |-> after.audit, excluded |-> after.excluded, creations |-> after.creations,
               inherited |-> after.inherited]
  BY DEF Seeded
<1> HIDE DEF after, accounts
<1>4. SeededManagers(after.managers, user) = after.managers
  <2>1. DOMAIN after.managers = DOMAIN SeedManagers
    BY <1>1 DEF SeededManagers
  <2> QED BY <1>1, <2>1 DEF SeededManagers
<1>5. SeededDocuments(after.documents, user) = after.documents
  BY <1>1, CreatedOnce DEF SeededDocuments
<1>6. SeededRevisions(after.revisions, user) = after.revisions
  BY <1>1, CreatedOnce DEF SeededRevisions
<1>7. SeededFiles(after.files, after.documents) = after.files
  BY <1>1 DEF SeededFiles
<1>8. SeededAccesses(after.accesses, user) = after.accesses
  BY <1>1, CreatedOnce DEF SeededAccesses
<1>9. GetOrCreate(after.clauses, SeedClauses) = after.clauses
  BY <1>1, CreatedOnce
<1>10. SeededTrail(after.audit, EventsOf(accounts, user, after.revisions)) = after.audit
  BY <1>1 DEF SeededTrail
<1>11. Seeded(after) = after
  <2>1. /\ Seeded(after).accounts = after.accounts
        /\ Seeded(after).managers = after.managers
        /\ Seeded(after).documents = after.documents
        /\ Seeded(after).revisions = after.revisions
        /\ Seeded(after).files = after.files
        /\ Seeded(after).accesses = after.accesses
        /\ Seeded(after).clauses = after.clauses
        /\ Seeded(after).audit = after.audit
        /\ Seeded(after).excluded = after.excluded
        /\ Seeded(after).creations = after.creations
        /\ Seeded(after).inherited = after.inherited
    BY <1>1, <1>2, <1>4, <1>5, <1>6, <1>7, <1>8, <1>9, <1>10, TablesOfARun
  <2>2. Seeded(after) =
           [accounts |-> Seeded(after).accounts, managers |-> Seeded(after).managers,
            documents |-> Seeded(after).documents, revisions |-> Seeded(after).revisions,
            files |-> Seeded(after).files, accesses |-> Seeded(after).accesses,
            clauses |-> Seeded(after).clauses, audit |-> Seeded(after).audit,
            excluded |-> Seeded(after).excluded, creations |-> Seeded(after).creations,
            inherited |-> Seeded(after).inherited]
    BY DEF Seeded
  <2> QED BY <1>3, <2>1, <2>2
<1> QED BY <1>11 DEF after

\* Where a run passes, the next one passes too.
LEMMA MayRunAgain ==
    ASSUME NEW tables, AccountsFit(tables), tables.creations \in Nat, MaySeed(tables)
    PROVE  MaySeed(Seeded(tables))
<1> DEFINE after == Seeded(tables)
           accounts == SeededAccounts(tables)
           user == UserOf(accounts)
<1>1. /\ after.accounts = accounts
      /\ after.managers = SeededManagers(tables.managers, user)
      /\ after.documents = SeededDocuments(tables.documents, user)
      /\ after.audit = SeededTrail(tables.audit,
                            EventsOf(accounts, user, SeededRevisions(tables.revisions, user)))
      /\ after.excluded = tables.excluded
  BY TablesOfARun
<1>2. Seeded(after).accounts = after.accounts /\ Seeded(after).managers = after.managers
      /\ Seeded(after).documents = after.documents
  BY NothingAgain
<1>3. SeededAccounts(after) = accounts /\ Missing(after.accounts) = {}
  BY <1>1, NoAccountAgain
<1>4. /\ SeededManagers(after.managers, user) = after.managers
      /\ SeededDocuments(after.documents, user) = after.documents
  BY <1>2, <1>3, TablesOfARun
<1>5. /\ CodesAreKnown /\ ManagersBelong(accounts, user, after.managers)
      /\ AuditorsAreOthers(user) /\ FilesAreKnown(after.documents)
      /\ ApproversMayDecide(user, after.managers, after.documents)
      /\ TrailIsPossible(tables.audit, accounts, user)
  BY <1>1 DEF MaySeed
<1>6. TrailIsPossible(after.audit, accounts, user)
  BY <1>1, <1>5 DEF TrailIsPossible, SeededTrail
<1>7. MailsAreFree(after)
  BY <1>3 DEF MailsAreFree
<1> HIDE DEF after, accounts
<1>8. MaySeed(after)
  BY <1>3, <1>4, <1>5, <1>6, <1>7 DEF MaySeed
<1> QED BY <1>8 DEF after

\* The name of a version is its document and its number.
LEMMA VersionsOfTheData ==
    ASSUME NEW r \in SeedVersions
    PROVE  /\ r = <<r[1], r[2]>> /\ r[1] \in DOMAIN SeedRevisions /\ r[2] \in Nat \ {0}
           /\ r[2] # 1 => <<r[1], r[2] - 1>> \in SeedVersions
<1>0. PICK code \in DOMAIN SeedRevisions : \E v \in DOMAIN SeedRevisions[code] : r = <<code, v>>
  BY DEF SeedVersions
<1>1. PICK v \in DOMAIN SeedRevisions[code] : r = <<code, v>>
  BY <1>0
<1>2. Len(SeedRevisions[code]) \in Nat /\ DOMAIN SeedRevisions[code] = 1..Len(SeedRevisions[code])
  BY SeedAssumption DEF SeedAssumption
<1>3. v \in Nat \ {0} /\ (v # 1 => v - 1 \in DOMAIN SeedRevisions[code])
  BY <1>2
<1>4. v # 1 => <<code, v - 1>> \in SeedVersions
  BY <1>3 DEF SeedVersions
<1> QED BY <1>1, <1>3, <1>4

\* The events of a run can be counted.
LEMMA EventsAreCounted ==
    ASSUME NEW accounts, NEW user, NEW revisions
    PROVE  EventsOf(accounts, user, revisions) \in Nat
<1>1. /\ IsFiniteSet(DOMAIN SeedUsers) /\ IsFiniteSet(DOMAIN SeedDocuments)
      /\ IsFiniteSet(SeedVersions) /\ IsFiniteSet(DOMAIN SeedAccesses)
  BY SeedAssumption DEF SeedAssumption
<1>2. Cardinality(DOMAIN SeedDocuments) \in Nat /\ Cardinality(SeedVersions) \in Nat
  BY <1>1, FS_CardinalityType
<1>3. Cardinality(ActiveUsers(accounts, user)) \in Nat
  <2>1. ActiveUsers(accounts, user) \subseteq DOMAIN SeedUsers
    BY DEF ActiveUsers
  <2> QED BY <1>1, <2>1, FS_Subset, FS_CardinalityType
<1>4. Cardinality({r \in SeedVersions : revisions[r].status # "PENDING"}) \in Nat
  <2> DEFINE audited == {r \in SeedVersions : revisions[r].status # "PENDING"}
  <2>1. audited \subseteq SeedVersions
    OBVIOUS
  <2> HIDE DEF audited
  <2>2. Cardinality(audited) \in Nat
    BY <1>1, <2>1, FS_Subset, FS_CardinalityType
  <2> QED BY <2>2 DEF audited
<1>5. Cardinality({n \in DOMAIN SeedAccesses : SeedAccesses[n].asked # NoRow}) \in Nat
  <2> DEFINE requested == {n \in DOMAIN SeedAccesses : SeedAccesses[n].asked # NoRow}
  <2>1. requested \subseteq DOMAIN SeedAccesses
    OBVIOUS
  <2> HIDE DEF requested
  <2>2. Cardinality(requested) \in Nat
    BY <1>1, <2>1, FS_Subset, FS_CardinalityType
  <2> QED BY <2>2 DEF requested
<1>6. Cardinality({n \in DOMAIN SeedAccesses : SeedAccesses[n].decided # NoRow}) \in Nat
  <2> DEFINE decided == {n \in DOMAIN SeedAccesses : SeedAccesses[n].decided # NoRow}
  <2>1. decided \subseteq DOMAIN SeedAccesses
    OBVIOUS
  <2> HIDE DEF decided
  <2>2. Cardinality(decided) \in Nat
    BY <1>1, <2>1, FS_Subset, FS_CardinalityType
  <2> QED BY <2>2 DEF decided
<1>7. ReadDocuments \in Nat
  BY <1>2 DEF ReadDocuments
<1> QED BY <1>2, <1>3, <1>4, <1>5, <1>6, <1>7 DEF EventsOf

\* The accounts after a run.
LEMMA AccountsFitAfter ==
    ASSUME NEW tables, AccountsFit(tables), tables.creations \in Nat, CodesAreKnown
    PROVE  /\ AccountsFit(Seeded(tables))
           /\ DOMAIN tables.accounts \subseteq DOMAIN Seeded(tables).accounts
<1> DEFINE Rows == [mail : DOMAIN SeedUsers \cup {"renamed", "anonymized"},
                    area : DOMAIN SeedManagers, active : BOOLEAN]
           created == [id \in Missing(tables.accounts) \X {Creations(tables)} |->
            [mail |-> id[1], area |-> SeedUsers[id[1]].area, active |-> SeedUsers[id[1]].active]]
           after == Seeded(tables)
<1>1. after.accounts = GetOrCreate(tables.accounts, created) /\ after.creations = Creations(tables)
  BY TablesOfARun DEF SeededAccounts
<1>2. /\ Missing(tables.accounts) \subseteq DOMAIN SeedUsers
      /\ \A key \in DOMAIN SeedUsers : /\ SeedUsers[key].area \in DOMAIN SeedManagers
                                       /\ SeedUsers[key].active \in BOOLEAN
  BY SeedAssumption DEF SeedAssumption, Missing, CodesAreKnown
<1>3. created \in [DOMAIN created -> Rows] /\ DOMAIN created = Missing(tables.accounts) \X {Creations(tables)}
  BY <1>2
<1>4. tables.accounts \in [DOMAIN tables.accounts -> Rows]
  BY DEF AccountsFit
<1>5. DOMAIN created \subseteq (DOMAIN SeedUsers) \X (1..Creations(tables))
  BY <1>2, <1>3, NewAccounts
<1>6. DOMAIN tables.accounts \subseteq (DOMAIN SeedUsers) \X (1..Creations(tables))
  BY NewAccounts DEF AccountsFit
<1> HIDE DEF created, Rows, after
<1>7. after.accounts \in [DOMAIN after.accounts -> Rows]
  BY <1>1, <1>3, <1>4 DEF GetOrCreate
<1>8. DOMAIN after.accounts = DOMAIN tables.accounts \cup DOMAIN created
  BY <1>1 DEF GetOrCreate
<1> QED BY <1>1, <1>5, <1>6, <1>7, <1>8 DEF AccountsFit, Rows, after

\* The users of a run have rows in the tables it leaves.
LEMMA UsersOfARun ==
    ASSUME NEW tables, AccountsFit(tables), tables.creations \in Nat, CodesAreKnown,
           NEW user, user = UserOf(Seeded(tables).accounts)
    PROVE  /\ user = UserOf(SeededAccounts(tables)) /\ user[NoRow] = NoRow
           /\ \A key \in DOMAIN SeedUsers : user[key] \in DOMAIN Seeded(tables).accounts
           /\ \A key \in DOMAIN SeedUsers \cup {NoRow} : user[key] \in Known(Seeded(tables))
           /\ Known(tables) \subseteq Known(Seeded(tables))
<1>1. Seeded(tables).accounts = SeededAccounts(tables)
  BY TablesOfARun
<1>2. Missing(Seeded(tables).accounts) = {}
  BY <1>1, NobodyIsMissing
<1>3. DOMAIN tables.accounts \subseteq DOMAIN Seeded(tables).accounts
  BY AccountsFitAfter
<1> QED BY <1>1, <1>2, <1>3, UsersAreAccounts DEF Known

\* The managers after a run.
LEMMA ManagersFitAfter ==
    ASSUME NEW tables, AccountsFit(tables), ManagersFit(tables), tables.creations \in Nat,
           CodesAreKnown
    PROVE  ManagersFit(Seeded(tables))
<1> DEFINE after == Seeded(tables)
           user == UserOf(after.accounts)
<1>1. /\ user = UserOf(SeededAccounts(tables))
      /\ \A key \in DOMAIN SeedUsers \cup {NoRow} : user[key] \in Known(after)
      /\ Known(tables) \subseteq Known(after)
  BY UsersOfARun
<1>2. after.managers = SeededManagers(tables.managers, user)
  BY <1>1, TablesOfARun
<1>3. \A a \in DOMAIN SeedManagers : SeedManagers[a] \in DOMAIN SeedUsers \cup {NoRow}
  BY DEF CodesAreKnown
<1> HIDE DEF after, user
<1>4. \A a \in DOMAIN tables.managers : tables.managers[a] \in Known(after)
  BY <1>1 DEF ManagersFit
<1>5. SeededManagers(tables.managers, user) \in [DOMAIN SeedManagers -> Known(after)]
  BY <1>1, <1>3, <1>4 DEF SeededManagers
<1> QED BY <1>2, <1>5 DEF ManagersFit, after

\* The documents after a run: those of the data among them.
LEMMA DocumentsFitAfter ==
    ASSUME NEW tables, AccountsFit(tables), DocumentsFit(tables), tables.creations \in Nat,
           CodesAreKnown
    PROVE  /\ DocumentsFit(Seeded(tables))
           /\ DOMAIN Seeded(tables).documents = DOMAIN tables.documents \cup DOMAIN SeedDocuments
<1> DEFINE after == Seeded(tables)
           user == UserOf(after.accounts)
           Rows == [responsible : DOMAIN after.accounts, type : SeedTypes]
           rows == [code \in DOMAIN SeedDocuments |->
                      [responsible |-> user[SeedDocuments[code].responsible],
                       type |-> SeedDocuments[code].type]]
<1>1. /\ user = UserOf(SeededAccounts(tables))
      /\ \A key \in DOMAIN SeedUsers : user[key] \in DOMAIN after.accounts
  BY UsersOfARun
<1>2. after.documents = GetOrCreate(tables.documents, rows)
  BY <1>1, TablesOfARun DEF SeededDocuments
<1>3. DOMAIN tables.accounts \subseteq DOMAIN after.accounts
  BY AccountsFitAfter
<1> HIDE DEF after, user
<1>4. tables.documents \in [DOMAIN tables.documents -> Rows]
  <2>1. [responsible : DOMAIN tables.accounts, type : SeedTypes] \subseteq Rows
    BY <1>3
  <2> QED BY <2>1 DEF DocumentsFit
<1>5. \A code \in DOMAIN SeedDocuments : /\ SeedDocuments[code].responsible \in DOMAIN SeedUsers
                                         /\ SeedDocuments[code].type \in SeedTypes
  BY DEF CodesAreKnown, Range
<1>6. rows \in [DOMAIN rows -> Rows] /\ DOMAIN rows = DOMAIN SeedDocuments
  BY <1>1, <1>5
<1> HIDE DEF Rows, rows
<1>7. after.documents \in [DOMAIN after.documents -> Rows]
  BY <1>2, <1>4, <1>6 DEF GetOrCreate
<1>8. DOMAIN after.documents = DOMAIN tables.documents \cup DOMAIN SeedDocuments
  BY <1>2, <1>6 DEF GetOrCreate
<1> QED BY <1>7, <1>8 DEF DocumentsFit, Rows, after

\* The revisions after a run: those of the data among them.
LEMMA RevisionsFitAfter ==
    ASSUME NEW tables, AccountsFit(tables), DocumentsFit(tables), RevisionsFit(tables),
           tables.creations \in Nat, CodesAreKnown
    PROVE  /\ RevisionsFit(Seeded(tables))
           /\ DOMAIN Seeded(tables).revisions = DOMAIN tables.revisions \cup SeedVersions
<1> DEFINE after == Seeded(tables)
           user == UserOf(after.accounts)
           Rows == [status : Decisions \cup {"PENDING"}, author : Known(after), auditor : Known(after)]
           rows == RevisionRows(user)
<1>1. /\ user = UserOf(SeededAccounts(tables))
      /\ \A key \in DOMAIN SeedUsers \cup {NoRow} : user[key] \in Known(after)
      /\ Known(tables) \subseteq Known(after)
  BY UsersOfARun
<1>2. after.revisions = GetOrCreate(tables.revisions, rows)
  BY <1>1, TablesOfARun DEF SeededRevisions
<1>3. DOMAIN after.documents = DOMAIN tables.documents \cup DOMAIN SeedDocuments
  BY DocumentsFitAfter
<1> HIDE DEF after, user
<1>4. tables.revisions \in [DOMAIN tables.revisions -> Rows]
  <2>1. [status : Decisions \cup {"PENDING"}, author : Known(tables), auditor : Known(tables)]
           \subseteq Rows
    BY <1>1
  <2> QED BY <2>1 DEF RevisionsFit
<1>5. \A r \in SeedVersions : /\ SeedRow(r).author \in DOMAIN SeedUsers \cup {NoRow}
                              /\ SeedRow(r).auditor \in DOMAIN SeedUsers \cup {NoRow}
                              /\ SeedRow(r).status \in Decisions \cup {"PENDING"}
  BY SeedAssumption DEF SeedAssumption, CodesAreKnown
<1>6. rows \in [DOMAIN rows -> Rows] /\ DOMAIN rows = SeedVersions
  BY <1>1, <1>5 DEF RevisionRows
<1>7. SeedVersions \subseteq (DOMAIN SeedDocuments) \X (Nat \ {0})
  <2>1. SUFFICES ASSUME NEW r \in SeedVersions
                 PROVE  r \in (DOMAIN SeedDocuments) \X (Nat \ {0})
    OBVIOUS
  <2>2. DOMAIN SeedRevisions \subseteq DOMAIN SeedDocuments
    BY DEF CodesAreKnown
  <2>3. r = <<r[1], r[2]>> /\ r[1] \in DOMAIN SeedDocuments /\ r[2] \in Nat \ {0}
    BY <2>2, VersionsOfTheData
  <2> QED BY <2>3
<1> HIDE DEF Rows, rows
<1>8. after.revisions \in [DOMAIN after.revisions -> Rows]
  BY <1>2, <1>4, <1>6 DEF GetOrCreate
<1>9. DOMAIN after.revisions = DOMAIN tables.revisions \cup SeedVersions
  BY <1>2, <1>6 DEF GetOrCreate
<1>10. DOMAIN after.revisions \subseteq (DOMAIN after.documents) \X (Nat \ {0})
  BY <1>3, <1>7, <1>9 DEF RevisionsFit
<1> QED BY <1>8, <1>9, <1>10 DEF RevisionsFit, Rows, after

\* The accesses after a run.
LEMMA AccessesFitAfter ==
    ASSUME NEW tables, AccountsFit(tables), DocumentsFit(tables), AccessesFit(tables),
           tables.creations \in Nat, CodesAreKnown
    PROVE  AccessesFit(Seeded(tables))
<1> DEFINE after == Seeded(tables)
           user == UserOf(after.accounts)
           Rows == [status : {"PENDING", "APPROVED", "REJECTED"}, approver : Known(after)]
           rows == [a \in {AccessKey(n, user) : n \in DOMAIN SeedAccesses} |->
              LET n == CHOOSE n \in DOMAIN SeedAccesses : a = AccessKey(n, user)
              IN  [status |-> SeedAccesses[n].status, approver |-> user[SeedAccesses[n].approver]]]
<1>1. /\ user = UserOf(SeededAccounts(tables))
      /\ \A key \in DOMAIN SeedUsers : user[key] \in DOMAIN after.accounts
      /\ \A key \in DOMAIN SeedUsers \cup {NoRow} : user[key] \in Known(after)
      /\ Known(tables) \subseteq Known(after)
  BY UsersOfARun
<1>2. after.accesses = GetOrCreate(tables.accesses, rows)
  BY <1>1, TablesOfARun DEF SeededAccesses
<1>3. /\ DOMAIN tables.accounts \subseteq DOMAIN after.accounts
      /\ DOMAIN after.documents = DOMAIN tables.documents \cup DOMAIN SeedDocuments
  BY AccountsFitAfter, DocumentsFitAfter
<1> HIDE DEF after, user
<1>4. tables.accesses \in [DOMAIN tables.accesses -> Rows]
  <2>1. [status : {"PENDING", "APPROVED", "REJECTED"}, approver : Known(tables)] \subseteq Rows
    BY <1>1
  <2> QED BY <2>1 DEF AccessesFit
<1>5. \A n \in DOMAIN SeedAccesses :
         /\ SeedAccesses[n].document \in DOMAIN SeedDocuments /\ SeedAccesses[n].user \in DOMAIN SeedUsers
         /\ SeedAccesses[n].approver \in DOMAIN SeedUsers \cup {NoRow}
         /\ SeedAccesses[n].status \in {"PENDING", "APPROVED", "REJECTED"}
  BY SeedAssumption DEF SeedAssumption, CodesAreKnown, Range
<1>6. DOMAIN rows \subseteq (DOMAIN SeedDocuments) \X (DOMAIN after.accounts)
  BY <1>1, <1>5 DEF AccessKey
<1>7. rows \in [DOMAIN rows -> Rows]
  <2>1. SUFFICES ASSUME NEW a \in DOMAIN rows
                 PROVE  rows[a] \in Rows
    OBVIOUS
  <2> DEFINE n == CHOOSE n \in DOMAIN SeedAccesses : a = AccessKey(n, user)
  <2>2. n \in DOMAIN SeedAccesses
    BY <2>1
  <2>3. rows[a] = [status |-> SeedAccesses[n].status, approver |-> user[SeedAccesses[n].approver]]
    BY <2>1
  <2> HIDE DEF n
  <2> QED BY <1>1, <1>5, <2>2, <2>3
<1> HIDE DEF Rows, rows
<1>8. after.accesses \in [DOMAIN after.accesses -> Rows]
  BY <1>2, <1>4, <1>7 DEF GetOrCreate
<1>9. DOMAIN after.accesses = DOMAIN tables.accesses \cup DOMAIN rows
  BY <1>2 DEF GetOrCreate
<1>10. DOMAIN after.accesses \subseteq (DOMAIN after.documents) \X (DOMAIN after.accounts)
  BY <1>3, <1>6, <1>9 DEF AccessesFit
<1> QED BY <1>8, <1>10 DEF AccessesFit, Rows, after

\* The files, the term and the trail after a run.
LEMMA RestFitsAfter ==
    ASSUME NEW tables, AccountsFit(tables), DocumentsFit(tables), RevisionsFit(tables),
           RestFits(tables), CodesAreKnown
    PROVE  RestFits(Seeded(tables))
<1> DEFINE after == Seeded(tables)
           user == UserOf(SeededAccounts(tables))
           documents == SeededDocuments(tables.documents, user)
<1>1. /\ after.files = SeededFiles(tables.files, documents)
      /\ after.clauses = GetOrCreate(tables.clauses, SeedClauses)
      /\ after.audit = SeededTrail(tables.audit,
                          EventsOf(SeededAccounts(tables), user, SeededRevisions(tables.revisions, user)))
      /\ after.excluded = tables.excluded
      /\ after.creations = Creations(tables)
      /\ after.inherited = tables.inherited
  BY TablesOfARun
<1>2. DOMAIN after.revisions = DOMAIN tables.revisions \cup SeedVersions
  BY RevisionsFitAfter DEF RestFits
<1> HIDE DEF after, user, documents
<1>3. \A file \in after.files : <<file[1], file[2]>> \in DOMAIN after.revisions
  <2>1. SUFFICES ASSUME NEW file \in after.files
                 PROVE  <<file[1], file[2]>> \in DOMAIN after.revisions
    OBVIOUS
  <2>2. CASE file \in tables.files
    BY <1>2, <2>2 DEF RestFits
  <2>3. CASE file \notin tables.files
    <3>1. PICK r \in SeedVersions : \E extension : file = <<r[1], r[2], extension>>
      BY <1>1, <2>1, <2>3 DEF SeededFiles
    <3>2. file[1] = r[1] /\ file[2] = r[2]
      BY <3>1
    <3> QED BY <1>2, <3>2, VersionsOfTheData
  <2> QED BY <2>2, <2>3
<1>4. after.clauses \in {None, SeedClauses}
  <2>1. SeedClauses = [c \in DOMAIN SeedClauses |-> SeedClauses[c]]
    BY SeedAssumption DEF SeedAssumption
  <2>2. GetOrCreate(None, SeedClauses) = SeedClauses
    BY <2>1 DEF GetOrCreate, None
  <2>3. GetOrCreate(SeedClauses, SeedClauses) = SeedClauses
    BY <2>1, NothingToCreate
  <2> QED BY <1>1, <2>2, <2>3 DEF RestFits
<1>5. after.audit \in Nat
  BY <1>1, EventsAreCounted DEF SeededTrail, RestFits
<1>6. after.excluded \subseteq DOMAIN SeedUsers
  BY <1>1 DEF RestFits
<1>7. after.creations \in Nat
  BY <1>1, NewAccounts DEF RestFits
<1>8. after.inherited \subseteq DOMAIN after.revisions
  BY <1>1, <1>2 DEF RestFits
<1> QED BY <1>3, <1>4, <1>5, <1>6, <1>7, <1>8 DEF RestFits, after

(* The inductive invariant. *)

\* A database without rows.
LEMMA SeedInitIsSound == SeedInit => SeedInv
<1> SUFFICES ASSUME SeedInit PROVE SeedInv
  OBVIOUS
<1>1. /\ db.accounts = None /\ db.managers = None /\ db.documents = None /\ db.revisions = None
      /\ db.files = {} /\ db.accesses = None /\ db.clauses = None /\ db.audit = 0
      /\ db.excluded = {} /\ db.creations = 0 /\ db.inherited = {}
      /\ DOMAIN db = {"accounts", "managers", "documents", "revisions", "files", "accesses",
                      "clauses", "audit", "excluded", "creations",
                      "inherited"}
  BY DEF SeedInit
<1>2. DOMAIN None = {} /\ \A Rows : None \in [{} -> Rows]
  BY DEF None
<1>3. IsFiniteSet(edits) /\ Cardinality(edits) <= MaxEdits
  BY FS_EmptySet, SeedAssumption DEF SeedAssumption, SeedInit
<1>4. AccountsFit(db) /\ ManagersFit(db) /\ DocumentsFit(db)
  BY <1>1, <1>2 DEF AccountsFit, ManagersFit, DocumentsFit
<1>5. RevisionsFit(db) /\ AccessesFit(db) /\ RestFits(db)
  BY <1>1, <1>2 DEF RevisionsFit, AccessesFit, RestFits
<1> QED BY <1>1, <1>2, <1>3, <1>4, <1>5 DEF SeedInv, SeedTypeOK, VersionsAreThere, RulesHonoured

\* The rows of a run fit.
LEMMA RunFits ==
    ASSUME SeedInv, MaySeed(db), db' = Seeded(db), UNCHANGED edits
    PROVE  SeedTypeOK'
<1>1. /\ AccountsFit(db) /\ ManagersFit(db) /\ DocumentsFit(db) /\ RevisionsFit(db)
      /\ AccessesFit(db) /\ RestFits(db) /\ db.creations \in Nat /\ CodesAreKnown
  BY DEF SeedInv, SeedTypeOK, RestFits, MaySeed
<1>2. AccountsFit(db') /\ ManagersFit(db')
  BY <1>1, AccountsFitAfter, ManagersFitAfter
<1>3. DocumentsFit(db') /\ RevisionsFit(db')
  BY <1>1, DocumentsFitAfter, RevisionsFitAfter
<1>4. AccessesFit(db') /\ RestFits(db')
  BY <1>1, AccessesFitAfter, RestFitsAfter
<1>5. DOMAIN db' = {"accounts", "managers", "documents", "revisions", "files", "accesses",
                    "clauses", "audit", "excluded", "creations",
                      "inherited"}
  BY TablesOfARun
<1> QED BY <1>2, <1>3, <1>4, <1>5 DEF SeedInv, SeedTypeOK

\* The revisions of the data obey the rules; those that were there, a run leaves alone.
LEMMA RunHonoursRules ==
    ASSUME SeedInv, MaySeed(db), db' = Seeded(db), UNCHANGED edits
    PROVE  VersionsAreThere' /\ RulesHonoured'
<1> DEFINE user == UserOf(SeededAccounts(db))
<1>1. /\ AccountsFit(db) /\ DocumentsFit(db) /\ RevisionsFit(db) /\ db.creations \in Nat
      /\ CodesAreKnown /\ AuditorsAreOthers(user)
  BY DEF SeedInv, SeedTypeOK, RestFits, MaySeed
<1>2. DOMAIN db'.revisions = DOMAIN db.revisions \cup SeedVersions
  BY <1>1, RevisionsFitAfter
<1>3. VersionsAreThere'
  BY <1>2 DEF VersionsAreThere
<1>4. db'.revisions = GetOrCreate(db.revisions, RevisionRows(user))
  BY TablesOfARun DEF SeededRevisions
<1>5. DOMAIN RevisionRows(user) = SeedVersions
  BY DEF RevisionRows
<1>6. CASE SeedVersions \subseteq DOMAIN db.revisions
  <2>1. db.revisions = [r \in DOMAIN db.revisions |-> db.revisions[r]]
    BY <1>1 DEF RevisionsFit
  <2>2. db'.revisions = db.revisions
    BY <1>4, <1>5, <1>6, <2>1, NothingToCreate
  <2>3. db'.inherited = db.inherited
    BY TablesOfARun
  <2> QED BY <1>3, <2>2, <2>3 DEF SeedInv, RulesHonoured
<1>7. CASE DOMAIN db.revisions = {}
  <2>1. Missing(SeededAccounts(db)) = {}
    BY <1>1, NobodyIsMissing
  <2>2. \A key \in DOMAIN SeedUsers \cup {NoRow} : key # NoRow => user[key] # NoRow
    <3>1. AccountsFit(db')
      BY <1>1, AccountsFitAfter
    <3>2. db'.accounts = SeededAccounts(db)
      BY TablesOfARun
    <3>3. NoRow \notin DOMAIN SeededAccounts(db)
      BY <3>1, <3>2, SeedAssumption DEF SeedAssumption, AccountsFit
    <3> QED BY <2>1, <3>3, UsersAreAccounts
  <2>3. ASSUME NEW r \in SeedVersions
        PROVE  /\ db'.revisions[r].status = SeedRow(r).status
               /\ db'.revisions[r].author = user[SeedRow(r).author]
               /\ db'.revisions[r].auditor = user[SeedRow(r).auditor]
    <3>1. db'.revisions[r] = RevisionRows(user)[r]
      BY <1>4, <1>5, <1>7, <2>3 DEF GetOrCreate
    <3> QED BY <3>1 DEF RevisionRows
  <2> HIDE DEF user
  <2>4. user[NoRow] = NoRow
    BY <2>1, UsersAreAccounts DEF user
  <2>5. ASSUME NEW r \in SeedVersions
        PROVE  /\ r[2] = 1 \/ <<r[1], r[2] - 1>> \in SeedVersions
               /\ SeedRow(r).status # "PENDING" => user[SeedRow(r).auditor] # NoRow
               /\ user[SeedRow(r).author] # user[SeedRow(r).auditor]
    <3>1. /\ SeedRow(r).auditor \in DOMAIN SeedUsers \cup {NoRow}
          /\ SeedRow(r).author \in DOMAIN SeedUsers
          /\ SeedRow(r).author # NoRow
      BY <1>1, SeedAssumption DEF SeedAssumption, CodesAreKnown
    <3>2. SeedRow(r).status # "PENDING" => SeedRow(r).auditor # NoRow
      BY SeedAssumption DEF SeedAssumption
    <3>3. user[SeedRow(r).author] # user[SeedRow(r).auditor]
      BY <1>1, <2>2, <2>4, <3>1 DEF AuditorsAreOthers
    <3> QED BY <2>2, <3>1, <3>2, <3>3, VersionsOfTheData
  <2>6. \A r, s \in SeedVersions :
           r[1] = s[1] /\ SeedRow(r).status = "APPROVED" /\ SeedRow(s).status = "APPROVED" => r = s
    BY SeedAssumption DEF SeedAssumption
  <2>7. DOMAIN db'.revisions = SeedVersions
    BY <1>2, <1>7
  <2>8. \A r \in DOMAIN db'.revisions :
           /\ r[2] = 1 \/ <<r[1], r[2] - 1>> \in DOMAIN db'.revisions
           /\ db'.revisions[r].status # "PENDING" => db'.revisions[r].auditor # NoRow
           /\ db'.revisions[r].author # db'.revisions[r].auditor
    <3>1. SUFFICES ASSUME NEW r \in SeedVersions
                   PROVE  /\ r[2] = 1 \/ <<r[1], r[2] - 1>> \in SeedVersions
                          /\ db'.revisions[r].status # "PENDING" => db'.revisions[r].auditor # NoRow
                          /\ db'.revisions[r].author # db'.revisions[r].auditor
      BY <2>7
    <3>2. /\ db'.revisions[r].status = SeedRow(r).status
          /\ db'.revisions[r].author = user[SeedRow(r).author]
          /\ db'.revisions[r].auditor = user[SeedRow(r).auditor]
      BY <2>3
    <3>3. r[2] = 1 \/ <<r[1], r[2] - 1>> \in SeedVersions
      BY <2>5
    <3>4. db'.revisions[r].status # "PENDING" => db'.revisions[r].auditor # NoRow
      BY <2>5, <3>2
    <3> QED BY <2>5, <3>2, <3>3, <3>4
  <2>9. \A r, s \in DOMAIN db'.revisions :
           r[1] = s[1] /\ r # s => \/ db'.revisions[r].status # "APPROVED"
                                  \/ db'.revisions[s].status # "APPROVED"
    BY <2>3, <2>6, <2>7
  <2> QED BY <1>3, <2>8, <2>9 DEF RulesHonoured
<1> QED BY <1>3, <1>6, <1>7 DEF SeedInv, VersionsAreThere

\* A run of the command.
LEMMA RunIsSound == ASSUME SeedInv, Seed PROVE SeedInv'
<1>1. CASE MaySeed(db)
  <2>1. db' = Seeded(db) /\ UNCHANGED edits
    BY <1>1 DEF Seed
  <2> QED BY <1>1, <2>1, RunFits, RunHonoursRules DEF SeedInv
<1>2. CASE ~MaySeed(db)
  <2>1. db' = db /\ edits' = edits
    BY <1>2 DEF Seed
  <2>2. SeedTypeOK'
    BY <2>1 DEF SeedInv, SeedTypeOK, AccountsFit, ManagersFit, DocumentsFit, RevisionsFit,
                AccessesFit, RestFits, Known
  <2>3. VersionsAreThere' /\ RulesHonoured'
    BY <2>1 DEF SeedInv, VersionsAreThere, RulesHonoured
  <2> QED BY <2>2, <2>3 DEF SeedInv
<1> QED BY <1>1, <1>2

\* The tables that are not among those named are left alone.
Only(changed) ==
    DOMAIN db' = DOMAIN db /\ \A table \in DOMAIN db \ changed : db'[table] = db[table]

\* The changes are counted.
LEMMA EditIsCounted ==
    ASSUME SeedInv, NEW what, NEW of, Edit(what, of)
    PROVE  IsFiniteSet(edits') /\ Cardinality(edits') <= MaxEdits
<1>1. /\ IsFiniteSet(edits) /\ Cardinality(edits) < MaxEdits /\ MaxEdits \in Nat
      /\ edits' = edits \cup {<<what, of>>} /\ <<what, of>> \notin edits
  BY SeedAssumption DEF SeedAssumption, SeedInv, SeedTypeOK, Edit
<1>2. /\ IsFiniteSet(edits') /\ Cardinality(edits') = Cardinality(edits) + 1
      /\ Cardinality(edits) \in Nat
  BY <1>1, FS_AddElement, FS_CardinalityType
<1> QED BY <1>1, <1>2

\* A change of the accounts that keeps them all.
LEMMA AccountChanged ==
    ASSUME SeedInv, NEW what, NEW of, Edit(what, of), Only({"accounts"}),
           AccountsFit(db'), DOMAIN db'.accounts = DOMAIN db.accounts
    PROVE  SeedInv'
<1>1. /\ db'.managers = db.managers /\ db'.documents = db.documents
      /\ db'.revisions = db.revisions /\ db'.files = db.files /\ db'.accesses = db.accesses
      /\ db'.clauses = db.clauses /\ db'.audit = db.audit /\ db'.excluded = db.excluded
      /\ db'.creations = db.creations /\ db'.inherited = db.inherited /\ DOMAIN db' = DOMAIN db
  BY DEF Only, SeedInv, SeedTypeOK
<1>2. ManagersFit(db') /\ DocumentsFit(db') /\ RevisionsFit(db') /\ AccessesFit(db') /\ RestFits(db')
  BY <1>1 DEF SeedInv, SeedTypeOK, ManagersFit, DocumentsFit, RevisionsFit, AccessesFit, RestFits, Known
<1>3. VersionsAreThere' /\ RulesHonoured'
  BY <1>1, EditIsCounted DEF SeedInv, VersionsAreThere, RulesHonoured
<1> QED BY <1>1, <1>2, <1>3, EditIsCounted DEF SeedInv, SeedTypeOK

\* A change of the documents that keeps them all.
LEMMA DocumentChanged ==
    ASSUME SeedInv, NEW what, NEW of, Edit(what, of), Only({"documents"}),
           DocumentsFit(db'), DOMAIN db'.documents = DOMAIN db.documents
    PROVE  SeedInv'
<1>1. /\ db'.managers = db.managers /\ db'.accounts = db.accounts
      /\ db'.revisions = db.revisions /\ db'.files = db.files /\ db'.accesses = db.accesses
      /\ db'.clauses = db.clauses /\ db'.audit = db.audit /\ db'.excluded = db.excluded
      /\ db'.creations = db.creations /\ db'.inherited = db.inherited /\ DOMAIN db' = DOMAIN db
  BY DEF Only, SeedInv, SeedTypeOK
<1>2. ManagersFit(db') /\ AccountsFit(db') /\ RevisionsFit(db') /\ AccessesFit(db') /\ RestFits(db')
  BY <1>1 DEF SeedInv, SeedTypeOK, ManagersFit, AccountsFit, RevisionsFit, AccessesFit, RestFits, Known
<1>3. VersionsAreThere' /\ RulesHonoured'
  BY <1>1, EditIsCounted DEF SeedInv, VersionsAreThere, RulesHonoured
<1> QED BY <1>1, <1>2, <1>3, EditIsCounted DEF SeedInv, SeedTypeOK

\* A change of the revisions that keeps them all, and the rules.
LEMMA RevisionChanged ==
    ASSUME SeedInv, NEW what, NEW of, Edit(what, of), Only({"revisions"}),
           RevisionsFit(db'), DOMAIN db.revisions \subseteq DOMAIN db'.revisions,
           VersionsAreThere', RulesHonoured'
    PROVE  SeedInv'
<1>1. /\ db'.managers = db.managers /\ db'.accounts = db.accounts
      /\ db'.documents = db.documents /\ db'.files = db.files /\ db'.accesses = db.accesses
      /\ db'.clauses = db.clauses /\ db'.audit = db.audit /\ db'.excluded = db.excluded
      /\ db'.creations = db.creations /\ db'.inherited = db.inherited /\ DOMAIN db' = DOMAIN db
  BY DEF Only, SeedInv, SeedTypeOK
<1>2. ManagersFit(db') /\ AccountsFit(db') /\ DocumentsFit(db') /\ AccessesFit(db') /\ RestFits(db')
  BY <1>1 DEF SeedInv, SeedTypeOK, ManagersFit, AccountsFit, DocumentsFit, AccessesFit, RestFits, Known
<1> QED BY <1>1, <1>2, EditIsCounted DEF SeedInv, SeedTypeOK

LEMMA RenameIsSound == ASSUME SeedInv, NEW key, RenameAccount(key) PROVE SeedInv'
<1>1. PICK id \in OfMail(db.accounts, key) :
         Edit("rename", key) /\ db' = [db EXCEPT !.accounts[id].mail = "renamed"]
  BY DEF RenameAccount
<1>2. Only({"accounts"}) /\ db'.accounts = [db.accounts EXCEPT ![id].mail = "renamed"]
  BY <1>1 DEF Only, SeedInv, SeedTypeOK
<1>3. AccountsFit(db') /\ DOMAIN db'.accounts = DOMAIN db.accounts
  <2>1. db'.creations = db.creations
    BY <1>2 DEF Only, SeedInv, SeedTypeOK
  <2> DEFINE Rows == [mail : DOMAIN SeedUsers \cup {"renamed", "anonymized"},
                      area : DOMAIN SeedManagers, active : BOOLEAN]
  <2>2. /\ db.accounts \in [DOMAIN db.accounts -> Rows] /\ id \in DOMAIN db.accounts
        /\ DOMAIN db.accounts \subseteq (DOMAIN SeedUsers) \X (1..db.creations)
    BY DEF OfMail, AccountsFit, SeedInv, SeedTypeOK
  <2>3. [db.accounts[id] EXCEPT !.mail = "renamed"] \in Rows
    BY <2>2
  <2> HIDE DEF Rows
  <2>4. db'.accounts \in [DOMAIN db.accounts -> Rows]
    BY <1>2, <2>2, <2>3
  <2> QED BY <2>1, <2>2, <2>4 DEF AccountsFit, Rows
<1>4. Edit("rename", key)
  BY <1>1
<1> QED BY <1>2, <1>3, <1>4, AccountChanged

LEMMA MoveIsSound ==
    ASSUME SeedInv, NEW key, NEW area \in UsedAreas, MoveAccount(key, area)
    PROVE  SeedInv'
<1>1. PICK id \in OfMail(db.accounts, key) :
         Edit("move", key) /\ db' = [db EXCEPT !.accounts[id].area = area]
  BY DEF MoveAccount
<1>2. Only({"accounts"}) /\ db'.accounts = [db.accounts EXCEPT ![id].area = area]
  BY <1>1 DEF Only, SeedInv, SeedTypeOK
<1>3. AccountsFit(db') /\ DOMAIN db'.accounts = DOMAIN db.accounts
  <2>1. db'.creations = db.creations /\ area \in DOMAIN SeedManagers
    BY <1>2, SeedAssumption DEF SeedAssumption, Only, SeedInv, SeedTypeOK
  <2> DEFINE Rows == [mail : DOMAIN SeedUsers \cup {"renamed", "anonymized"},
                      area : DOMAIN SeedManagers, active : BOOLEAN]
  <2>2. /\ db.accounts \in [DOMAIN db.accounts -> Rows] /\ id \in DOMAIN db.accounts
        /\ DOMAIN db.accounts \subseteq (DOMAIN SeedUsers) \X (1..db.creations)
    BY DEF OfMail, AccountsFit, SeedInv, SeedTypeOK
  <2>3. [db.accounts[id] EXCEPT !.area = area] \in Rows
    BY <2>1, <2>2
  <2> HIDE DEF Rows
  <2>4. db'.accounts \in [DOMAIN db.accounts -> Rows]
    BY <1>2, <2>2, <2>3
  <2> QED BY <2>1, <2>2, <2>4 DEF AccountsFit, Rows
<1>4. Edit("move", key)
  BY <1>1
<1> QED BY <1>2, <1>3, <1>4, AccountChanged

LEMMA ResponsibleIsSound ==
    ASSUME SeedInv, NEW d, NEW key, ChangeResponsible(d, key)
    PROVE  SeedInv'
<1>1. PICK id \in OfMail(db.accounts, key) :
         /\ d \in DOMAIN db.documents /\ Edit("responsible", d)
         /\ db' = [db EXCEPT !.documents[d].responsible = id]
  BY DEF ChangeResponsible
<1>2. Only({"documents"}) /\ db'.documents = [db.documents EXCEPT ![d].responsible = id]
  BY <1>1 DEF Only, SeedInv, SeedTypeOK
<1>3. DocumentsFit(db') /\ DOMAIN db'.documents = DOMAIN db.documents
  <2>1. db'.accounts = db.accounts /\ id \in DOMAIN db.accounts
    BY <1>2 DEF Only, SeedInv, SeedTypeOK, OfMail
  <2> QED BY <1>1, <1>2, <2>1 DEF DocumentsFit, SeedInv, SeedTypeOK
<1>4. Edit("responsible", d)
  BY <1>1
<1> QED BY <1>2, <1>3, <1>4, DocumentChanged

LEMMA TypeIsSound ==
    ASSUME SeedInv, NEW d, NEW type \in UsedTypes, ChangeType(d, type)
    PROVE  SeedInv'
<1>1. /\ d \in DOMAIN db.documents /\ Edit("type", d)
      /\ db' = [db EXCEPT !.documents[d].type = type]
  BY DEF ChangeType
<1>2. Only({"documents"}) /\ db'.documents = [db.documents EXCEPT ![d].type = type]
  BY <1>1 DEF Only, SeedInv, SeedTypeOK
<1>3. DocumentsFit(db') /\ DOMAIN db'.documents = DOMAIN db.documents
  <2>1. db'.accounts = db.accounts /\ type \in SeedTypes
    BY <1>2, SeedAssumption DEF SeedAssumption, Only, SeedInv, SeedTypeOK
  <2> QED BY <1>1, <1>2, <2>1 DEF DocumentsFit, SeedInv, SeedTypeOK
<1>4. Edit("type", d)
  BY <1>1
<1> QED BY <1>2, <1>3, <1>4, DocumentChanged

\* A revision has an author and a status of the type, and its name is a pair.
LEMMA RevisionRow ==
    ASSUME SeedInv, NEW r \in DOMAIN db.revisions
    PROVE  /\ r = <<r[1], r[2]>> /\ r[1] \in DOMAIN db.documents /\ r[2] \in Nat \ {0}
           /\ db.revisions[r] \in [status : Decisions \cup {"PENDING"}, author : Known(db),
                                   auditor : Known(db)]
           /\ db.documents[r[1]].responsible \in DOMAIN db.accounts
           /\ NoRow \notin DOMAIN db.accounts
<1>1. RevisionsFit(db) /\ DocumentsFit(db) /\ AccountsFit(db)
  BY DEF SeedInv, SeedTypeOK
<1>2. /\ r = <<r[1], r[2]>> /\ r[1] \in DOMAIN db.documents /\ r[2] \in Nat \ {0}
      /\ db.revisions[r] \in [status : Decisions \cup {"PENDING"}, author : Known(db),
                              auditor : Known(db)]
  BY <1>1 DEF RevisionsFit
<1>3. NoRow \notin DOMAIN db.accounts
  BY <1>1, SeedAssumption DEF SeedAssumption, AccountsFit
<1> QED BY <1>1, <1>2, <1>3 DEF DocumentsFit

LEMMA SubmissionIsSound == ASSUME SeedInv, NEW d, SubmitRevision(d) PROVE SeedInv'
<1>1. PICK r \in DOMAIN db.revisions :
         /\ r[1] = d /\ <<r[1], r[2] + 1>> \notin DOMAIN db.revisions /\ Edit("submit", r)
         /\ db' = [db EXCEPT !.revisions = GetOrCreate(@, [next \in {<<d, r[2] + 1>>} |->
                [status |-> "PENDING", author |-> db.documents[d].responsible, auditor |-> NoRow]])]
  BY DEF SubmitRevision, Newest
<1> DEFINE new == <<d, r[2] + 1>>
           row == [status |-> "PENDING", author |-> db.documents[d].responsible, auditor |-> NoRow]
           Rows == [status : Decisions \cup {"PENDING"}, author : Known(db), auditor : Known(db)]
<1>2. /\ Only({"revisions"})
      /\ db'.revisions = GetOrCreate(db.revisions, [next \in {new} |-> row])
  BY <1>1 DEF Only, SeedInv, SeedTypeOK
<1>3. /\ db'.documents = db.documents /\ db'.accounts = db.accounts
      /\ db'.inherited = db.inherited
  BY <1>2 DEF Only, SeedInv, SeedTypeOK
<1>4. /\ new \notin DOMAIN db.revisions /\ r = <<d, r[2]>> /\ r[2] \in Nat
      /\ d \in DOMAIN db.documents /\ row \in Rows /\ row.author # NoRow
  BY <1>1, RevisionRow DEF Known
<1>5. new[1] = d /\ new[2] = r[2] + 1 /\ new \in (DOMAIN db.documents) \X (Nat \ {0})
  BY <1>4
<1> HIDE DEF row
<1>6. /\ DOMAIN db'.revisions = DOMAIN db.revisions \cup {new}
      /\ db'.revisions[new] = row
      /\ \A s \in DOMAIN db.revisions : db'.revisions[s] = db.revisions[s]
      /\ db'.revisions = [s \in DOMAIN db'.revisions |-> db'.revisions[s]]
  BY <1>2, <1>4 DEF GetOrCreate
<1>7. RevisionsFit(db')
  <2>1. DOMAIN db.revisions \subseteq (DOMAIN db.documents) \X (Nat \ {0})
        /\ db.revisions \in [DOMAIN db.revisions -> Rows]
    BY DEF SeedInv, SeedTypeOK, RevisionsFit
  <2> HIDE DEF Rows, new
  <2>2. \A s \in DOMAIN db'.revisions : db'.revisions[s] \in Rows
    BY <1>4, <1>6, <2>1
  <2>3. DOMAIN db'.revisions \subseteq (DOMAIN db.documents) \X (Nat \ {0})
    BY <1>5, <1>6, <2>1
  <2>4. db'.revisions \in [DOMAIN db'.revisions -> Rows]
    BY <1>6, <2>2
  <2> QED BY <1>3, <2>3, <2>4 DEF RevisionsFit, Rows, Known
<1>8. VersionsAreThere'
  BY <1>1, <1>6 DEF VersionsAreThere, SeedInv
<1>9. RulesHonoured'
  <2>1. row.status = "PENDING" /\ row.auditor = NoRow /\ row.author # row.auditor
    BY <1>4 DEF row
  <2>2. <<new[1], new[2] - 1>> \in DOMAIN db.revisions
    BY <1>4, <1>5
  <2> HIDE DEF new
  <2>4. \A s \in DOMAIN db'.revisions :
           /\ s[2] = 1 \/ <<s[1], s[2] - 1>> \in DOMAIN db'.revisions
           /\ db'.revisions[s].status # "PENDING" => db'.revisions[s].auditor # NoRow
           /\ db'.revisions[s].author # db'.revisions[s].auditor \/ s \in db'.inherited
    BY <1>3, <1>6, <2>1, <2>2 DEF SeedInv, RulesHonoured
  <2>5. \A s, t \in DOMAIN db'.revisions :
           s[1] = t[1] /\ s # t => \/ "APPROVED" \notin {db'.revisions[s].status}
                                  \/ "APPROVED" \notin {db'.revisions[t].status}
    BY <1>6, <2>1 DEF SeedInv, RulesHonoured
  <2> QED BY <2>4, <2>5 DEF RulesHonoured
<1>10. Edit("submit", r) /\ DOMAIN db.revisions \subseteq DOMAIN db'.revisions
  BY <1>1, <1>6
<1> QED BY <1>2, <1>7, <1>8, <1>9, <1>10, RevisionChanged

\* The one who decides is an account, and not the author.
LEMMA ApprovalIsSound == ASSUME SeedInv, NEW d, ApproveRevision(d) PROVE SeedInv'
<1>1. PICK r \in DOMAIN db.revisions, m \in DOMAIN db.accounts :
         /\ Edit("decide", r) /\ m # db.revisions[r].author
         /\ db' = [db EXCEPT !.revisions = ApprovedIn(@, r, m)]
  BY DEF ApproveRevision, Reviewers, MayDecide
<1> DEFINE Rows == [status : Decisions \cup {"PENDING"}, author : Known(db), auditor : Known(db)]
<1>2. Only({"revisions"}) /\ db'.revisions = ApprovedIn(db.revisions, r, m)
  BY <1>1 DEF Only, SeedInv, SeedTypeOK
<1>3. /\ db'.documents = db.documents /\ db'.accounts = db.accounts
      /\ db'.inherited = db.inherited
  BY <1>2 DEF Only, SeedInv, SeedTypeOK
<1>4. m \in Known(db) /\ m # NoRow
  BY RevisionRow DEF Known
<1>5. /\ DOMAIN db'.revisions = DOMAIN db.revisions
      /\ db'.revisions = [s \in DOMAIN db'.revisions |-> db'.revisions[s]]
  BY <1>2 DEF ApprovedIn
<1>6. ASSUME NEW s \in DOMAIN db.revisions
      PROVE  /\ db'.revisions[s] \in Rows
             /\ db'.revisions[s].author = db.revisions[s].author
             /\ s = r => db'.revisions[s].auditor = m
             /\ s # r => db'.revisions[s].auditor = db.revisions[s].auditor
             /\ db'.revisions[s].status = "PENDING" => s # r /\ db.revisions[s].status = "PENDING"
             /\ s # r /\ db.revisions[s].status = "PENDING" => db'.revisions[s].status = "PENDING"
             /\ db'.revisions[s].status = "APPROVED" =>
                   \/ s = r
                   \/ s[1] # r[1] /\ db.revisions[s].status = "APPROVED"
  <2>1. db.revisions[s] \in Rows
    BY RevisionRow
  <2>2. CASE s = r
    <3>1. db'.revisions[s] = [db.revisions[s] EXCEPT !.status = "APPROVED", !.auditor = m]
      BY <1>2, <2>2 DEF ApprovedIn
    <3> QED BY <1>4, <2>1, <2>2, <3>1 DEF Decisions
  <2>3. CASE s # r /\ s[1] = r[1] /\ db.revisions[s].status = "APPROVED"
    <3>1. db'.revisions[s] = [db.revisions[s] EXCEPT !.status = "OBSOLETE"]
      BY <1>2, <2>3 DEF ApprovedIn
    <3> QED BY <2>1, <2>3, <3>1 DEF Decisions
  <2>4. CASE s # r /\ ~(s[1] = r[1] /\ db.revisions[s].status = "APPROVED")
    <3>1. db'.revisions[s] = db.revisions[s]
      BY <1>2, <2>4 DEF ApprovedIn
    <3> QED BY <2>1, <2>4, <3>1
  <2> QED BY <2>2, <2>3, <2>4
<1>7. RevisionsFit(db')
  <2>1. DOMAIN db.revisions \subseteq (DOMAIN db.documents) \X (Nat \ {0})
    BY DEF SeedInv, SeedTypeOK, RevisionsFit
  <2>2. \A s \in DOMAIN db'.revisions : db'.revisions[s] \in Rows
    BY <1>5, <1>6
  <2> HIDE DEF Rows
  <2>3. db'.revisions \in [DOMAIN db'.revisions -> Rows]
    BY <1>5, <2>2
  <2> QED BY <1>3, <1>5, <2>1, <2>3 DEF RevisionsFit, Rows, Known
<1>8. VersionsAreThere'
  BY <1>5 DEF VersionsAreThere, SeedInv
<1>9. RulesHonoured'
  <2>2. ASSUME NEW s \in DOMAIN db'.revisions
        PROVE  /\ s[2] = 1 \/ <<s[1], s[2] - 1>> \in DOMAIN db'.revisions
               /\ db'.revisions[s].status # "PENDING" => db'.revisions[s].auditor # NoRow
               /\ db'.revisions[s].author # db'.revisions[s].auditor \/ s \in db'.inherited
    <3>1. /\ s[2] = 1 \/ <<s[1], s[2] - 1>> \in DOMAIN db.revisions
          /\ db.revisions[s].status # "PENDING" => db.revisions[s].auditor # NoRow
          /\ db.revisions[s].author # db.revisions[s].auditor \/ s \in db.inherited
      BY <1>5, <2>2 DEF SeedInv, RulesHonoured
    <3>2. CASE s = r
      BY <1>1, <1>4, <1>5, <1>6, <3>1, <3>2
    <3>3. CASE s # r
      BY <1>3, <1>5, <1>6, <3>1, <3>3
    <3> QED BY <3>2, <3>3
  <2>3. ASSUME NEW s \in DOMAIN db'.revisions, NEW t \in DOMAIN db'.revisions,
               s[1] = t[1], s # t
        PROVE  \/ db'.revisions[s].status # "APPROVED"
               \/ db'.revisions[t].status # "APPROVED"
    <3>1. db.revisions[s].status # "APPROVED" \/ db.revisions[t].status # "APPROVED"
      BY <1>5, <2>3 DEF SeedInv, RulesHonoured
    <3> QED BY <1>5, <1>6, <2>3, <3>1
  <2> QED BY <2>2, <2>3 DEF RulesHonoured
<1>10. Edit("decide", r) /\ DOMAIN db.revisions \subseteq DOMAIN db'.revisions
  BY <1>1, <1>5
<1> QED BY <1>2, <1>7, <1>8, <1>9, <1>10, RevisionChanged

LEMMA RejectionIsSound == ASSUME SeedInv, NEW d, RejectRevision(d) PROVE SeedInv'
<1>1. PICK r \in DOMAIN db.revisions, m \in DOMAIN db.accounts :
         /\ Edit("decide", r) /\ m # db.revisions[r].author
         /\ db' = [db EXCEPT !.revisions[r].status = "REJECTED", !.revisions[r].auditor = m]
  BY DEF RejectRevision, Reviewers, MayDecide
<1> DEFINE Rows == [status : Decisions \cup {"PENDING"}, author : Known(db), auditor : Known(db)]
           row == [[db.revisions[r] EXCEPT !.status = "REJECTED"] EXCEPT !.auditor = m]
<1>2. db.revisions \in [DOMAIN db.revisions -> Rows] /\ db.revisions[r] \in Rows
  BY DEF SeedInv, SeedTypeOK, RevisionsFit
<1>3. Only({"revisions"}) /\ db'.revisions = [db.revisions EXCEPT ![r] = row]
  BY <1>1 DEF Only, SeedInv, SeedTypeOK
<1>4. /\ db'.documents = db.documents /\ db'.accounts = db.accounts
      /\ db'.inherited = db.inherited
  BY <1>3 DEF Only, SeedInv, SeedTypeOK
<1>5. m \in Known(db) /\ m # NoRow
  BY RevisionRow DEF Known
<1>6. /\ row \in Rows /\ row.status = "REJECTED" /\ row.auditor = m
      /\ row.author = db.revisions[r].author
  BY <1>2, <1>5 DEF Decisions
<1> HIDE DEF row
<1>7. /\ DOMAIN db'.revisions = DOMAIN db.revisions /\ db'.revisions[r] = row
      /\ \A s \in DOMAIN db.revisions : s # r => db'.revisions[s] = db.revisions[s]
      /\ db'.revisions = [s \in DOMAIN db.revisions |-> db'.revisions[s]]
  BY <1>2, <1>3
<1>8. RevisionsFit(db')
  <2>1. DOMAIN db.revisions \subseteq (DOMAIN db.documents) \X (Nat \ {0})
    BY DEF SeedInv, SeedTypeOK, RevisionsFit
  <2> HIDE DEF Rows
  <2>2. \A s \in DOMAIN db.revisions : db'.revisions[s] \in Rows
    BY <1>2, <1>6, <1>7
  <2>3. db'.revisions \in [DOMAIN db'.revisions -> Rows]
    BY <1>7, <2>2
  <2> QED BY <1>4, <1>7, <2>1, <2>3 DEF RevisionsFit, Rows, Known
<1>9. VersionsAreThere'
  BY <1>7 DEF VersionsAreThere, SeedInv
<1>10. RulesHonoured'
  <2>1. ASSUME NEW s \in DOMAIN db.revisions
        PROVE  /\ s[2] = 1 \/ <<s[1], s[2] - 1>> \in DOMAIN db.revisions
               /\ db'.revisions[s].status # "PENDING" => db'.revisions[s].auditor # NoRow
               /\ db'.revisions[s].author # db'.revisions[s].auditor \/ s \in db.inherited
    <3>1. CASE s = r
      BY <1>1, <1>5, <1>6, <1>7, <3>1 DEF SeedInv, RulesHonoured
    <3>2. CASE s # r
      BY <1>7, <3>2 DEF SeedInv, RulesHonoured
    <3> QED BY <3>1, <3>2
  <2>2. ASSUME NEW s \in DOMAIN db.revisions, NEW t \in DOMAIN db.revisions, s[1] = t[1], s # t
        PROVE  \/ db'.revisions[s].status # "APPROVED"
               \/ db'.revisions[t].status # "APPROVED"
    <3>1. db.revisions[s].status # "APPROVED" \/ db.revisions[t].status # "APPROVED"
      BY <2>2 DEF SeedInv, RulesHonoured
    <3> QED BY <1>6, <1>7, <3>1
  <2> QED BY <1>4, <1>7, <2>1, <2>2 DEF RulesHonoured
<1>11. Edit("decide", r) /\ DOMAIN db.revisions \subseteq DOMAIN db'.revisions
  BY <1>1, <1>7
<1> QED BY <1>3, <1>8, <1>9, <1>10, <1>11, RevisionChanged

\* What stands in the place of an account is another one.
LEMMA Replacement ==
    ASSUME SeedInv, NEW id \in DOMAIN db.accounts, NEW other \in Substitutes(id)
    PROVE  /\ other \in DOMAIN db.accounts \ {id}
           /\ \A x \in DOMAIN db.accounts : InPlaceOf(id, other)[x] \in DOMAIN db.accounts \ {id}
           /\ \A x \in Known(db) : InPlaceOf(id, other)[x] \in Known(db) \ {id}
           /\ InPlaceOf(id, other)[NoRow] = NoRow
           /\ \A x \in Known(db) : x # NoRow => InPlaceOf(id, other)[x] # NoRow
<1>1. other \in DOMAIN db.accounts \ {id}
  BY DEF Substitutes
<1>2. NoRow \notin DOMAIN db.accounts
  BY SeedAssumption DEF SeedAssumption, SeedInv, SeedTypeOK, AccountsFit
<1>3. \A x \in Known(db) : InPlaceOf(id, other)[x] = IF x = id THEN other ELSE x
  BY DEF InPlaceOf, Known
<1> QED BY <1>1, <1>2, <1>3 DEF Known

\* Its areas and documents are those of the other.
LEMMA HandOverFits ==
    ASSUME SeedInv, NEW id \in DOMAIN db.accounts, NEW other \in Substitutes(id)
    PROVE  /\ DOMAIN ManagersPut(InPlaceOf(id, other)) = DOMAIN db.managers
           /\ ManagersPut(InPlaceOf(id, other)) \in [DOMAIN db.managers -> (Known(db) \ {id})]
           /\ DOMAIN DocumentsPut(InPlaceOf(id, other)) = DOMAIN db.documents
           /\ DocumentsPut(InPlaceOf(id, other)) \in [DOMAIN db.documents ->
                    [responsible : DOMAIN db.accounts \ {id}, type : SeedTypes]]
<1> DEFINE put == InPlaceOf(id, other)
           documents == DocumentsPut(put)
<1>1. /\ db.managers \in [DOMAIN db.managers -> Known(db)]
      /\ db.documents \in [DOMAIN db.documents -> [responsible : DOMAIN db.accounts, type : SeedTypes]]
  BY DEF SeedInv, SeedTypeOK, ManagersFit, DocumentsFit
<1>2. /\ \A x \in DOMAIN db.accounts : put[x] \in DOMAIN db.accounts \ {id}
      /\ \A x \in Known(db) : put[x] \in Known(db) \ {id}
  BY Replacement
<1> HIDE DEF put
<1>3. /\ DOMAIN ManagersPut(put) = DOMAIN db.managers
      /\ ManagersPut(put) \in [DOMAIN db.managers -> (Known(db) \ {id})]
  BY <1>1, <1>2 DEF ManagersPut
<1>4. \A d \in DOMAIN db.documents :
         documents[d] \in [responsible : DOMAIN db.accounts \ {id}, type : SeedTypes]
  <2>1. SUFFICES ASSUME NEW d \in DOMAIN db.documents
                 PROVE  documents[d] \in [responsible : DOMAIN db.accounts \ {id}, type : SeedTypes]
    OBVIOUS
  <2>2. db.documents[d] \in [responsible : DOMAIN db.accounts, type : SeedTypes]
    BY <1>1
  <2>3. documents[d] = [db.documents[d] EXCEPT !.responsible = put[db.documents[d].responsible]]
    BY DEF DocumentsPut
  <2>4. put[db.documents[d].responsible] \in DOMAIN db.accounts \ {id}
    BY <1>2, <2>2
  <2> QED BY <2>2, <2>3, <2>4
<1>5. documents = [d \in DOMAIN db.documents |-> documents[d]]
  BY DEF DocumentsPut
<1> QED BY <1>3, <1>4, <1>5 DEF put

LEMMA RemovalIsSound == ASSUME SeedInv, NEW key \in UsedAccounts, RemoveAccount(key) PROVE SeedInv'
<1>0. PICK id \in OfMail(db.accounts, key) : \E other \in Substitutes(id) :
         /\ Edit("remove", key)
         /\ db' = [HandedOver(id, other) EXCEPT
                    !.accounts[id].mail = "anonymized", !.accounts[id].active = FALSE,
                    !.excluded = @ \cup {key},
                    !.accesses = [a \in {a \in DOMAIN @ : a[2] # id \/ @[a].status # "PENDING"} |-> @[a]]]
  BY DEF RemoveAccount
<1>1. PICK other \in Substitutes(id) :
         /\ Edit("remove", key)
         /\ db' = [HandedOver(id, other) EXCEPT
                    !.accounts[id].mail = "anonymized", !.accounts[id].active = FALSE,
                    !.excluded = @ \cup {key},
                    !.accesses = [a \in {a \in DOMAIN @ : a[2] # id \/ @[a].status # "PENDING"} |-> @[a]]]
  BY <1>0
<1>2. /\ DOMAIN db' = DOMAIN db
      /\ db'.accounts = [db.accounts EXCEPT ![id].mail = "anonymized", ![id].active = FALSE]
      /\ db'.managers = ManagersPut(InPlaceOf(id, other))
      /\ db'.documents = DocumentsPut(InPlaceOf(id, other))
      /\ db'.revisions = db.revisions /\ db'.files = db.files /\ db'.clauses = db.clauses
      /\ db'.accesses = [a \in {a \in DOMAIN db.accesses :
                                  a[2] # id \/ db.accesses[a].status # "PENDING"} |-> db.accesses[a]]
      /\ db'.audit = db.audit /\ db'.excluded = db.excluded \cup {key} /\ db'.creations = db.creations
      /\ db'.inherited = db.inherited
  BY <1>1 DEF HandedOver, SeedInv, SeedTypeOK
<1>3. id \in DOMAIN db.accounts /\ key \in DOMAIN SeedUsers
  BY SeedAssumption DEF SeedAssumption, OfMail
<1>4. AccountsFit(db') /\ DOMAIN db'.accounts = DOMAIN db.accounts
  <2> DEFINE Rows == [mail : DOMAIN SeedUsers \cup {"renamed", "anonymized"},
                      area : DOMAIN SeedManagers, active : BOOLEAN]
             row == [[db.accounts[id] EXCEPT !.mail = "anonymized"] EXCEPT !.active = FALSE]
  <2>1. /\ db.accounts \in [DOMAIN db.accounts -> Rows]
        /\ DOMAIN db.accounts \subseteq (DOMAIN SeedUsers) \X (1..db.creations)
    BY DEF AccountsFit, SeedInv, SeedTypeOK
  <2>2. row \in Rows
    BY <1>3, <2>1
  <2>3. db'.accounts = [db.accounts EXCEPT ![id] = row]
    BY <1>2, <1>3
  <2> HIDE DEF Rows, row
  <2>4. db'.accounts \in [DOMAIN db.accounts -> Rows]
    BY <2>1, <2>2, <2>3
  <2> QED BY <1>2, <2>1, <2>4 DEF AccountsFit, Rows
<1>5. ManagersFit(db') /\ DocumentsFit(db') /\ DOMAIN db'.documents = DOMAIN db.documents
  <2>1. /\ DOMAIN db'.managers = DOMAIN db.managers
        /\ db'.managers \in [DOMAIN db'.managers -> (Known(db) \ {id})]
        /\ DOMAIN db'.documents = DOMAIN db.documents
        /\ db'.documents \in [DOMAIN db'.documents ->
                    [responsible : DOMAIN db.accounts \ {id}, type : SeedTypes]]
    BY <1>2, <1>3, HandOverFits
  <2>2. Known(db) \ {id} \subseteq Known(db') /\ DOMAIN db.accounts \ {id} \subseteq DOMAIN db'.accounts
    BY <1>4 DEF Known
  <2>3. ManagersFit(db')
    BY <2>1, <2>2 DEF ManagersFit, SeedInv, SeedTypeOK
  <2>4. [responsible : DOMAIN db.accounts \ {id}, type : SeedTypes]
           \subseteq [responsible : DOMAIN db'.accounts, type : SeedTypes]
    BY <2>2
  <2>5. DocumentsFit(db')
    BY <2>1, <2>4 DEF DocumentsFit
  <2> QED BY <2>1, <2>3, <2>5
<1>6. RevisionsFit(db') /\ RestFits(db')
  BY <1>2, <1>3, <1>4, <1>5 DEF RevisionsFit, RestFits, Known, SeedInv, SeedTypeOK
<1>7. AccessesFit(db')
  <2> DEFINE Rows == [status : {"PENDING", "APPROVED", "REJECTED"}, approver : Known(db)]
  <2>1. /\ db.accesses \in [DOMAIN db.accesses -> Rows]
        /\ DOMAIN db.accesses \subseteq (DOMAIN db.documents) \X (DOMAIN db.accounts)
    BY DEF AccessesFit, SeedInv, SeedTypeOK
  <2> HIDE DEF Rows
  <2>2. /\ DOMAIN db'.accesses \subseteq DOMAIN db.accesses
        /\ db'.accesses \in [DOMAIN db'.accesses -> Rows]
    BY <1>2, <2>1
  <2>3. Known(db') = Known(db)
    BY <1>4 DEF Known
  <2> QED BY <1>4, <1>5, <2>1, <2>2, <2>3 DEF AccessesFit, Rows
<1>8. VersionsAreThere' /\ RulesHonoured'
  <2>1. db'.revisions = db.revisions /\ db'.inherited = db.inherited
    BY <1>1, <1>2, <1>3
  <2> QED BY <2>1 DEF SeedInv, VersionsAreThere, RulesHonoured
<1>9. IsFiniteSet(edits') /\ Cardinality(edits') <= MaxEdits
  BY <1>1, EditIsCounted
<1> QED BY <1>2, <1>4, <1>5, <1>6, <1>7, <1>8, <1>9 DEF SeedInv, SeedTypeOK

\* The revisions of an erased account are those of the replacement.
LEMMA RevisionsInPlace ==
    ASSUME SeedInv, NEW id \in DOMAIN db.accounts, NEW other \in Substitutes(id)
    PROVE  LET revisions == RevisionsPut(InPlaceOf(id, other))
           IN  /\ DOMAIN revisions = DOMAIN db.revisions
               /\ revisions \in [DOMAIN db.revisions -> [status : Decisions \cup {"PENDING"},
                                author : Known(db) \ {id}, auditor : Known(db) \ {id}]]
               /\ \A r \in DOMAIN db.revisions :
                    /\ revisions[r].status = db.revisions[r].status
                    /\ db.revisions[r].auditor # NoRow => revisions[r].auditor # NoRow
                    /\ revisions[r].author = revisions[r].auditor =>
                         db.revisions[r].author = db.revisions[r].auditor \/ r \in Between(id, other)
<1> DEFINE put == InPlaceOf(id, other)
           revisions == RevisionsPut(put)
           Rows == [status : Decisions \cup {"PENDING"}, author : Known(db) \ {id},
                    auditor : Known(db) \ {id}]
<1>1. /\ \A x \in Known(db) : put[x] \in Known(db) \ {id}
      /\ \A x \in Known(db) : x # NoRow => put[x] # NoRow
      /\ \A x \in Known(db) : put[x] = IF x = id THEN other ELSE x
  BY Replacement DEF InPlaceOf, Known
<1> HIDE DEF put
<1>2. ASSUME NEW r \in DOMAIN db.revisions
      PROVE  /\ revisions[r] \in Rows
             /\ revisions[r].status = db.revisions[r].status
             /\ db.revisions[r].auditor # NoRow => revisions[r].auditor # NoRow
             /\ revisions[r].author = revisions[r].auditor =>
                  db.revisions[r].author = db.revisions[r].auditor \/ r \in Between(id, other)
  <2>1. db.revisions[r] \in [status : Decisions \cup {"PENDING"}, author : Known(db), auditor : Known(db)]
    BY RevisionRow
  <2>2. revisions[r] = [[db.revisions[r] EXCEPT !.author = put[db.revisions[r].author]]
                            EXCEPT !.auditor = put[db.revisions[r].auditor]]
    BY <2>1 DEF RevisionsPut
  <2>3. /\ put[db.revisions[r].author] \in Known(db) \ {id}
        /\ put[db.revisions[r].auditor] \in Known(db) \ {id}
        /\ db.revisions[r].auditor # NoRow => put[db.revisions[r].auditor] # NoRow
    BY <1>1, <2>1
  <2>4. /\ revisions[r].author = put[db.revisions[r].author]
        /\ revisions[r].auditor = put[db.revisions[r].auditor]
    BY <2>1, <2>2
  <2>5. ASSUME put[db.revisions[r].author] = put[db.revisions[r].auditor],
               db.revisions[r].author # db.revisions[r].auditor
        PROVE  r \in Between(id, other)
    <3>1. {db.revisions[r].author, db.revisions[r].auditor} = {id, other}
      BY <1>1, <2>1, <2>5
    <3> QED BY <3>1 DEF Between
  <2>6. revisions[r].author = revisions[r].auditor =>
          db.revisions[r].author = db.revisions[r].auditor \/ r \in Between(id, other)
    BY <2>4, <2>5
  <2>7. revisions[r] \in Rows /\ revisions[r].status = db.revisions[r].status
    BY <2>1, <2>2, <2>3
  <2> QED BY <2>3, <2>4, <2>6, <2>7
<1>3. revisions = [r \in DOMAIN db.revisions |-> revisions[r]]
  BY DEF RevisionsPut
<1> HIDE DEF revisions, Rows
<1>4. revisions \in [DOMAIN db.revisions -> Rows] /\ DOMAIN revisions = DOMAIN db.revisions
  BY <1>2, <1>3
<1> QED BY <1>2, <1>4 DEF Rows, revisions, put

\* So are the decisions of the accesses, but those of the account itself are gone.
LEMMA AccessesInPlace ==
    ASSUME SeedInv, NEW id \in DOMAIN db.accounts, NEW other \in Substitutes(id)
    PROVE  LET accesses == AccessesPut(id, InPlaceOf(id, other))
           IN  /\ DOMAIN accesses \subseteq (DOMAIN db.documents) \X (DOMAIN db.accounts \ {id})
               /\ accesses \in [DOMAIN accesses ->
                    [status : {"PENDING", "APPROVED", "REJECTED"}, approver : Known(db) \ {id}]]
<1> DEFINE put == InPlaceOf(id, other)
           accesses == AccessesPut(id, put)
           Rows == [status : {"PENDING", "APPROVED", "REJECTED"}, approver : Known(db) \ {id}]
<1>1. \A x \in Known(db) : put[x] \in Known(db) \ {id}
  BY Replacement
<1>2. /\ db.accesses \in [DOMAIN db.accesses ->
            [status : {"PENDING", "APPROVED", "REJECTED"}, approver : Known(db)]]
      /\ DOMAIN db.accesses \subseteq (DOMAIN db.documents) \X (DOMAIN db.accounts)
  BY DEF AccessesFit, SeedInv, SeedTypeOK
<1> HIDE DEF put
<1>3. ASSUME NEW a \in DOMAIN accesses
      PROVE  accesses[a] \in Rows /\ a \in (DOMAIN db.documents) \X (DOMAIN db.accounts \ {id})
  <2>1. a \in DOMAIN db.accesses /\ a[2] # id
    BY DEF AccessesPut
  <2>2. db.accesses[a] \in [status : {"PENDING", "APPROVED", "REJECTED"}, approver : Known(db)]
    BY <1>2, <2>1
  <2>3. accesses[a] = [db.accesses[a] EXCEPT !.approver = put[db.accesses[a].approver]]
    BY DEF AccessesPut
  <2>4. put[db.accesses[a].approver] \in Known(db) \ {id}
    BY <1>1, <2>2
  <2> QED BY <1>2, <2>1, <2>2, <2>3, <2>4
<1>4. accesses = [a \in DOMAIN accesses |-> accesses[a]]
  BY DEF AccessesPut
<1> HIDE DEF accesses, Rows
<1>5. accesses \in [DOMAIN accesses -> Rows]
  BY <1>3, <1>4
<1> QED BY <1>3, <1>5 DEF accesses, Rows, put

LEMMA ErasureIsSound == ASSUME SeedInv, NEW key \in UsedAccounts, EraseUser(key) PROVE SeedInv'
<1>0. PICK id \in OfMail(db.accounts, key) : \E other \in Substitutes(id) :
         /\ Edit("erase", key)
         /\ db' = [HandedOver(id, other) EXCEPT
              !.accounts = [o \in DOMAIN db.accounts \ {id} |-> db.accounts[o]],
              !.excluded = @ \cup {key},
              !.revisions = RevisionsPut(InPlaceOf(id, other)),
              !.inherited = @ \cup Between(id, other),
              !.accesses = AccessesPut(id, InPlaceOf(id, other))]
  BY DEF EraseUser
<1>1. PICK other \in Substitutes(id) :
         /\ Edit("erase", key)
         /\ db' = [HandedOver(id, other) EXCEPT
              !.accounts = [o \in DOMAIN db.accounts \ {id} |-> db.accounts[o]],
              !.excluded = @ \cup {key},
              !.revisions = RevisionsPut(InPlaceOf(id, other)),
              !.inherited = @ \cup Between(id, other),
              !.accesses = AccessesPut(id, InPlaceOf(id, other))]
  BY <1>0
<1>2. /\ DOMAIN db' = DOMAIN db
      /\ db'.accounts = [o \in DOMAIN db.accounts \ {id} |-> db.accounts[o]]
      /\ db'.managers = ManagersPut(InPlaceOf(id, other))
      /\ db'.documents = DocumentsPut(InPlaceOf(id, other))
      /\ db'.revisions = RevisionsPut(InPlaceOf(id, other))
      /\ db'.files = db.files /\ db'.clauses = db.clauses
      /\ db'.accesses = AccessesPut(id, InPlaceOf(id, other))
      /\ db'.audit = db.audit /\ db'.excluded = db.excluded \cup {key} /\ db'.creations = db.creations
      /\ db'.inherited = db.inherited \cup Between(id, other)
  BY <1>1 DEF HandedOver, SeedInv, SeedTypeOK
<1>3. id \in DOMAIN db.accounts /\ key \in DOMAIN SeedUsers
  BY SeedAssumption DEF SeedAssumption, OfMail
<1>4. /\ DOMAIN db'.accounts = DOMAIN db.accounts \ {id}
      /\ Known(db) \ {id} = Known(db')
  <2>1. NoRow # id
    BY <1>3, SeedAssumption DEF SeedAssumption, SeedInv, SeedTypeOK, AccountsFit
  <2> QED BY <1>2, <2>1 DEF Known
<1>5. AccountsFit(db')
  <2> DEFINE Rows == [mail : DOMAIN SeedUsers \cup {"renamed", "anonymized"},
                      area : DOMAIN SeedManagers, active : BOOLEAN]
  <2>1. /\ db.accounts \in [DOMAIN db.accounts -> Rows]
        /\ DOMAIN db.accounts \subseteq (DOMAIN SeedUsers) \X (1..db.creations)
    BY DEF AccountsFit, SeedInv, SeedTypeOK
  <2> HIDE DEF Rows
  <2>2. db'.accounts \in [DOMAIN db'.accounts -> Rows]
    BY <1>2, <2>1
  <2> QED BY <1>2, <1>4, <2>1, <2>2 DEF AccountsFit, Rows
<1>6. ManagersFit(db') /\ DocumentsFit(db') /\ DOMAIN db'.documents = DOMAIN db.documents
  <2>1. /\ DOMAIN db'.managers = DOMAIN db.managers
        /\ db'.managers \in [DOMAIN db'.managers -> (Known(db) \ {id})]
        /\ DOMAIN db'.documents = DOMAIN db.documents
        /\ db'.documents \in [DOMAIN db'.documents ->
                    [responsible : DOMAIN db.accounts \ {id}, type : SeedTypes]]
    BY <1>2, <1>3, HandOverFits
  <2> QED BY <1>4, <2>1 DEF ManagersFit, DocumentsFit, SeedInv, SeedTypeOK
<1>7. /\ DOMAIN db'.revisions = DOMAIN db.revisions
      /\ db'.revisions \in [DOMAIN db'.revisions -> [status : Decisions \cup {"PENDING"},
                                author : Known(db) \ {id}, auditor : Known(db) \ {id}]]
      /\ \A r \in DOMAIN db'.revisions :
                /\ db'.revisions[r].status = db.revisions[r].status
                /\ db.revisions[r].auditor # NoRow => db'.revisions[r].auditor # NoRow
                /\ db'.revisions[r].author = db'.revisions[r].auditor =>
                     db.revisions[r].author = db.revisions[r].auditor \/ r \in Between(id, other)
  BY <1>2, <1>3, RevisionsInPlace
<1>8. RevisionsFit(db') /\ RestFits(db')
  BY <1>2, <1>3, <1>4, <1>6, <1>7 DEF RevisionsFit, RestFits, Between, SeedInv, SeedTypeOK
<1>9. AccessesFit(db')
  <2>1. /\ DOMAIN db'.accesses \subseteq (DOMAIN db.documents) \X (DOMAIN db.accounts \ {id})
        /\ db'.accesses \in [DOMAIN db'.accesses ->
                [status : {"PENDING", "APPROVED", "REJECTED"}, approver : Known(db) \ {id}]]
    BY <1>2, <1>3, AccessesInPlace
  <2> QED BY <1>4, <1>6, <2>1 DEF AccessesFit
<1>10. VersionsAreThere'
  BY <1>7 DEF SeedInv, VersionsAreThere
<1>11. RulesHonoured'
  BY <1>2, <1>7 DEF SeedInv, RulesHonoured
<1>12. IsFiniteSet(edits') /\ Cardinality(edits') <= MaxEdits
  BY <1>1, EditIsCounted
<1> QED BY <1>2, <1>5, <1>6, <1>8, <1>9, <1>10, <1>11, <1>12 DEF SeedInv, SeedTypeOK

\* Every step keeps the invariant.
LEMMA SeedStepIsSound == SeedInv /\ [SeedNext]_seedVars => SeedInv'
<1> SUFFICES ASSUME SeedInv, [SeedNext]_seedVars PROVE SeedInv'
  OBVIOUS
<1>1. CASE Seed
  BY <1>1, RunIsSound
<1>2. ASSUME NEW key \in UsedAccounts, RenameAccount(key) PROVE SeedInv'
  BY <1>2, RenameIsSound
<1>3. ASSUME NEW key \in UsedAccounts, RemoveAccount(key) PROVE SeedInv'
  BY <1>3, RemovalIsSound
<1>4. ASSUME NEW key \in UsedAccounts, EraseUser(key) PROVE SeedInv'
  BY <1>4, ErasureIsSound
<1>5. ASSUME NEW key \in UsedAccounts, NEW a \in UsedAreas, MoveAccount(key, a) PROVE SeedInv'
  BY <1>5, MoveIsSound
<1>6. ASSUME NEW key \in UsedAccounts, NEW d \in UsedDocuments, ChangeResponsible(d, key) PROVE SeedInv'
  BY <1>6, ResponsibleIsSound
<1>7. ASSUME NEW d \in UsedDocuments, SubmitRevision(d) PROVE SeedInv'
  BY <1>7, SubmissionIsSound
<1>8. ASSUME NEW d \in UsedDocuments, ApproveRevision(d) \/ RejectRevision(d) PROVE SeedInv'
  BY <1>8, ApprovalIsSound, RejectionIsSound
<1>9. ASSUME NEW d \in UsedDocuments, NEW type \in UsedTypes, ChangeType(d, type) PROVE SeedInv'
  BY <1>9, TypeIsSound
<1>10. CASE UNCHANGED seedVars
  <2>1. db' = db /\ edits' = edits
    BY <1>10 DEF seedVars
  <2>2. SeedTypeOK'
    BY <2>1 DEF SeedInv, SeedTypeOK, AccountsFit, ManagersFit, DocumentsFit, RevisionsFit,
                AccessesFit, RestFits, Known
  <2> QED BY <2>1, <2>2 DEF SeedInv, VersionsAreThere, RulesHonoured
<1> QED BY <1>1, <1>2, <1>3, <1>4, <1>5, <1>6, <1>7, <1>8, <1>9, <1>10 DEF SeedNext

\* The tables fit, and the rules of the data hold, after every run and every use
\* of the rows: for all data that obey the rules themselves.
THEOREM SeedInvariantHolds == SeedSpec => []SeedInv
<1>1. SeedInit => SeedInv
  BY SeedInitIsSound
<1>2. SeedInv /\ [SeedNext]_seedVars => SeedInv'
  BY SeedStepIsSound
<1> QED BY <1>1, <1>2, PTL DEF SeedSpec

\* The rules that the data state of the revisions (_seed_data.py) hold of the seeded
\* rows and after any use and any further run.
THEOREM RulesHold == SeedSpec => []RulesHonoured
<1>1. SeedInv => RulesHonoured
  BY DEF SeedInv
<1> QED BY <1>1, SeedInvariantHolds, PTL

\* The seed is idempotent (README, "Seed"): whatever was done to the rows, where a
\* run passes the next one passes too and changes nothing.
THEOREM SeedingIsIdempotent == SeedSpec => []SeedingTwiceIsOnce
<1>1. SeedInv => SeedingTwiceIsOnce
  BY NothingAgain, MayRunAgain DEF SeedInv, SeedTypeOK, RestFits, SeedingTwiceIsOnce
<1> QED BY <1>1, SeedInvariantHolds, PTL

\* A run keeps the values of the rows it finds: it undoes no work.
THEOREM SeedingKeepsWork == SeedSpec => SeedingUndoesNothing
<1> DEFINE Kept ==
      last' \in {"seed", "failed"} =>
        /\ KeptIn(db.accounts, db'.accounts) /\ KeptIn(db.documents, db'.documents)
        /\ KeptIn(db.revisions, db'.revisions) /\ KeptIn(db.accesses, db'.accesses)
        /\ db.files \subseteq db'.files
        /\ db.audit # 0 => db'.audit = db.audit
<1>1. ASSUME [SeedNext]_seedVars
      PROVE  [Kept]_seedVars
  <2>1. CASE Seed /\ MaySeed(db)
    <3>1. db' = Seeded(db)
      BY <2>1 DEF Seed
    <3>2. /\ KeptIn(db.accounts, SeededAccounts(db))
          /\ \A user : KeptIn(db.documents, SeededDocuments(db.documents, user))
          /\ \A user : KeptIn(db.revisions, SeededRevisions(db.revisions, user))
          /\ \A user : KeptIn(db.accesses, SeededAccesses(db.accesses, user))
      BY RowsAreKept DEF SeededAccounts, SeededDocuments, SeededRevisions, SeededAccesses
    <3>3. /\ KeptIn(db.accounts, db'.accounts) /\ KeptIn(db.documents, db'.documents)
          /\ KeptIn(db.revisions, db'.revisions) /\ KeptIn(db.accesses, db'.accesses)
      BY <3>1, <3>2, TablesOfARun
    <3>4. db.files \subseteq db'.files /\ (db.audit # 0 => db'.audit = db.audit)
      BY <3>1, TablesOfARun DEF SeededFiles, SeededTrail
    <3> QED BY <3>3, <3>4
  <2>2. CASE Seed /\ ~MaySeed(db)
    <3>1. db' = db
      BY <2>2 DEF Seed
    <3> QED BY <3>1 DEF KeptIn
  <2>3. CASE SeedNext /\ ~Seed
    <3>1. \E what \in {"rename", "remove", "erase", "move", "responsible", "submit", "decide", "type"} :
             last' = what
      BY <2>3 DEF SeedNext, RenameAccount, RemoveAccount, EraseUser, MoveAccount, ChangeResponsible,
                  SubmitRevision, ApproveRevision, RejectRevision, ChangeType, Edit
    <3> QED BY <3>1
  <2> QED BY <1>1, <2>1, <2>2, <2>3
<1>2. SeedSpec => [][SeedNext]_seedVars
  BY DEF SeedSpec
<1> QED BY <1>1, <1>2, PTL DEF SeedingUndoesNothing
================================================================================
