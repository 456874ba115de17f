----------------------------- MODULE AreaLabelling -----------------------------
(***************************************************************************)
(* The command label_areas: each row of the unlabelled csv gets the area   *)
(* stage a language model answers for its text, under a version of the     *)
(* criteria.  An answer is appended at once to a cache file, by a key of   *)
(* the text and the version, so that a later run need not ask again.  A    *)
(* row is tried MaxAttempts times, and the run is given up when the        *)
(* service cannot be reached for MaxUnreachable rows in a row.  The output *)
(* is written at the end, also of a run that was given up.                 *)
(*                                                                         *)
(* A label is the <<text, version>> it was answered for.                   *)
(***************************************************************************)
EXTENDS Integers, Sequences, FiniteSets, Functions

CONSTANTS
    RowText,          \* RowText[k]: the text of row k of the input
    CriteriaVersions,
    MaxAttempts, MaxUnreachable,
    NoLabel

ASSUME LabellingAssumption ==
    /\ RowText \in Seq(Range(RowText))
    /\ {MaxAttempts, MaxUnreachable} \subseteq Nat \ {0}

Keys == Range(RowText) \X CriteriaVersions

VARIABLES
    cacheFile,  \* area_labels.jsonl: <<key, label>> of the lines that can be read, in order
    cacheEnd,   \* its end: "clean", "unended" (no line end) or "torn"
    merged,     \* the answers of a line that holds two, and cannot be read
    known,      \* AreaCache.labels: what the file had when the run began, and its own
    version,    \* the version of the running command, NoLabel when none runs
    labels,     \* result.labels
    attempt,    \* of the next row, 1 when it has not been tried
    unreachable,    \* how the last failed attempt of the row failed
    streak,     \* consecutive_unreachable
    output,     \* dataset.csv: <<row, label>>
    lastRun     \* [labels, version, code] of the last command that ended

rowVars == <<labels, attempt, unreachable, streak>>
cacheVars == <<cacheFile, cacheEnd, merged>>
labelVars == <<cacheVars, known, version, rowVars, output, lastRun>>

NoRun == [labels |-> <<>>, version |-> NoLabel, code |-> 0]

LabelInit ==
    /\ cacheFile = <<>> /\ cacheEnd = "clean" /\ merged = {}
    /\ known = {}
    /\ version = NoLabel
    /\ labels = <<>> /\ attempt = 1 /\ unreachable = FALSE /\ streak = 0
    /\ output = {}
    /\ lastRun = NoRun

LabelTypeOK ==
    /\ cacheFile \in Seq(Keys \X Keys)
    /\ cacheEnd \in {"clean", "unended", "torn"}
    /\ merged \subseteq Keys \X Keys /\ known \subseteq Keys \X Keys
    /\ version \in CriteriaVersions \cup {NoLabel}
    /\ labels \in Seq(Keys \cup {NoLabel})
    /\ Len(labels) <= Len(RowText)
    /\ attempt \in 1..MaxAttempts
    /\ streak \in 0..MaxUnreachable
    /\ output \subseteq (DOMAIN RowText) \X Keys
    /\ lastRun.code \in {0, 1, 2}
--------------------------------------------------------------------------------
Row == Len(labels) + 1
Running == version # NoLabel
GivenUp == streak >= MaxUnreachable
Working == Running /\ ~GivenUp /\ Row <= Len(RowText)

\* Faulty variant: a key of the text alone.
KeyOfText(text, v) == <<text, CHOOSE any \in CriteriaVersions : TRUE>>

\* area_key.
AreaKey(text, v) == <<text, v>>

RowKey == AreaKey(RowText[Row], version)
IsKnown(key) == \E entry \in known : entry[1] = key
Cached(key) == (CHOOSE entry \in known : entry[1] = key)[2]

\* AreaCache reads the whole file; with a line that is not JSON it raises.
StartLabelling(v) ==
    /\ ~Running
    /\ cacheEnd # "torn"
    /\ version' = v
    /\ known' = Range(cacheFile)
    /\ labels' = <<>> /\ attempt' = 1 /\ unreachable' = FALSE /\ streak' = 0
    /\ lastRun' = NoRun
    /\ UNCHANGED <<cacheVars, output>>

\* A row whose key is cached is not asked for, and leaves the streak as it is.
UseCached ==
    /\ Working
    /\ IsKnown(RowKey)
    /\ labels' = Append(labels, Cached(RowKey))
    /\ UNCHANGED <<cacheVars, known, version, attempt, unreachable, streak, output, lastRun>>

\* The row is done; what its last failed attempt was decides on the streak.
FinishRow(label, failedUnreachable) ==
    /\ labels' = Append(labels, label)
    /\ attempt' = 1
    /\ unreachable' = FALSE
    /\ streak' = IF failedUnreachable THEN streak + 1 ELSE 0

LastLine == cacheFile[Len(cacheFile)]

\* What is written after a line that has no end makes one line of the two.
MergeIntoLastLine(entries) ==
    /\ cacheFile' = SubSeq(cacheFile, 1, Len(cacheFile) - 1)
    /\ merged' = {LastLine} \cup entries
    /\ cacheEnd' = "torn"

\* AreaCache.put.
Put(key, label) ==
    /\ known' = known \cup {<<key, label>>}
    /\ IF cacheEnd = "unended"
       THEN MergeIntoLastLine({<<key, label>>})
       ELSE /\ cacheFile' = Append(cacheFile, <<key, label>>)
            /\ UNCHANGED <<cacheEnd, merged>>

\* An attempt that succeeds does not clear what the attempt before it left in
\* unreachable.
Answer ==
    /\ Working
    /\ ~IsKnown(RowKey)
    /\ Put(RowKey, <<RowText[Row], version>>)
    /\ FinishRow(<<RowText[Row], version>>, unreachable)
    /\ UNCHANGED <<version, output, lastRun>>

\* An answer that is no stage, an error of the service, or no connection.
FailAttempt ==
    \E noConnection \in BOOLEAN :
        /\ Working
        /\ ~IsKnown(RowKey)
        /\ IF attempt < MaxAttempts
           THEN /\ attempt' = attempt + 1
                /\ unreachable' = noConnection
                /\ UNCHANGED <<labels, streak>>
           ELSE FinishRow(NoLabel, noConnection)
        /\ UNCHANGED <<cacheVars, known, version, output, lastRun>>

\* result.failures are the rows tried in vain, not those left out.
ExitCode ==
    CASE GivenUp -> 2
      [] ~GivenUp /\ NoLabel \in Range(labels) -> 1
      [] OTHER -> 0

Stopped ==
    /\ version' = NoLabel
    /\ labels' = <<>> /\ attempt' = 1 /\ unreachable' = FALSE /\ streak' = 0
    /\ known' = {}

\* build_output leaves out the rows without a label; the file is written anew.
EndLabelling ==
    /\ Running
    /\ ~Working
    /\ output' = {<<k, labels[k]>> : k \in {k \in DOMAIN labels : labels[k] # NoLabel}}
    /\ lastRun' = [labels |-> labels, version |-> version, code |-> ExitCode]
    /\ Stopped
    /\ UNCHANGED cacheVars

\* The process is killed between two steps, or in write_rows.
KillLabelling ==
    /\ Running
    /\ Stopped
    /\ lastRun' = NoRun
    /\ UNCHANGED output \/ (~Working /\ output' = {})
    /\ UNCHANGED cacheVars

\* It is killed in put: the line is cut, or whole but for its end.
TearAnswer ==
    /\ Working
    /\ ~IsKnown(RowKey)
    /\ Stopped
    /\ lastRun' = NoRun
    /\ \/ cacheEnd = "unended" /\ MergeIntoLastLine({})
       \/ cacheEnd # "unended" /\ cacheEnd' = "torn" /\ UNCHANGED <<cacheFile, merged>>
       \/ /\ cacheEnd # "unended"
          /\ cacheFile' = Append(cacheFile, <<RowKey, <<RowText[Row], version>>>>)
          /\ cacheEnd' = IF cacheEnd = "clean" THEN "unended" ELSE "torn"
          /\ UNCHANGED merged
    /\ UNCHANGED output

LabelNext ==
    \/ \E v \in CriteriaVersions : StartLabelling(v)
    \/ UseCached \/ Answer \/ FailAttempt
    \/ EndLabelling \/ KillLabelling \/ TearAnswer

LabelSpec == LabelInit /\ [][LabelNext]_labelVars
--------------------------------------------------------------------------------
\* A label is of the text of its row under the criteria of the run, whichever run
\* asked for it and whatever version other runs used.
LabelsFitTheirRun ==
    /\ \A k \in DOMAIN labels : labels[k] \in {NoLabel, <<RowText[k], version>>}
    /\ lastRun.version # NoLabel =>
         \A entry \in output : entry[2] = <<RowText[entry[1]], lastRun.version>>

\* What was answered and written whole, readable or not.
Answers == Range(cacheFile) \cup merged

\* scripts/dataset/README.md: "a rerun only calls the model for new documents":
\* over all runs, killed and given up ones too, a key is answered once.
AskedOnce ==
    /\ \A m, n \in DOMAIN cacheFile : cacheFile[m][1] = cacheFile[n][1] => m = n
    /\ \A n \in DOMAIN cacheFile : \A entry \in merged : cacheFile[n][1] # entry[1]

\* No answer is lost with its run: every label a run has is in the cache file
\* while it runs, and so is every label of the output.  What cannot be read of it
\* are at most two answers, of the line that a kill left without its end and of
\* the one written after it.
AnswersAreCached ==
    /\ Range(labels) \cup {entry[2] : entry \in output}
         \subseteq {entry[2] : entry \in Answers} \cup {NoLabel}
    /\ Cardinality(merged) <= 2
    /\ merged # {} => cacheEnd = "torn"

\* A command that ends with 0 has labelled every row.
NoRowIsLeftOut ==
    lastRun.version # NoLabel /\ lastRun.code = 0 => {entry[1] : entry \in output} = DOMAIN RowText

\* What a run writes can be relied on, and no call of the model is wasted: its
\* labels are its own, an exit code of 0 means that there is one for every row, an
\* answer is asked for once and kept over a kill, but for those of one line that
\* a kill left without its end.
LabelsAreSound == LabelsFitTheirRun /\ NoRowIsLeftOut /\ AnswersAreCached /\ AskedOnce

\* label_areas.py:222, "the labeling service failed {amount} documents in a row":
\* a run that was given up has that many rows that the service did not label.
GivenUpMeansFailed ==
    lastRun.code = 2 =>
        Cardinality({k \in DOMAIN lastRun.labels : lastRun.labels[k] = NoLabel}) >= MaxUnreachable
--------------------------------------------------------------------------------
(* The inductive invariant of LabelsAreSound. *)

\* A line of the cache file has the label of its key.
CacheIsOfItsKeys == \A entry \in Answers : entry[2] = entry[1]

\* A running command knows every answer of the file, its own included; a line
\* without its end is there.
KnownIsTheCache ==
    /\ Running => known = Answers
    /\ cacheEnd = "unended" => cacheFile # <<>>

LabelInv == LabelTypeOK /\ CacheIsOfItsKeys /\ KnownIsTheCache /\ LabelsAreSound
================================================================================
