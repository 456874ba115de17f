--------------------------- MODULE DatasetCollection ---------------------------
(***************************************************************************)
(* The commands that collect the training set from the public site, run    *)
(* one after the other by one operator and resumable: listing writes the   *)
(* identifiers the site lists, details appends a line of metadata for each *)
(* sampled identifier not yet fetched, download writes the PDF of each     *)
(* record that has a public part and no PDF yet, build_csv turns the       *)
(* records into the rows to be labelled.  Each can be told to do a part of *)
(* it only (--max-pages, --per-group, --limit), and ends with 0 all the    *)
(* same.  A process can be killed at any step, in the middle of a write    *)
(* too.                                                                    *)
(***************************************************************************)
EXTENDS Integers, Sequences, Functions

CONSTANTS
    SiteList,         \* the identifiers, in the order the site lists them
    IdentDocument,  \* IdentDocument[i]: the document an identifier is of
    WithPart,       \* the identifiers that have a public part
    Mapped,         \* those whose category and class have a label
    LongEnough        \* those whose PDF, read whole, gives at least MIN_TEXT_CHARS

Idents == Range(SiteList)

ASSUME CollectionAssumption ==
    /\ SiteList \in Seq(Nat) /\ IsInjective(SiteList)
    /\ DOMAIN IdentDocument = Idents
    /\ WithPart \subseteq Idents /\ Mapped \subseteq Idents /\ LongEnough \subseteq Idents

VARIABLES
    listing,    \* listing.jsonl; <<>> when there is none
    partial,    \* listing.jsonl.partial
    metadata,   \* metadata.jsonl: the records that can be read, in order
    tail,       \* its end: "clean", "unended" (no line end) or "torn"
    pdf,        \* pdf[i]: "none", "empty", "short" or "whole"
    csv,        \* dataset_unlabeled.csv
    listed,     \* history: the pages the run that wrote the listing was to read
    command,    \* the command that runs, or "idle"
    asked,      \* the places, in the list it goes through, of what it answers for
    queue,      \* and of what it has still to do
    failures,   \* of the command, kept until the next one starts
    ended       \* <<command, exit code>> of the last command that ended

collectVars == <<listing, partial, metadata, tail, pdf, csv, listed, command, asked,
                 queue, failures, ended>>
files == <<listing, partial, metadata, tail, pdf, csv, listed>>

CollectInit ==
    /\ listing = <<>> /\ partial = <<>> /\ metadata = <<>> /\ tail = "clean"
    /\ pdf = [i \in Idents |-> "none"]
    /\ csv = {} /\ listed = {}
    /\ command = "idle" /\ asked = {} /\ queue = {} /\ failures = 0
    /\ ended = <<"none", 0>>

Records == [ident : Idents, part : BOOLEAN]
CsvRows == [line : Nat, document : Range(IdentDocument), text : {"short", "whole"}]

CollectTypeOK ==
    /\ listing \in Seq(Idents) /\ partial \in Seq(Idents)
    /\ metadata \in Seq(Records)
    /\ csv \subseteq CsvRows
    /\ tail \in {"clean", "unended", "torn"}
    /\ pdf \in [Idents -> {"none", "empty", "short", "whole"}]
    /\ command \in {"idle", "listing", "details", "download", "build_csv"}
    /\ listed \subseteq Nat /\ asked \subseteq Nat /\ queue \subseteq Nat
    /\ failures \in Nat
    /\ ended[2] \in {0, 1}
--------------------------------------------------------------------------------
\* A command that answers for some items, and has to do those of them not done.
Starting(c, items, todo) ==
    /\ command = "idle"
    /\ command' = c
    /\ asked' = items
    /\ queue' = items \cap todo
    /\ failures' = 0
    /\ ended' = <<"none", 0>>

Ending(c) ==
    /\ command = c
    /\ queue = {}
    /\ command' = "idle"
    /\ ended' = <<c, IF failures = 0 THEN 0 ELSE 1>>
    /\ UNCHANGED <<asked, queue, failures>>

\* Listing and download go through their list in its order, details through a
\* sample in an order of its own.
IsNext(c, k) == c = "details" \/ \A other \in queue : k <= other

Taking(c, k) ==
    /\ command = c
    /\ k \in queue
    /\ IsNext(c, k)
    /\ queue' = queue \ {k}
    /\ UNCHANGED <<command, asked, ended>>

\* One identifier of details or download fails in all its attempts.
FailRequest ==
    /\ \E c \in {"details", "download"} : \E k \in queue : Taking(c, k)
    /\ failures' = failures + 1
    /\ UNCHANGED files

\* The process is killed.
Killed ==
    /\ command # "idle"
    /\ command' = "idle"
    /\ asked' = {} /\ queue' = {}
    /\ failures' = 0
    /\ ended' = <<"none", 0>>

\* Between two steps nothing that was written is lost.  A request of listing that
\* fails in all its attempts ends the command the same way.
Kill == Killed /\ UNCHANGED files
--------------------------------------------------------------------------------
\* --max-pages: the listing ends after that page.
StartListing ==
    /\ \E last \in {Len(SiteList)} \cup DOMAIN SiteList :
        Starting("listing", 1..last, 1..last)
    /\ partial' = <<>>
    /\ UNCHANGED <<listing, metadata, tail, pdf, csv, listed>>

\* One page, with one new row; what was seen before is not written again.
WritePage ==
    /\ \E k \in queue : Taking("listing", k) /\ partial' = Append(partial, SiteList[k])
    /\ UNCHANGED <<listing, metadata, tail, pdf, csv, listed, failures>>

\* A page that is not a page of results has no page number: it counts as page 1
\* of 1, and the run takes what it has for all there is.
ReadOddPage ==
    /\ command = "listing"
    /\ queue # {}
    /\ asked' = asked \ queue
    /\ queue' = {}
    /\ UNCHANGED <<files, command, failures, ended>>

EndListing ==
    /\ Ending("listing")
    /\ listing' = partial
    /\ listed' = asked
    /\ partial' = <<>>
    /\ UNCHANGED <<metadata, tail, pdf, csv>>
--------------------------------------------------------------------------------
\* load_done.
Fetched == {r.ident : r \in Range(metadata)}

ToFetch == {k \in DOMAIN listing : listing[k] \notin Fetched}

\* sample_rows takes some of the rows of the listing, which ones depends on
\* --per-group and on the other rows; --limit drops some that are not fetched.
\* A line that is not JSON, its own or one it reads, makes every command raise.
StartDetails ==
    /\ listing # <<>>
    /\ tail # "torn"
    /\ \E sample \in SUBSET DOMAIN listing : Starting("details", sample, ToFetch)
    /\ UNCHANGED files

ButLast(records) == SubSeq(records, 1, Len(records) - 1)

\* The records that can still be read when something is written after the last:
\* what follows a line without its end makes one line of two, that cannot be read.
StillRead == IF tail = "unended" THEN ButLast(metadata) ELSE metadata

\* A page that is not the one of the identifier gives a record too: it has no parts.
FetchDetails ==
    \E k \in queue : \E record \in Records :
        /\ Taking("details", k)
        /\ record.ident = listing[k]
        /\ record.part => record.ident \in WithPart
        /\ metadata' = IF tail = "unended" THEN StillRead ELSE Append(metadata, record)
        /\ tail' = IF tail = "clean" THEN "clean" ELSE "torn"
        /\ UNCHANGED <<listing, partial, pdf, csv, listed, failures>>

EndDetails == Ending("details") /\ UNCHANGED files

\* Killed while the line is written: it is cut, or whole but for its end.
TearLine ==
    /\ command = "details"
    /\ queue # {}
    /\ Killed
    /\ \/ metadata' = StillRead /\ tail' = "torn"
       \/ /\ tail # "unended"
          /\ tail' = IF tail = "clean" THEN "unended" ELSE "torn"
          /\ \E k \in queue :
              metadata' = Append(metadata, [ident |-> listing[k], part |-> listing[k] \in WithPart])
    /\ UNCHANGED <<listing, partial, pdf, csv, listed>>
--------------------------------------------------------------------------------
\* is_downloaded: the file begins as a PDF does.
IsDownloaded(i) == pdf[i] \in {"short", "whole"}

WithPublicPart == {n \in DOMAIN metadata : metadata[n].part}

\* Faulty variant: every file is fetched again.
EveryPart == WithPublicPart

ToDownload == {n \in WithPublicPart : ~IsDownloaded(metadata[n].ident)}

\* --limit: the first of those that are to be downloaded.
WithinLimit(last) == {n \in WithPublicPart : n \in ToDownload => n <= last}

StartDownload ==
    /\ metadata # <<>> \/ tail # "clean"
    /\ tail # "torn"
    /\ \E last \in {Len(metadata)} \cup ToDownload :
        Starting("download", WithinLimit(last), ToDownload)
    /\ UNCHANGED files

DownloadPart ==
    /\ \E n \in queue : Taking("download", n) /\ pdf' = [pdf EXCEPT ![metadata[n].ident] = "whole"]
    /\ UNCHANGED <<listing, partial, metadata, tail, csv, listed, failures>>

\* Killed in write_bytes: the file was emptied, and begun or not.
TearFile ==
    /\ command = "download"
    /\ Killed
    /\ \E n \in queue : \E rest \in {"empty", "short"} :
        /\ IsNext("download", n)
        /\ pdf' = [pdf EXCEPT ![metadata[n].ident] = rest]
    /\ UNCHANGED <<listing, partial, metadata, tail, csv, listed>>

EndDownload == Ending("download") /\ UNCHANGED files
--------------------------------------------------------------------------------
\* The texts, long enough for a row, that the PDF reader may get of a file: none if
\* it has no text layer, too little text or cannot be read at all; a file that was
\* cut short is unreadable, or read as far as it goes.
PdfTexts(i) == CASE pdf[i] = "whole" /\ i \in LongEnough -> {"whole"}
                 [] pdf[i] = "short" /\ i \in LongEnough -> {"none", "short"}
                 [] OTHER                              -> {"none"}

PdfReadings ==
    {text \in [Idents -> {"none", "short", "whole"}] : \A i \in Idents : text[i] \in PdfTexts(i)}

\* The order of sorted: by the identifier, and the order of the lines where it is equal.
Before(m, n) ==
    \/ metadata[m].ident < metadata[n].ident
    \/ metadata[m].ident = metadata[n].ident /\ m < n

DocumentOf(n) == IdentDocument[metadata[n].ident]
Readable(text) ==
    {n \in WithPublicPart : metadata[n].ident \in Mapped /\ text[metadata[n].ident] # "none"}

\* Faulty variant: a document counts as seen before its text is read.
FirstOfEach(text) ==
    {n \in Readable(text) :
        \A m \in WithPublicPart : Before(m, n) => DocumentOf(m) # DocumentOf(n)}

\* The lines of which build_rows makes a row: of each document the first that has
\* a part, two labels and a text; those that are skipped do not count as seen.
Usable(text) ==
    {n \in Readable(text) :
        \A m \in Readable(text) : Before(m, n) => DocumentOf(m) # DocumentOf(n)}

RowsFor(text) ==
    {[line |-> n, document |-> DocumentOf(n), text |-> text[metadata[n].ident]] : n \in Usable(text)}

\* The rows build_csv may have made when it opens the file.
BuiltRows == {RowsFor(text) : text \in PdfReadings}

StartBuild ==
    /\ metadata # <<>> /\ tail # "torn"
    /\ Starting("build_csv", {}, {})
    /\ UNCHANGED files

EndBuild ==
    /\ Ending("build_csv")
    /\ csv' \in BuiltRows
    /\ UNCHANGED <<listing, partial, metadata, tail, pdf, listed>>

\* Killed while the rows are written: the first of them are there, or none.
TearCsv ==
    /\ command = "build_csv"
    /\ Killed
    /\ \/ csv' = {}
       \/ \E rows \in BuiltRows : \E last \in rows :
            csv' = {row \in rows : row = last \/ Before(row.line, last.line)}
    /\ UNCHANGED <<listing, partial, metadata, tail, pdf, listed>>
--------------------------------------------------------------------------------
CollectNext ==
    \/ FailRequest \/ Kill
    \/ StartListing \/ WritePage \/ ReadOddPage \/ EndListing
    \/ StartDetails \/ FetchDetails \/ EndDetails \/ TearLine
    \/ StartDownload \/ DownloadPart \/ TearFile \/ EndDownload
    \/ StartBuild \/ EndBuild \/ TearCsv

CollectSpec == CollectInit /\ [][CollectNext]_collectVars
--------------------------------------------------------------------------------
\* A listing that is there has every page its run was told to read, up to the
\* first that is no page of results, whatever run was killed or failed since.
ListingIsWhole == DOMAIN listing = listed /\ \A k \in listed : listing[k] = SiteList[k]

\* scripts/dataset/README.md, "resumable runs": over all the restarts and samples
\* an identifier is fetched, and its record written, once.
FetchedOnce == \A m, n \in DOMAIN metadata : metadata[m].ident = metadata[n].ident => m = n

\* The records a build has to give a row for: of a public part, with two labels
\* and a file that is whole and has a text long enough.
Buildable ==
    {n \in WithPublicPart : /\ metadata[n].ident \in Mapped \cap LongEnough
                            /\ pdf[metadata[n].ident] = "whole"}

\* The csv names a document once, by its lowest identifier a row can be made of,
\* and after a build it has every document of which one can.
EachDocumentOnce ==
    /\ \A a, b \in csv : a.document = b.document => a = b
    /\ ended = <<"build_csv", 0>> =>
         \A n \in Buildable : \E row \in csv : row.document = DocumentOf(n)

\* An exit code of 0 says that nothing is left of what the run was told to do:
\* every identifier of its sample has its record, and every record within its
\* limit a file, which is whole unless a kill once cut it short: no run fetches
\* that one again.
NothingIsLeftBehind ==
    /\ ended = <<"details", 0>> =>
         tail = "torn" \/ \A k \in asked : listing[k] \in Fetched
    /\ ended = <<"download", 0>> =>
         \A n \in asked : pdf[metadata[n].ident] \in {"short", "whole"}

\* What the commands leave behind has everything they were told to get, once.
OutputsAreWhole == ListingIsWhole /\ FetchedOnce /\ EachDocumentOnce /\ NothingIsLeftBehind

\* No restart undoes what another run has done: a whole file stays as it is, and
\* of the records at most the one a line end was missing from is lost.
KeptAcrossRestarts ==
    [][/\ \A i \in Idents : pdf[i] = "whole" => pdf'[i] = "whole"
       /\ \A n \in DOMAIN metadata :
            \/ n \in DOMAIN metadata' /\ metadata'[n] = metadata[n]
            \/ n = Len(metadata) /\ tail = "unended"
      ]_collectVars
--------------------------------------------------------------------------------
(* The inductive invariant of OutputsAreWhole. *)

\* A listing is the beginning of what the site lists, so that it names nothing twice.
BeginsTheSite(list) ==
    Len(list) <= Len(SiteList) /\ \A k \in DOMAIN list : list[k] = SiteList[k]

ListingsBeginTheSite == BeginsTheSite(listing) /\ BeginsTheSite(partial)

\* What listing has still to write follows what it wrote.
ListingGoesOn ==
    command = "listing" =>
        \E last \in 0..Len(SiteList) :
            /\ Len(partial) <= last
            /\ asked = 1..last
            /\ queue = Len(partial) + 1 .. last

\* What details has still to fetch was not fetched, and unless a request failed it
\* is all of its sample that was not.
DetailsGoOn ==
    command = "details" =>
        /\ asked \subseteq DOMAIN listing
        /\ queue \subseteq asked \cap ToFetch
        /\ failures = 0 /\ tail # "torn" => asked \cap ToFetch \subseteq queue

\* The same of download.
DownloadsGoOn ==
    command = "download" =>
        /\ asked \subseteq WithPublicPart
        /\ queue \subseteq asked \cap ToDownload
        /\ failures = 0 => asked \cap ToDownload \subseteq queue

\* A command that runs has not ended, and the building of the csv cannot fail.
RunsGoOn ==
    /\ command # "idle" => ended = <<"none", 0>>
    /\ command = "build_csv" => failures = 0

CollectInv ==
    /\ CollectTypeOK /\ OutputsAreWhole
    /\ ListingsBeginTheSite /\ ListingGoesOn /\ DetailsGoOn /\ DownloadsGoOn
    /\ RunsGoOn
================================================================================
