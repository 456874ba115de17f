------------------------------- MODULE SeedData --------------------------------
(***************************************************************************)
(* The demonstration data of the seed command (_seed_data.py), with what   *)
(* its rows refer to and in what order their events were; names, titles    *)
(* and comments are left out.  Days are counted back from the seeding.     *)
(***************************************************************************)
EXTENDS Integers, Sequences
LOCAL INSTANCE SequencesExt
LOCAL INSTANCE TLC

CONSTANT NoRow      \* no user, no day

\* AREAS: the manager of each area.
DemoManagers ==
    "EST" :> "marina.duarte" @@ "SIS" :> "rafael.okamoto" @@ "AER" :> NoRow @@
    "MFG" :> "joana.prado" @@ "QUA" :> "thiago.serpa" @@ "CER" :> "beatriz.canuto" @@
    "COM" :> NoRow @@ "HID" :> NoRow @@ "INT" :> NoRow

Account(area, role) == [area |-> area, role |-> role, active |-> TRUE]

\* USERS, by the local part of the e-mail.
DemoUsers ==
    "marina.duarte" :> Account("EST", "ADMIN") @@
    "caio.bertoni" :> Account("EST", "AUTHOR") @@
    "leticia.amaral" :> Account("EST", "AUTHOR") @@
    "rafael.okamoto" :> Account("SIS", "AUTHOR") @@
    "diego.vasques" :> Account("SIS", "AUTHOR") @@
    "helena.tavares" :> Account("AER", "AUTHOR") @@
    "joana.prado" :> Account("MFG", "AUTHOR") @@
    "bruno.kimura" :> Account("MFG", "AUTHOR") @@
    "thiago.serpa" :> Account("QUA", "AUDITOR") @@
    "patricia.lemos" :> Account("QUA", "AUDITOR") @@
    "beatriz.canuto" :> Account("CER", "AUDITOR") @@
    "samuel.rocha" :> Account("MFG", "VIEWER") @@
    "origenes.mota" :> [Account("SIS", "VIEWER") EXCEPT !.active = FALSE]

\* The codes of the catalogs; PNE and AK-1500 are inactive.
DemoDisciplines ==
    {"EST", "MAT", "AER", "HID", "ELE", "FER", "PES", "ENS",
     "ARM", "MUN", "OPT", "NAV", "RFE", "EMB", "PNE"}
DemoTypes ==
    {"DWG", "MEM", "ESP", "NOR", "REV", "PRO", "LDM", "GPR",
     "MMA", "RTE"}
DemoProjects ==
    {"AK-2100", "AK-2200", "AK-3100", "AK-3400", "AK-4000", "AK-4100", "AK-4300", "AK-4400",
     "AK-4500", "AK-4600", "AK-4700", "AK-5100", "AK-5200", "AK-5300", "AK-5400", "AK-1500"}

Paper(project, discipline, type, level, responsible, author, areas, day) ==
    [project |-> project, discipline |-> discipline, type |-> type, level |-> level,
     responsible |-> responsible, author |-> author, areas |-> areas, day |-> day]

\* DOCUMENTS, to AK-2200.
FirstDocuments ==
    "AK-2100-EST-DWG-0001" :> Paper("AK-2100", "EST", "DWG", "CONFIDENTIAL",
        "caio.bertoni", "beatriz.canuto", {"EST"}, 430) @@
    "AK-2100-EST-MEM-0002" :> Paper("AK-2100", "EST", "MEM", "CONFIDENTIAL",
        "leticia.amaral", "beatriz.canuto", {"EST", "CER"}, 395) @@
    "AK-2100-MAT-ESP-0003" :> Paper("AK-2100", "MAT", "ESP", "PUBLIC",
        "joana.prado", "caio.bertoni", {"MFG", "QUA"}, 380) @@
    "AK-2100-ENS-REV-0004" :> Paper("AK-2100", "ENS", "REV", "SECRET",
        "thiago.serpa", "beatriz.canuto", {"QUA", "CER", "EST"}, 240) @@
    "AK-2100-PES-MEM-0005" :> Paper("AK-2100", "PES", "MEM", "CONFIDENTIAL",
        "helena.tavares", "helena.tavares", {"AER", "EST"}, 60) @@
    "AK-2200-EST-DWG-0001" :> Paper("AK-2200", "EST", "DWG", "CONFIDENTIAL",
        "caio.bertoni", "caio.bertoni", {"EST"}, 350) @@
    "AK-2200-AER-MEM-0002" :> Paper("AK-2200", "AER", "MEM", "SECRET",
        "helena.tavares", "beatriz.canuto", {"AER", "EST"}, 340) @@
    "AK-2200-MAT-LDM-0003" :> Paper("AK-2200", "MAT", "LDM", "CONFIDENTIAL",
        "bruno.kimura", "bruno.kimura", {"MFG"}, 300) @@
    "AK-2200-ENS-REV-0004" :> Paper("AK-2200", "ENS", "REV", "CONFIDENTIAL",
        "patricia.lemos", "beatriz.canuto", {"QUA"}, 150)

\* DOCUMENTS, from AK-3100 on.
LastDocuments ==
    "AK-3100-EST-DWG-0001" :> Paper("AK-3100", "EST", "DWG", "CONFIDENTIAL",
        "leticia.amaral", "leticia.amaral", {"EST"}, 310) @@
    "AK-3100-HID-ESP-0002" :> Paper("AK-3100", "HID", "ESP", "CONFIDENTIAL",
        "diego.vasques", "diego.vasques", {"SIS"}, 45) @@
    "AK-3100-MAT-NOR-0003" :> Paper("AK-3100", "MAT", "NOR", "PUBLIC",
        "joana.prado", "joana.prado", {"MFG", "QUA"}, 270) @@
    "AK-3100-ENS-REV-0004" :> Paper("AK-3100", "ENS", "REV", "SECRET",
        "beatriz.canuto", "beatriz.canuto", {"CER", "EST"}, 200) @@
    "AK-3400-EST-DWG-0001" :> Paper("AK-3400", "EST", "DWG", "CONFIDENTIAL",
        "caio.bertoni", "caio.bertoni", {"EST", "MFG"}, 190) @@
    "AK-3400-AER-MEM-0002" :> Paper("AK-3400", "AER", "MEM", "CONFIDENTIAL",
        "helena.tavares", "beatriz.canuto", {"AER"}, 30) @@
    "AK-3400-FER-PRO-0003" :> Paper("AK-3400", "FER", "PRO", "CONFIDENTIAL",
        "bruno.kimura", "bruno.kimura", {"MFG"}, 170) @@
    "AK-4000-FER-DWG-0001" :> Paper("AK-4000", "FER", "DWG", "CONFIDENTIAL",
        "bruno.kimura", "bruno.kimura", {"MFG"}, 420) @@
    "AK-4000-ELE-ESP-0002" :> Paper("AK-4000", "ELE", "ESP", "PUBLIC",
        "diego.vasques", "diego.vasques", {"SIS", "MFG"}, 120) @@
    "AK-1500-EST-MEM-0001" :> Paper("AK-1500", "EST", "MEM", "CONFIDENTIAL",
        "marina.duarte", "marina.duarte", {"EST"}, 900)

DemoDocuments == FirstDocuments @@ LastDocuments

Decided(status, author, auditor, day, audited) ==
    [status |-> status, author |-> author, auditor |-> auditor, day |-> day, audited |-> audited]

Waiting(author, day) == Decided("PENDING", author, NoRow, day, NoRow)

\* REVISIONS, to AK-2200, in the order of their versions.
FirstRevisions ==
    "AK-2100-EST-DWG-0001" :> <<Decided("OBSOLETE", "caio.bertoni", "thiago.serpa", 430, 425),
        Decided("APPROVED", "caio.bertoni", "thiago.serpa", 300, 292),
        Waiting("leticia.amaral", 12)>> @@
    "AK-2100-EST-MEM-0002" :> <<Decided("APPROVED", "leticia.amaral", "beatriz.canuto", 395, 388)>> @@
    "AK-2100-MAT-ESP-0003" :> <<Decided("OBSOLETE", "joana.prado", "patricia.lemos", 380, 374),
        Decided("APPROVED", "joana.prado", "patricia.lemos", 210, 205)>> @@
    "AK-2100-ENS-REV-0004" :> <<Decided("APPROVED", "thiago.serpa", "beatriz.canuto", 240, 232)>> @@
    "AK-2100-PES-MEM-0005" :> <<Waiting("helena.tavares", 60)>> @@
    "AK-2200-EST-DWG-0001" :> <<Decided("APPROVED", "caio.bertoni", "thiago.serpa", 350, 344),
        Waiting("caio.bertoni", 20)>> @@
    "AK-2200-AER-MEM-0002" :> <<Decided("APPROVED", "helena.tavares", "beatriz.canuto", 340, 330)>> @@
    "AK-2200-MAT-LDM-0003" :> <<Decided("REJECTED", "bruno.kimura", "patricia.lemos", 300, 296),
        Waiting("bruno.kimura", 35)>> @@
    "AK-2200-ENS-REV-0004" :> <<Decided("APPROVED", "patricia.lemos", "thiago.serpa", 150, 143)>>

\* REVISIONS of AK-3100.
MiddleRevisions ==
    "AK-3100-EST-DWG-0001" :> <<Decided("OBSOLETE", "leticia.amaral", "thiago.serpa", 310, 303),
        Decided("APPROVED", "leticia.amaral", "thiago.serpa", 175, 168)>> @@
    "AK-3100-HID-ESP-0002" :> <<Waiting("diego.vasques", 45)>> @@
    "AK-3100-MAT-NOR-0003" :> <<Decided("APPROVED", "joana.prado", "patricia.lemos", 270, 260)>> @@
    "AK-3100-ENS-REV-0004" :> <<Decided("APPROVED", "beatriz.canuto", "patricia.lemos", 200, 190)>>

\* REVISIONS, from AK-3400 on.
LastRevisions ==
    "AK-3400-EST-DWG-0001" :> <<Decided("APPROVED", "caio.bertoni", "thiago.serpa", 190, 182),
        Waiting("caio.bertoni", 8)>> @@
    "AK-3400-AER-MEM-0002" :> <<Waiting("helena.tavares", 30)>> @@
    "AK-3400-FER-PRO-0003" :> <<Decided("APPROVED", "bruno.kimura", "patricia.lemos", 170, 161)>> @@
    "AK-4000-FER-DWG-0001" :> <<Decided("OBSOLETE", "bruno.kimura", "thiago.serpa", 420, 414),
        Decided("OBSOLETE", "bruno.kimura", "thiago.serpa", 330, 322),
        Decided("APPROVED", "bruno.kimura", "patricia.lemos", 100, 92)>> @@
    "AK-4000-ELE-ESP-0002" :> <<Decided("APPROVED", "diego.vasques", "thiago.serpa", 120, 112)>> @@
    "AK-1500-EST-MEM-0001" :> <<Decided("OBSOLETE", "marina.duarte", "beatriz.canuto", 900, 890)>>

DemoRevisions == FirstRevisions @@ MiddleRevisions @@ LastRevisions

\* FILES_BY_TYPE: the extensions of the files of a revision.  GPR, MMA and RTE have
\* none there.
DemoFilesByType ==
    "DWG" :> {"pdf", "png"} @@ "MEM" :> {"pdf"} @@ "ESP" :> {"pdf"} @@ "NOR" :> {"pdf"} @@
    "REV" :> {"pdf", "jpeg"} @@ "PRO" :> {"docx"} @@ "LDM" :> {"pdf"}

Request(document, user, status, approver, asked, decided) ==
    [document |-> document, user |-> user, status |-> status, approver |-> approver,
     asked |-> asked, decided |-> decided]

\* DOCUMENT_ACCESS.
DemoAccesses ==
    <<Request("AK-2100-ENS-REV-0004", "samuel.rocha", "PENDING", NoRow, 6, NoRow),
      Request("AK-2100-ENS-REV-0004", "diego.vasques", "APPROVED", "thiago.serpa", 40, 38),
      Request("AK-2200-AER-MEM-0002", "bruno.kimura", "APPROVED", "marina.duarte", NoRow, 25),
      Request("AK-3100-ENS-REV-0004", "caio.bertoni", "PENDING", NoRow, 3, NoRow),
      Request("AK-3100-ENS-REV-0004", "samuel.rocha", "REJECTED", "beatriz.canuto", 70, 66),
      Request("AK-2100-EST-MEM-0002", "samuel.rocha", "APPROVED", "leticia.amaral", NoRow, 55),
      Request("AK-3100-HID-ESP-0002", "helena.tavares", "PENDING", NoRow, 9, NoRow),
      Request("AK-3400-FER-PRO-0003", "patricia.lemos", "APPROVED", "bruno.kimura", NoRow, 80)>>

\* LEGAL_CLAUSES: is_required, by position; only "transferencia-internacional" is
\* not required.
DemoClauses == [position \in 1..15 |-> position # 7]
================================================================================
