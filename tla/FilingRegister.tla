---------------------------- MODULE FilingRegister -----------------------------
(***************************************************************************)
(* What the document archive promises its readers: a version of a document *)
(* appears with all its files at once, under the next free number, and is  *)
(* never altered afterwards.  There are no temporary files, no storage, no *)
(* transactions and no retries here.                                       *)
(***************************************************************************)
EXTENDS Integers, Sequences

CONSTANTS Projects, Contents, MaxSequence, MaxVersion, MaxFiles

Keys == Projects \X (1..MaxSequence) \X (1..MaxVersion)

\* The files of one version: at least one, and none twice.
Dossiers ==
    {f \in UNION {[1..n -> Contents] : n \in 1..MaxFiles} :
       \A i, j \in DOMAIN f : f[i] = f[j] => i = j}

VARIABLE filed      \* filed[k]: the contents of the files of version k

Init == filed = [k \in Keys |-> <<>>]

\* k is the first version of the next document of its project, or the next
\* version of a document that is there.
IsNext(k) ==
    \A x \in Keys :
        x[1] = k[1] /\ ((x[2] < k[2] /\ x[3] = 1) \/ (x[2] = k[2] /\ x[3] < k[3]))
            => filed[x] # <<>>

File(k, f) ==
    /\ filed[k] = <<>>
    /\ IsNext(k)
    /\ filed' = [filed EXCEPT ![k] = f]

Next == \E k \in Keys, f \in Dossiers : File(k, f)

Spec == Init /\ [][Next]_filed
================================================================================
