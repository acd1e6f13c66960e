----------------------------- MODULE NeedImport -----------------------------
(***************************************************************************)
(* Bulk import of needs into one study (NeedsImportService): the keys of   *)
(* the study's needs are read once, then every row of the file is          *)
(* validated, compared with the keys seen so far, and inserted in a        *)
(* transaction of its own.  An import that dies half-way leaves what it    *)
(* has inserted, and is started again by the user.                         *)
(***************************************************************************)
EXTENDS Naturals, Sequences

CONSTANTS
    Needs,      \* rows that may be inserted
    Keys,       \* dedupeKey: the reference id, else title and villages
    Invalid,    \* a row that validateRow refuses
    MaxRows,    \* MAX_IMPORT_ROWS
    Workers

VARIABLES
    key,      \* the dedupe key of each need
    origin,   \* Need.source; "edited" once its text was changed
    file,     \* the rows each import has still to handle
    seen      \* seenKeys of each import

rows == <<key, origin>>
vars == <<rows, file, seen>>

Origins == {"none", "manual_entry", "file_upload", "edited"}

TypeOK ==
    /\ key \in [Needs -> Keys]
    /\ origin \in [Needs -> Origins]
    /\ file \in [Workers -> UNION {[1..k -> Keys \cup {Invalid}] : k \in 0..MaxRows}]
    /\ seen \in [Workers -> SUBSET Keys]

Init ==
    /\ key = [n \in Needs |-> CHOOSE k \in Keys : TRUE]
    /\ origin = [n \in Needs |-> "none"]
    /\ file = [w \in Workers |-> <<>>]
    /\ seen = [w \in Workers |-> {}]

-----------------------------------------------------------------------------
Present == {n \in Needs : origin[n] # "none"}

Insert(n, k, source) ==
    /\ n \notin Present
    /\ key' = [key EXCEPT ![n] = k]
    /\ origin' = [origin EXCEPT ![n] = source]

\* The keys of the study's needs, and a file that is not empty or too long.
BeginImport(w, f) ==
    /\ file[w] = <<>>
    /\ Len(f) \in 1..MaxRows
    /\ file' = [file EXCEPT ![w] = f]
    /\ seen' = [seen EXCEPT ![w] = {key[n] : n \in Present}]
    /\ UNCHANGED rows

RowDone(w) == file' = [file EXCEPT ![w] = Tail(@)]

\* A row that is invalid or a duplicate is reported and skipped.
SkipRow(w) ==
    /\ file[w] # <<>>
    /\ Head(file[w]) \in seen[w] \cup {Invalid}
    /\ RowDone(w)
    /\ UNCHANGED <<rows, seen>>

\* Faulty: the key of an inserted row is not remembered.
ImportRowForgetful(w) ==
    /\ file[w] # <<>>
    /\ Head(file[w]) \notin seen[w] \cup {Invalid}
    /\ \E n \in Needs : Insert(n, Head(file[w]), "file_upload")
    /\ RowDone(w)
    /\ UNCHANGED seen

ImportRow(w) ==
    /\ file[w] # <<>>
    /\ Head(file[w]) \notin seen[w] \cup {Invalid}
    /\ \E n \in Needs : Insert(n, Head(file[w]), "file_upload")
    /\ seen' = [seen EXCEPT ![w] = @ \cup {Head(file[w])}]
    /\ RowDone(w)

\* The insert fails: the row is reported as not saved.
RowFails(w) ==
    /\ file[w] # <<>>
    /\ Head(file[w]) \notin seen[w] \cup {Invalid}
    /\ RowDone(w)
    /\ UNCHANGED <<rows, seen>>

\* The process stops: what was inserted stays.
Crash(w) ==
    /\ file[w] # <<>>
    /\ file' = [file EXCEPT ![w] = <<>>]
    /\ UNCHANGED <<rows, seen>>

\* NeedsService.create, update and remove, which compare nothing.
EnterByHand ==
    /\ \E n \in Needs, k \in Keys : Insert(n, k, "manual_entry")
    /\ UNCHANGED <<file, seen>>

Edit ==
    /\ \E n \in Present, k \in Keys :
          /\ key' = [key EXCEPT ![n] = k]
          /\ origin' = [origin EXCEPT ![n] = "edited"]
    /\ UNCHANGED <<file, seen>>

Remove ==
    /\ \E n \in Present :
          /\ origin' = [origin EXCEPT ![n] = "none"]
          /\ key' = [key EXCEPT ![n] = CHOOSE k \in Keys : TRUE]
    /\ UNCHANGED <<file, seen>>

Import(w) == SkipRow(w) \/ ImportRow(w) \/ RowFails(w) \/ Crash(w)

Next ==
    \/ \E w \in Workers :
          \/ Import(w)
          \/ \E k \in 1..MaxRows : \E f \in [1..k -> Keys \cup {Invalid}] : BeginImport(w, f)
    \/ EnterByHand \/ Edit \/ Remove

Spec == Init /\ [][Next]_vars

-----------------------------------------------------------------------------
\* Between imports of one user (no two in flight): whatever was imported, also
\* by an import that was started again after a crash, is there once.
ImportedOnce ==
    \A n, m \in Needs : n # m /\ origin[n] = "file_upload" /\ origin[m] = "file_upload"
                        => key[n] # key[m]

=============================================================================
