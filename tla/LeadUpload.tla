----------------------------- MODULE LeadUpload -----------------------------
(***************************************************************************)
(* A lead file on its way from the compose dialog to the API: the preview  *)
(* of ComposeModal.tsx, whose reads of the chosen files may end in any     *)
(* order, and email/lead-parser.ts, whose loop goes one candidate a step.  *)
(*                                                                         *)
(* The two read a CSV file with different libraries: csv-parse splits its  *)
(* lines at commas, Papa at a delimiter that it detects.  A file therefore *)
(* has two sequences of lines, and a line is a sequence of cells, each a   *)
(* word, an address or without text.  A line without a character is        *)
(* <<Empty>>, one of blanks alone <<Space>>.                               *)
(***************************************************************************)
EXTENDS Naturals, Sequences, FiniteSets, SequencesExt

CONSTANTS
    File, NoFile,       \* the files there can be
    Spare,              \* bound: of a user's two files, one is one of these
    Address,            \* the cells that are email addresses, as [local, domain]
    Heading,            \* the cells that say "email", in upper or lower case
    Other,              \* the cell that is neither
    Empty, Space,       \* the cell without a character, and the one of blanks
    Lower,              \* toLowerCase on the parts of addresses
    maxLeads,           \* MAX_LEADS_PER_BATCH
    invalidDetailLimit,
    MaxReading          \* bound on the reads of the dialog at one time

Part == DOMAIN Lower
Cell == Address \cup Heading \cup {Other, Empty, Space}

ASSUME LowerAssumption ==
    Lower \in [Part -> Part] /\ \A p \in Part : Lower[Lower[p]] = Lower[p]
ASSUME CellAssumption ==
    /\ Address \subseteq [local : Part, domain : Part]
    /\ Address \cap (Heading \cup {Other, Empty, Space}) = {}
ASSUME FileAssumption ==
    /\ NoFile \notin File /\ Spare \subseteq File
    /\ \A f \in File : /\ f.extension \in {"csv", "txt", "other"}
                       /\ f.supported \in BOOLEAN /\ f.utf8 \in BOOLEAN
                       /\ f.atCommas \in Seq(Seq(Cell))   \* split at commas
                       /\ f.byPapa \in Seq(Seq(Cell))     \* at the detected delimiter
ASSUME LimitAssumption ==
    maxLeads \in Nat /\ invalidDetailLimit \in Nat /\ MaxReading \in Nat

VARIABLES
    disk,       \* the user's files
    reading,    \* the dialog: how often each file is being read for its preview
    dialog,     \* its file and preview
    parse       \* the API: one parseLeadFile, and how it ended

vars == <<disk, reading, dialog, parse>>

-----------------------------------------------------------------------------
(* The cells that may be addresses *)

\* The elements of s that are not in D, in their order.
Without(s, D) ==
    LET kept[n \in 0..Len(s)] ==
            IF n = 0 THEN <<>>
            ELSE IF s[n] \in D THEN kept[n - 1] ELSE Append(kept[n - 1], s[n])
    IN  kept[Len(s)]

\* csv-parse trims the cells, and skips the lines that have no text then.
parseCsv(file) == Without(file.atCommas, {<<Empty>>, <<Space>>})

\* The position of the "email" column in the first row, none if it has no heading.
EmailColumn(rows) ==
    IF rows = <<>> THEN {}
    ELSE {c \in DOMAIN Head(rows) : /\ Head(rows)[c] \in Heading
                                    /\ \A d \in 1..(c - 1) : Head(rows)[d] \notin Heading}

\* The cell of a row that the column selects; a row that is too short has "".
CellIn(rows, n) ==
    LET column == IF EmailColumn(rows) = {} THEN 1 ELSE CHOOSE c \in EmailColumn(rows) : TRUE
    IN  IF column \in DOMAIN rows[n] THEN rows[n][column] ELSE Empty

\* csvCandidates numbers the rows it keeps, the heading included.
csvCandidates(file) ==
    LET rows == parseCsv(file)
        start == Cardinality(EmailColumn(rows))
    IN  [n \in 1..(Len(rows) - start) |-> [row |-> n + start, value |-> CellIn(rows, n + start)]]

\* textCandidates numbers the lines of the file, and drops the cells without text.
textCandidates(file) ==
    LET Numbered(l) ==
            [c \in DOMAIN file.atCommas[l] |-> [row |-> l, value |-> file.atCommas[l][c]]]
    IN  Without(FlattenSeq([l \in DOMAIN file.atCommas |-> Numbered(l)]),
                [row : DOMAIN file.atCommas, value : {Empty, Space}])

Candidates(file) == IF file.extension = "csv" THEN csvCandidates(file) ELSE textCandidates(file)

\* csvCandidates throws: several columns, and none of them is called "email".
Malformed(file) ==
    /\ file.extension = "csv"
    /\ EmailColumn(parseCsv(file)) = {}
    /\ \E n \in DOMAIN parseCsv(file) : Len(parseCsv(file)[n]) # 1

-----------------------------------------------------------------------------
(* The preview, which parses the file by itself *)

\* Papa skips only the lines without any character.
PapaParse(file) == Without(file.byPapa, {<<Empty>>})

\* The position of the heading, 0 if there is none.
PreviewColumn(rows) ==
    LET headings == IF rows = <<>> THEN {} ELSE {c \in DOMAIN rows[1] : rows[1][c] \in Heading}
    IN  IF headings = {} THEN 0
        ELSE CHOOSE c \in headings : \A d \in headings : c <= d

\* row[column] ?? "", where the first column will do without a heading.
PreviewCell(row, column) ==
    IF column = 0 THEN IF row = <<>> THEN Empty ELSE row[1]
    ELSE IF column <= Len(row) THEN row[column] ELSE Empty

\* Mutant: the heading is taken for a candidate.
previewValuesWithHeading(file) ==
    LET rows == PapaParse(file)
        values == [n \in DOMAIN rows |-> PreviewCell(rows[n], PreviewColumn(rows))] IN
        IF file.extension = "csv" THEN values ELSE Without(FlattenSeq(file.atCommas), {Empty, Space})

previewValues(file) ==
    LET rows == PapaParse(file)
        values == [n \in DOMAIN rows |-> PreviewCell(rows[n], PreviewColumn(rows))] IN
        IF file.extension = "csv" THEN IF PreviewColumn(rows) = 0 THEN values ELSE Tail(values)
        ELSE Without(FlattenSeq(file.atCommas), {Empty, Space})

Lowered(address) == [local |-> Lower[address.local], domain |-> Lower[address.domain]]

PreviewStep(p, value) ==
    IF value \notin Address THEN [p EXCEPT !.invalid = @ + 1]
    ELSE IF Lowered(value) \in p.seen THEN [p EXCEPT !.duplicate = @ + 1]
    ELSE [p EXCEPT !.seen = @ \cup {Lowered(value)}, !.valid = @ + 1]

NoPreview == [seen |-> {}, valid |-> 0, invalid |-> 0, duplicate |-> 0]

\* The preview after each of the values.
Previews(file) ==
    LET values == previewValues(file)
        after[n \in 0..Len(values)] ==
            IF n = 0 THEN NoPreview ELSE PreviewStep(after[n - 1], values[n])
    IN  after

previewLeadFile(file) == Previews(file)[Len(previewValues(file))]
Detected(preview) == preview.valid + preview.invalid + preview.duplicate

\* previewLeadFile throws: several columns without a heading, or too many values.
PreviewThrows(file) ==
    \/ /\ file.extension = "csv"
       /\ PreviewColumn(PapaParse(file)) = 0
       /\ \E n \in DOMAIN PapaParse(file) : Len(PapaParse(file)[n]) # 1
    \/ Len(previewValues(file)) > maxLeads

\* Or selectFile rejects what it returns.
Blocked(file) == PreviewThrows(file) \/ previewLeadFile(file).valid = 0

-----------------------------------------------------------------------------
(* The dialog and the request *)

Outcome == {"none", "running", "parsed", "UNSUPPORTED_FILE", "INVALID_FILE", "TOO_MANY_LEADS",
            "NO_VALID_RECIPIENTS"}
Lead == [local : Part, domain : Part]

Preview == [seen : SUBSET Lead, valid : Nat, invalid : Nat, duplicate : Nat]
Parse == [ outcome : Outcome, file : File \cup {NoFile}, at : Nat, leads : Seq(Lead),
           seen : SUBSET Lead, invalidCount : Nat, duplicateCount : Nat, invalidRows : Seq(Nat) ]

TypeOK ==
    /\ disk \subseteq File
    /\ reading \in [disk -> 0..MaxReading]
    /\ dialog \in [file : disk \cup {NoFile}, preview : Preview]
    /\ parse \in Parse
    /\ Len(parse.invalidRows) <= invalidDetailLimit

NoParse == [ outcome |-> "none", file |-> NoFile, at |-> 0, leads |-> <<>>, seen |-> {},
             invalidCount |-> 0, duplicateCount |-> 0, invalidRows |-> <<>> ]

Init ==
    /\ \E f \in File, g \in Spare : disk = {f, g}
    /\ reading = [f \in disk |-> 0]
    /\ dialog = [file |-> NoFile, preview |-> NoPreview]
    /\ parse = NoParse

\* selectFile up to its await.  Bound: at most MaxReading reads of a file at once.
selectFile(f) ==
    /\ reading[f] < MaxReading
    /\ dialog' = [file |-> NoFile, preview |-> NoPreview]
    /\ reading' = IF f.extension = "other" THEN reading ELSE [reading EXCEPT ![f] = @ + 1]
    /\ UNCHANGED <<disk, parse>>

\* The rest of selectFile, whatever has been selected since.
Previewed(f) ==
    /\ reading[f] > 0
    /\ reading' = [reading EXCEPT ![f] = @ - 1]
    /\ dialog' = IF Blocked(f) THEN dialog ELSE [file |-> f, preview |-> previewLeadFile(f)]
    /\ UNCHANGED <<disk, parse>>

\* The file of the dialog, or any file of another client, reaches the API.
parseLeadFile(f) ==
    /\ parse.outcome \notin {"running", "parsed"}
    /\ parse' = [NoParse EXCEPT !.file = f,
                   !.outcome = IF ~f.supported \/ f.extension = "other" THEN "UNSUPPORTED_FILE"
                               ELSE IF ~f.utf8 \/ Malformed(f) THEN "INVALID_FILE"
                               ELSE IF Len(Candidates(f)) > maxLeads THEN "TOO_MANY_LEADS"
                               ELSE "running"]
    /\ UNCHANGED <<disk, reading, dialog>>

submit == dialog.file # NoFile /\ parseLeadFile(dialog.file)

-----------------------------------------------------------------------------
(* The loop of parseLeadFile *)

\* Mutant: the domain keeps its case.
normalizeEmailAsIs(address) == [local |-> address.local, domain |-> address.domain]

normalizeEmail(address) == [local |-> address.local, domain |-> Lower[address.domain]]

candidate == Candidates(parse.file)[parse.at + 1]

Running == parse.outcome = "running" /\ parse.at < Len(Candidates(parse.file))

\* Mutant: one detail too many.
RoomForDetailLate(rows) == Len(rows) <= invalidDetailLimit

RoomForDetail(rows) == Len(rows) < invalidDetailLimit

InvalidCandidate ==
    /\ Running /\ candidate.value \notin Address
    /\ parse' = [parse EXCEPT !.at = @ + 1, !.invalidCount = @ + 1,
                   !.invalidRows = IF RoomForDetail(@) THEN Append(@, candidate.row) ELSE @]
    /\ UNCHANGED <<disk, reading, dialog>>

\* Mutant: a duplicate counts as invalid, too.
DuplicateCandidateTwice ==
    /\ Running /\ candidate.value \in Address
    /\ normalizeEmail(candidate.value) \in parse.seen
    /\ parse' = [parse EXCEPT !.at = @ + 1, !.duplicateCount = @ + 1, !.invalidCount = @ + 1]
    /\ UNCHANGED <<disk, reading, dialog>>

DuplicateCandidate ==
    /\ Running /\ candidate.value \in Address
    /\ normalizeEmail(candidate.value) \in parse.seen
    /\ parse' = [parse EXCEPT !.at = @ + 1, !.duplicateCount = @ + 1]
    /\ UNCHANGED <<disk, reading, dialog>>

NewCandidate ==
    /\ Running /\ candidate.value \in Address
    /\ LET lead == normalizeEmail(candidate.value) IN
         /\ lead \notin parse.seen
         /\ parse' = [parse EXCEPT !.at = @ + 1, !.seen = @ \cup {lead}, !.leads = Append(@, lead)]
    /\ UNCHANGED <<disk, reading, dialog>>

\* The result, which createEmailBatch refuses if it has no lead.
Parsed ==
    /\ parse.outcome = "running" /\ parse.at = Len(Candidates(parse.file))
    /\ parse' = [parse EXCEPT !.outcome = IF parse.leads = <<>> THEN "NO_VALID_RECIPIENTS" ELSE "parsed"]
    /\ UNCHANGED <<disk, reading, dialog>>

Next ==
    \/ \E f \in disk : selectFile(f) \/ Previewed(f) \/ parseLeadFile(f)
    \/ submit
    \/ InvalidCandidate \/ DuplicateCandidate \/ NewCandidate
    \/ Parsed

Spec == Init /\ [][Next]_vars

-----------------------------------------------------------------------------
(* Properties *)

\* No two leads have the same normalised address, which the unique index
\* (batchId, normalizedRecipientEmail) would refuse: createEmailBatch would take
\* its P2002 for a raced batch and answer 500.  The comparison with the
\* addresses themselves says that equal means equal up to the domain's case.
LeadsDistinct ==
    \A m, n \in DOMAIN parse.leads :
        m # n => \/ parse.leads[m].local # parse.leads[n].local
                 \/ Lower[parse.leads[m].domain] # Lower[parse.leads[n].domain]

\* Every candidate is counted exactly once, and no valid one is lost: each
\* address read so far is among the leads, up to the domain's case.
EveryRowCounted ==
    /\ Len(parse.leads) + parse.invalidCount + parse.duplicateCount = parse.at
    /\ \A n \in 1..parse.at :
         LET value == Candidates(parse.file)[n].value IN
           value \in Address =>
               \E m \in DOMAIN parse.leads :
                   /\ parse.leads[m].local = value.local
                   /\ Lower[parse.leads[m].domain] = Lower[value.domain]

\* Papa detects the comma, or no delimiter at all, and no line is of blanks alone.
\* A file of semicolons, or with such a line, the two libraries split differently.
SplitAlike(f) ==
    f.extension = "csv" =>
        f.byPapa = f.atCommas /\ \A l \in DOMAIN f.atCommas : f.atCommas[l] # <<Space>>

\* The two readers agree where the libraries under them do: a readable file that
\* the dialog offers for scheduling is parsed, with as many rows and invalid rows
\* as the preview said and at least as many leads (it ignores the case of the
\* local part, the API does not); a file it blocks is not parsed.
PreviewAgrees ==
    LET f == parse.file
        preview == previewLeadFile(f) IN
    parse.outcome # "none" /\ SplitAlike(f) =>
        /\ parse.outcome = "parsed" =>
             /\ ~Blocked(f)
             /\ parse.at = Detected(preview)
             /\ parse.invalidCount = preview.invalid
             /\ preview.valid <= Len(parse.leads)
        /\ parse.outcome \in {"INVALID_FILE", "TOO_MANY_LEADS", "NO_VALID_RECIPIENTS"} /\ f.utf8 =>
             Blocked(f)
=============================================================================
