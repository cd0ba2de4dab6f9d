--------------------------- MODULE Uploads_proofs ---------------------------
(***************************************************************************)
(* Theorems about Uploads, for any files, columns and number of requests.  *)
(***************************************************************************)
EXTENDS Uploads, TLAPS, FiniteSetTheorems

-----------------------------------------------------------------------------
(* Cells and rows *)

LEMMA CoercedText ==
  ASSUME NEW t \in Texts, NEW type
  PROVE  /\ Coerce(t, type) \in Texts \cup {NULL}
         /\ Coerce(t, type) \notin {"", "next", "clock"}
BY DEF Coerce, Parses, Number, Texts, Integers4, NULL

LEMMA StrippedText == ASSUME NEW t \in Texts PROVE Strip(t) \in Texts
BY DEF Strip, Texts

LEMMA ValueTyped ==
  ASSUME NEW c \in Column, NEW has \in BOOLEAN, NEW t \in Texts, NEW S
  PROVE  Value(c, has, t, S) \in Values
<1>1. Default(c) \in Values BY DEF Default, Literal, Values, Texts, Integers4, NULL
<1>. QED BY <1>1, CoercedText, StrippedText DEF Value, Values

LEMMA PeriodTyped ==
  ASSUME NEW line \in FileRows
  PROVE  Month(line) \in Texts \cup {NULL} /\ Quarter(line) \in Texts \cup {NULL}
BY FileRowsAssumption, CoercedText DEF Month, Quarter

LEMMA LinesTyped ==
  ASSUME NEW f \in File, NEW i \in Lines(f)
  PROVE  /\ i \in 1..MaxRows /\ f.rows[i] \in FileRows /\ f.has \in BOOLEAN
         /\ f.rows[i].month \in Texts /\ f.rows[i].quarter \in Texts /\ f.rows[i].cell \in Texts
<1>1. PICK n \in 0..MaxRows : f.rows \in [1..n -> FileRows] BY DEF File
<1>2. i \in 1..n BY <1>1 DEF Lines
<1>. QED BY <1>1, <1>2, BoundsAssumption, FileRowsAssumption DEF File

LEMMA ReadTyped == ASSUME NEW f \in File PROVE ReadOf(f) \in File
<1>1. [f EXCEPT !.rows = <<>>] \in File
  <2>1. PICK n \in 0..MaxRows : f.rows \in [1..n -> FileRows] BY DEF File
  <2>2. <<>> \in [1..0 -> FileRows] OBVIOUS
  <2>3. 0 \in 0..MaxRows BY BoundsAssumption
  <2>. QED BY <2>2, <2>3 DEF File
<1>. QED BY <1>1 DEF ReadOf

LEMMA NewRowsTyped ==
  ASSUME TypeOK, NEW f \in File, NEW S, copies < MaxCopies
  PROVE  /\ NewRows(f, copies + 1, S) \subseteq Rows
         /\ \A a \in NewRows(f, copies + 1, S) : a.by[1] = copies + 1
<1> SUFFICES ASSUME NEW i \in Lines(f)
             PROVE  LET a == [by |-> <<copies + 1, i>>, month |-> Month(f.rows[i]),
                              quarter |-> Quarter(f.rows[i]),
                              val |-> Value(col, f.has, f.rows[i].cell, S)]
                    IN  a \in Rows /\ a.by[1] = copies + 1
  BY DEF NewRows
<1>1. copies + 1 \in 1..MaxCopies BY BoundsAssumption DEF TypeOK
<1>2. i \in 1..MaxRows BY LinesTyped
<1>3. Month(f.rows[i]) \in Values /\ Quarter(f.rows[i]) \in Values
  BY LinesTyped, PeriodTyped DEF Values
<1>4. Value(col, f.has, f.rows[i].cell, S) \in Values
  BY LinesTyped, ValueTyped, ColumnsAssumption DEF TypeOK
<1>. QED BY <1>1, <1>2, <1>3, <1>4 DEF Rows

-----------------------------------------------------------------------------
(* Types *)

(* What a request is: TypeOK speaks of some of its fields only. *)
Periods == Texts \X Texts
Request == [at : Stages, file : File \cup {NoFile}, valid : BOOLEAN, shift : BOOLEAN,
            codes : SUBSET Codes, todo : SUBSET Periods, live : SUBSET Periods,
            bin : SUBSET Periods, copy : 0..MaxCopies]
Serving(q, n) == /\ q \in Request
                 /\ Waiting(q) => q.file \in File
                 /\ q.copy <= n
                 /\ q.at = "copied" => q.copy # 0
Typing == TypeOK /\ req \in [Reqs -> Request] /\ \A r \in Reqs : Serving(req[r], copies)

LEMMA NoReqServing ==
  ASSUME NEW n \in Nat
  PROVE  Serving(NoReq, n) /\ NoReq \in Request /\ NoReq.copy = 0 /\ NoReq.at = "idle"
BY BoundsAssumption DEF Serving, NoReq, Request, Stages, Waiting

LEMMA InitTyped == Init => Typing
<1> SUFFICES ASSUME Init PROVE Typing
  OBVIOUS
<1>1. \A r \in Reqs : req[r] = NoReq /\ Serving(NoReq, 0) BY NoReqServing DEF Init
<1>2. TypeOK
  <2>1. NoReq.file = NoFile /\ NoReq.at \in Stages /\ NoReq.copy = 0 BY DEF NoReq, Stages
  <2>2. bin \in Seq(Batches) /\ Len(bin) <= MaxBatches /\ DOMAIN bin = {}
    BY BoundsAssumption DEF Init
  <2>3. Archived = {} BY <2>2 DEF Archived
  <2>. QED BY <2>1, <2>2, <2>3, BoundsAssumption DEF Init, TypeOK
<1>3. req \in [Reqs -> Request] BY <1>1 DEF Init, Serving
<1>. QED BY <1>1, <1>2, <1>3 DEF Typing, Init

LEMMA ElementTyped == ASSUME NEW S, NEW q \in Seq(S), NEW i \in DOMAIN q PROVE q[i] \in S
  OBVIOUS

LEMMA OldBatches ==
  ASSUME Typing, NEW b \in DOMAIN bin
  PROVE  /\ bin[b] \in Batches /\ bin[b].listed \subseteq bin[b].rows
         /\ bin[b].rows \subseteq Archived /\ bin[b].rows \subseteq Rows
         /\ bin[b] = [rows |-> bin[b].rows, listed |-> bin[b].listed, active |-> bin[b].active]
         /\ bin[b].active \in BOOLEAN
<1>1. bin \in Seq(Batches) /\ bin[b].listed \subseteq bin[b].rows BY DEF Typing, TypeOK
<1>2. bin[b] \in Batches BY <1>1, ElementTyped
<1>3. bin[b].rows \subseteq Archived BY DEF Archived
<1>. QED BY <1>1, <1>2, <1>3 DEF Batches

(* A step of an upload, which gives it the record e and may add rows. *)
LEMMA Served ==
  ASSUME Typing, NEW r \in Reqs, NEW e, req' = [req EXCEPT ![r] = e], Serving(e, copies'),
         UNCHANGED <<col, bin, codes>>, known' = NoCodes \/ known' \subseteq CodesFor(col),
         live' \subseteq Rows, copies' \in 0..MaxCopies, copies <= copies',
         recorded' \subseteq 1..copies', \A a \in live' : a.by[1] <= copies'
  PROVE  Typing'
<1>0. copies \in Nat /\ copies' \in Nat BY BoundsAssumption DEF Typing, TypeOK
<1>1. \A q \in Reqs : Serving(req'[q], copies')
  <2>1. ASSUME NEW q \in Reqs, q # r PROVE Serving(req'[q], copies')
    <3>1. req'[q] = req[q] /\ req[q].copy \in Nat BY <2>1, BoundsAssumption DEF Typing, Request
    <3>. QED BY <1>0, <3>1 DEF Typing, Serving
  <2>2. req'[r] = e BY DEF Typing
  <2>. QED BY <2>1, <2>2
<1>2. req' \in [Reqs -> Request] BY <1>1 DEF Typing, Serving
<1>3. TypeOK'
  <2>1. \A q \in Reqs : /\ req'[q].at \in Stages
                        /\ req'[q].file = NoFile \/ req'[q].file \in File
                        /\ req'[q].copy \in 0..copies'
    <3>1. ASSUME NEW q \in Reqs PROVE req'[q].copy \in 0..copies'
      <4>1. req'[q].copy \in 0..MaxCopies /\ req'[q].copy <= copies' BY <1>1 DEF Serving, Request
      <4>. QED BY <1>0, <4>1
    <3>. QED BY <1>1, <3>1 DEF Serving, Request
  <2>2. \A a \in live' \cup Archived' : a.by[1] <= copies'
    <3>1. Archived' = Archived BY DEF Archived
    <3>2. ASSUME NEW a \in Archived PROVE a.by[1] <= copies'
      <4>0. PICK b \in DOMAIN bin : a \in bin[b].rows BY DEF Archived
      <4>1. a \in Rows BY <4>0, OldBatches
      <4>2. a.by[1] \in Nat /\ a.by[1] <= copies BY <4>1 DEF Typing, TypeOK, Rows
      <4>. QED BY <1>0, <4>2
    <3>. QED BY <3>1, <3>2
  <2>. QED BY <2>1, <2>2 DEF Typing, TypeOK
<1>. QED BY <1>1, <1>2, <1>3 DEF Typing

(* One that leaves the table alone. *)
LEMMA ServedAlone ==
  ASSUME Typing, NEW r \in Reqs, NEW e, req' = [req EXCEPT ![r] = e], Serving(e, copies),
         UNCHANGED <<col, live, bin, codes, copies>>, known' = known \/ known' = Known,
         recorded' = recorded \/ (recorded' = recorded \cup {req[r].copy} /\ req[r].copy # 0)
  PROVE  Typing'
<1>1. known' = NoCodes \/ known' \subseteq CodesFor(col) BY DEF Typing, TypeOK, Known
<1>2. recorded' \subseteq 1..copies' /\ copies' \in 0..MaxCopies /\ copies <= copies'
  <2>1. req[r].copy # 0 => req[r].copy \in 1..copies BY DEF Typing, TypeOK
  <2>2. recorded \subseteq 1..copies /\ copies \in 0..MaxCopies BY DEF Typing, TypeOK
  <2>3. recorded' \subseteq 1..copies BY <2>1, <2>2
  <2>. QED BY <2>2, <2>3, BoundsAssumption
<1>3. live' \subseteq Rows /\ \A a \in live' : a.by[1] <= copies' BY DEF Typing, TypeOK
<1>4. UNCHANGED <<col, bin, codes>> /\ Serving(e, copies') OBVIOUS
<1>. QED BY <1>1, <1>2, <1>3, <1>4, Served

(* A step of the other handlers, which changes no request and brings back  *)
(* or edits rows that were copied before.                                  *)
LEMMA Beside ==
  ASSUME Typing, UNCHANGED <<col, copies, recorded, req>>,
         codes' \subseteq CodesFor(col), known' = NoCodes \/ known' \subseteq CodesFor(col),
         live' \subseteq Rows, \A a \in live' : a.by[1] <= copies,
         bin' \in Seq(Batches), Len(bin') <= MaxBatches,
         \A b \in DOMAIN bin' : /\ bin'[b].listed \subseteq bin'[b].rows
                                /\ bin'[b].rows \subseteq live \cup Archived
  PROVE  Typing'
<1>1. \A a \in Archived' : a.by[1] <= copies BY DEF Archived, Typing, TypeOK
<1>. QED BY <1>1 DEF Typing, TypeOK

LEMMA CodesTyped == ASSUME NEW c \in Column PROVE CodesFor(c) \subseteq Codes
BY DEF CodesFor, Codes, Column

LEMMA KnownTyped == TypeOK => Known \subseteq CodesFor(col)
BY DEF TypeOK, Known

(* The request that Validate leaves. *)
Fresh(f, v, C, s, T) ==
  [NoReq EXCEPT !.at = "validated", !.file = f, !.valid = v, !.codes = C, !.shift = s, !.todo = T]
Loaded(f) == IF col.fk /\ HeaderOk(f) THEN Known ELSE {}

LEMMA FreshFields ==
  ASSUME NEW f \in File, NEW v \in BOOLEAN, NEW s \in BOOLEAN, NEW C \in SUBSET Codes,
         NEW T \in SUBSET Periods
  PROVE  /\ Fresh(f, v, C, s, T) \in Request
         /\ Fresh(f, v, C, s, T).at = "validated" /\ Fresh(f, v, C, s, T).file = f
         /\ Fresh(f, v, C, s, T).valid = v /\ Fresh(f, v, C, s, T).codes = C
         /\ Fresh(f, v, C, s, T).shift = s /\ Fresh(f, v, C, s, T).todo = T
         /\ Fresh(f, v, C, s, T).copy = 0
<1>1. ASSUME NEW q \in Request
      PROVE  LET e == [q EXCEPT !.at = "validated", !.file = f, !.valid = v, !.codes = C,
                                !.shift = s, !.todo = T]
             IN  /\ e \in Request /\ e.at = "validated" /\ e.file = f /\ e.valid = v
                 /\ e.codes = C /\ e.shift = s /\ e.todo = T /\ e.copy = q.copy
  BY DEF Request, Stages
<1>2. NoReq \in Request /\ NoReq.copy = 0 BY BoundsAssumption DEF NoReq, Request, Stages
<1>. QED BY <1>1, <1>2 DEF Fresh

LEMMA RawTyped == ASSUME NEW f \in File, NEW i \in Lines(f) PROVE Raw(f.rows[i]) \in Periods
BY LinesTyped DEF Raw, Periods

LEMMA ReturnedLines == ASSUME NEW f PROVE Returned(f) \subseteq Lines(f)
BY DEF Returned

LEMMA ValidateGives ==
  ASSUME Typing, NEW r \in Reqs, NEW f \in File, Validate(r, f)
  PROVE  /\ req[r].at = "idle" /\ req'[r].at = "validated" /\ req'[r].file = ReadOf(f)
         /\ ReadOf(f) \in File
         /\ req'[r].valid = Valid(f, Known) /\ req'[r].codes = Loaded(f)
         /\ req'[r].shift = (HeaderOk(f) /\ Shift(f)) /\ req'[r].todo = PeriodsOf(ReadOf(f))
         /\ req'[r] \in Request /\ req'[r].copy = 0
         /\ req' = [req EXCEPT ![r] = req'[r]]
         /\ \A q \in Reqs : q # r => req'[q] = req[q]
         /\ UNCHANGED <<col, live, bin, codes, copies, recorded>>
         /\ known' = known \/ known' = Known
<1> DEFINE C == Loaded(f)
           s == HeaderOk(f) /\ Shift(f)
           T == PeriodsOf(ReadOf(f))
<1>1. Valid(f, Known) \in BOOLEAN /\ s \in BOOLEAN BY DEF Valid
<1>2. ReadOf(f) \in File BY ReadTyped
<1>3. C \in SUBSET Codes
  <2>1. col \in Column BY ColumnsAssumption DEF Typing, TypeOK
  <2>. QED BY <2>1, KnownTyped, CodesTyped DEF Typing, Loaded
<1>4. T \in SUBSET Periods BY <1>2, RawTyped, ReturnedLines DEF PeriodsOf
<1>5. req' = [req EXCEPT ![r] = Fresh(ReadOf(f), Valid(f, Known), C, s, T)]
  BY DEF Validate, Fresh, Loaded
<1>6. /\ req[r].at = "idle" /\ UNCHANGED <<col, live, bin, codes, copies, recorded>>
      /\ known' = known \/ known' = Known
  BY DEF Validate
<1>. HIDE DEF C, s, T
<1>7. /\ req'[r] = Fresh(ReadOf(f), Valid(f, Known), C, s, T)
      /\ \A q \in Reqs : q # r => req'[q] = req[q]
      /\ req' = [req EXCEPT ![r] = req'[r]]
  BY <1>5 DEF Typing
<1> DEFINE e == Fresh(ReadOf(f), Valid(f, Known), C, s, T)
<1>8. /\ e \in Request /\ e.at = "validated" /\ e.file = ReadOf(f) /\ e.valid = Valid(f, Known)
      /\ e.codes = C /\ e.shift = s /\ e.todo = T /\ e.copy = 0
  BY <1>1, <1>2, <1>3, <1>4, FreshFields
<1>9. req'[r] = e BY <1>7
<1>. HIDE DEF e
<1>10. /\ req'[r] \in Request /\ req'[r].at = "validated" /\ req'[r].file = ReadOf(f)
       /\ req'[r].valid = Valid(f, Known) /\ req'[r].codes = Loaded(f)
       /\ req'[r].shift = (HeaderOk(f) /\ Shift(f)) /\ req'[r].todo = PeriodsOf(ReadOf(f))
       /\ req'[r].copy = 0
  BY <1>8, <1>9, Zenon DEF C, s, T
<1>. QED BY <1>2, <1>6, <1>7, <1>10

LEMMA ValidateTyped ==
  ASSUME Typing, NEW r \in Reqs, NEW f \in File, Validate(r, f)
  PROVE  Typing'
<1> DEFINE e == req'[r]
<1>1. copies \in Nat BY DEF Typing, TypeOK
<1>2. Serving(e, copies) BY <1>1, ValidateGives DEF Serving
<1>3. /\ req' = [req EXCEPT ![r] = e] /\ UNCHANGED <<col, live, bin, codes, copies>>
      /\ known' = known \/ known' = Known
      /\ recorded' = recorded
  BY ValidateGives
<1>. HIDE DEF e
<1>. QED BY <1>2, <1>3, ServedAlone

(* What one probe of the table leaves. *)
Raises(line) == Probeable(line) /\ "huge" \in {line.month, line.quarter}
Hits(q, line) == IF Probeable(line) /\ Live(line) THEN q.live \cup {Raw(line)} ELSE q.live
AfterProbe(q, T, L) == [q EXCEPT !.todo = T, !.live = L]
Refused == [NoReq EXCEPT !.at = "refused"]

LEMMA AfterProbeFields ==
  ASSUME NEW q \in Request, NEW n \in Nat, Serving(q, n), NEW T \in SUBSET Periods, NEW L \in SUBSET Periods
  PROVE  /\ Serving(AfterProbe(q, T, L), n)
         /\ AfterProbe(q, T, L).todo = T /\ AfterProbe(q, T, L).live = L
         /\ AfterProbe(q, T, L).at = q.at /\ AfterProbe(q, T, L).file = q.file
         /\ AfterProbe(q, T, L).valid = q.valid /\ AfterProbe(q, T, L).codes = q.codes
         /\ AfterProbe(q, T, L).shift = q.shift
BY DEF AfterProbe, Serving, Request, Waiting

LEMMA ProbeLiveGives ==
  ASSUME Typing, NEW r \in Reqs, NEW i \in 1..MaxRows, ProbeLive(r, i)
  PROVE  /\ req[r].at = "validated" /\ req[r].file \in File /\ i \in Lines(req[r].file)
         /\ \A q \in Reqs : q # r => req'[q] = req[q]
         /\ UNCHANGED <<col, live, bin, codes, known, copies, recorded>>
         /\ req' = [req EXCEPT ![r] = req'[r]]
         /\ \/ Raises(req[r].file.rows[i]) /\ req'[r] = Refused
            \/ /\ ~Raises(req[r].file.rows[i])
               /\ req'[r] = AfterProbe(req[r], req[r].todo \ {Raw(req[r].file.rows[i])},
                                               Hits(req[r], req[r].file.rows[i]))
<1> DEFINE f == req[r].file
           line == f.rows[i]
<1>1. /\ req[r].at = "validated" /\ i \in Lines(f)
      /\ UNCHANGED <<col, live, bin, codes, known, copies, recorded>>
  BY DEF ProbeLive
<1>2. f \in File BY <1>1 DEF Typing, Serving, Waiting
<1>3. CASE Raises(line)
  <2>1. req' = [req EXCEPT ![r] = Refused] BY <1>3 DEF ProbeLive, Raises, Refused
  <2>. QED BY <1>1, <1>2, <1>3, <2>1 DEF Typing
<1>4. CASE ~Raises(line)
  <2> DEFINE e == AfterProbe(req[r], req[r].todo \ {Raw(line)}, Hits(req[r], line))
  <2>1. req' = [req EXCEPT ![r] = e] BY <1>4 DEF ProbeLive, Raises, Typing, AfterProbe, Hits
  <2>. HIDE DEF e
  <2>2. req'[r] = e /\ req' = [req EXCEPT ![r] = req'[r]] /\ \A q \in Reqs : q # r => req'[q] = req[q]
    BY <2>1 DEF Typing
  <2>. QED BY <1>1, <1>2, <1>4, <2>2 DEF e
<1>. QED BY <1>3, <1>4

LEMMA RefusedServing == ASSUME NEW n \in Nat PROVE Serving(Refused, n) /\ Refused.at = "refused"
<1>1. ASSUME NEW q \in Request, q.copy = 0
      PROVE  Serving([q EXCEPT !.at = "refused"], n) /\ [q EXCEPT !.at = "refused"].at = "refused"
  BY <1>1 DEF Serving, Request, Stages, Waiting
<1>. QED BY <1>1, NoReqServing DEF Refused

LEMMA ProbeLiveTyped ==
  ASSUME Typing, NEW r \in Reqs, NEW i \in 1..MaxRows, ProbeLive(r, i) PROVE Typing'
<1> DEFINE f == req[r].file
           line == f.rows[i]
           e == req'[r]
           T == req[r].todo \ {Raw(line)}
           L == Hits(req[r], line)
<1>1. copies \in Nat BY DEF Typing, TypeOK
<1>2. f \in File /\ i \in Lines(f) BY ProbeLiveGives
<1>3. Raw(line) \in Periods BY <1>2, RawTyped
<1>4. Serving(e, copies)
  <2>1. e = Refused \/ e = AfterProbe(req[r], T, L) BY ProbeLiveGives
  <2>2. req[r] \in Request /\ Serving(req[r], copies) BY DEF Typing
  <2>3. req[r].todo \in SUBSET Periods /\ req[r].live \in SUBSET Periods BY <2>2 DEF Request
  <2>4. T \in SUBSET Periods /\ L \in SUBSET Periods BY <1>3, <2>3 DEF Hits
  <2>. HIDE DEF e, T, L
  <2>. QED BY <1>1, <2>1, <2>2, <2>4, AfterProbeFields, RefusedServing
<1>5. /\ req' = [req EXCEPT ![r] = e] /\ UNCHANGED <<col, live, bin, codes, known, copies, recorded>>
  BY ProbeLiveGives
<1>. HIDE DEF e
<1>. QED BY <1>4, <1>5, ServedAlone

(* What the probe of the bin leaves. *)
Found(f) == {Raw(f.rows[i]) : i \in {j \in Returned(f) : Binned(f.rows[j])}}
AfterBin(q, S) == [q EXCEPT !.at = "checked", !.bin = S]

LEMMA AfterBinFields ==
  ASSUME NEW q \in Request, NEW n \in Nat, Serving(q, n), q.file \in File, NEW S \in SUBSET Periods
  PROVE  /\ Serving(AfterBin(q, S), n)
         /\ AfterBin(q, S).todo = q.todo /\ AfterBin(q, S).live = q.live
         /\ AfterBin(q, S).at = "checked" /\ AfterBin(q, S).file = q.file
         /\ AfterBin(q, S).valid = q.valid /\ AfterBin(q, S).codes = q.codes
         /\ AfterBin(q, S).shift = q.shift /\ AfterBin(q, S).bin = S
BY DEF AfterBin, Serving, Request, Stages

LEMMA ProbeBinGives ==
  ASSUME Typing, NEW r \in Reqs, ProbeBin(r)
  PROVE  /\ req[r].at = "validated" /\ req[r].todo = {} /\ req[r].file \in File
         /\ req'[r] = AfterBin(req[r], Found(req[r].file))
         /\ Found(req[r].file) \in SUBSET Periods
         /\ req' = [req EXCEPT ![r] = req'[r]]
         /\ \A q \in Reqs : q # r => req'[q] = req[q]
         /\ UNCHANGED <<col, live, bin, codes, known, copies, recorded>>
<1> DEFINE e == AfterBin(req[r], Found(req[r].file))
<1>1. /\ req[r].at = "validated" /\ req[r].todo = {}
      /\ UNCHANGED <<col, live, bin, codes, known, copies, recorded>>
      /\ req' = [req EXCEPT ![r] = e]
  BY DEF ProbeBin, Typing, AfterBin, Found
<1>2. req[r].file \in File BY <1>1 DEF Typing, Serving, Waiting
<1>3. Found(req[r].file) \in SUBSET Periods BY <1>2, RawTyped, ReturnedLines DEF Found
<1>. HIDE DEF e
<1>4. req'[r] = e /\ req' = [req EXCEPT ![r] = req'[r]] /\ \A q \in Reqs : q # r => req'[q] = req[q]
  BY <1>1 DEF Typing
<1>. QED BY <1>1, <1>2, <1>3, <1>4 DEF e

LEMMA ProbeBinTyped == ASSUME Typing, NEW r \in Reqs, ProbeBin(r) PROVE Typing'
<1>0. copies \in Nat /\ req[r] \in Request /\ Serving(req[r], copies) BY DEF Typing, TypeOK
<1>1. Serving(req'[r], copies) BY <1>0, ProbeBinGives, AfterBinFields
<1>2. /\ req' = [req EXCEPT ![r] = req'[r]]
      /\ UNCHANGED <<col, live, bin, codes, known, copies, recorded>>
  BY ProbeBinGives
<1>. QED BY <1>1, <1>2, ServedAlone

LEMMA CopyTyped == ASSUME Typing, NEW r \in Reqs, Copy(r) PROVE Typing'
<1> DEFINE f == req[r].file
           rows == NewRows(f, copies + 1, Known)
<1>1. f \in File /\ copies < MaxCopies /\ copies \in Nat
  BY DEF Copy, Typing, TypeOK, Serving, Waiting
<1>2. rows \subseteq Rows /\ \A a \in rows : a.by[1] = copies + 1
  BY <1>1, NewRowsTyped DEF Typing
<1>3. /\ UNCHANGED <<col, bin, codes, recorded>>
      /\ known' = known \/ known' = Known
  BY DEF Copy
<1>5. CASE Accepts(rows)
  <2> DEFINE e == [NoReq EXCEPT !.at = "copied", !.copy = copies + 1]
  <2>1. req' = [req EXCEPT ![r] = e] BY <1>5 DEF Copy
  <2>2. live' = live \cup rows /\ copies' = copies + 1 BY <1>5 DEF Copy
  <2>. HIDE DEF rows
  <2>3. Serving(e, copies')
    <3>1. copies + 1 \in 0..MaxCopies /\ copies + 1 # 0 /\ copies + 1 <= copies'
      BY <1>1, <2>2, BoundsAssumption
    <3>2. ASSUME NEW q \in Request, NEW n \in 0..MaxCopies, n # 0, n <= copies'
          PROVE  Serving([q EXCEPT !.at = "copied", !.copy = n], copies')
      BY <3>2 DEF Serving, Request, Stages, Waiting
    <3>. QED BY <1>1, <3>1, <3>2, NoReqServing
  <2>. HIDE DEF e
  <2>4. \A a \in live' : a.by[1] <= copies'
    <3>1. \A a \in live : a.by[1] <= copies /\ a.by[1] \in Nat BY DEF Typing, TypeOK, Rows
    <3>. QED BY <1>1, <1>2, <2>2, <3>1
  <2>5. copies' \in 0..MaxCopies /\ copies <= copies' /\ recorded' \subseteq 1..copies'
    BY <1>1, <1>3, <2>2, BoundsAssumption DEF Typing, TypeOK
  <2>6. live' \subseteq Rows BY <1>2, <2>2 DEF Typing, TypeOK
  <2>7. known' = NoCodes \/ known' \subseteq CodesFor(col) BY <1>3, KnownTyped DEF Typing, TypeOK
  <2>8. UNCHANGED <<col, bin, codes>> BY <1>3
  <2>. QED BY <2>1, <2>3, <2>4, <2>5, <2>6, <2>7, <2>8, Served
<1>6. CASE ~Accepts(rows)
  <2> DEFINE e == Refused
  <2>1. req' = [req EXCEPT ![r] = e] BY <1>6 DEF Copy, Refused
  <2>2. live' = live /\ copies' = copies BY <1>6 DEF Copy
  <2>3. Serving(e, copies) BY <1>1, RefusedServing
  <2>. HIDE DEF e
  <2>. QED BY <1>3, <2>1, <2>2, <2>3, ServedAlone
<1>. QED BY <1>5, <1>6

-----------------------------------------------------------------------------
(* The other handlers *)

LEMMA DeleteTyped == ASSUME Typing, NEW r \in Reqs, NEW S \in SUBSET live, Delete(r, S) PROVE Typing'
<1> DEFINE c == [rows |-> S, listed |-> S, active |-> TRUE]
<1>1. /\ UNCHANGED <<col, copies, recorded, req, codes, known>>
      /\ live' = live \ S /\ bin' = Append(bin, c) /\ Len(bin) < MaxBatches
  BY DEF Delete
<1>2. bin \in Seq(Batches) /\ c \in Batches BY DEF Typing, TypeOK, Batches
<1>3. c.rows = S /\ c.listed = S OBVIOUS
<1>. HIDE DEF c
<1>4. bin' \in Seq(Batches) /\ Len(bin') <= MaxBatches BY <1>1, <1>2, BoundsAssumption
<1>5. \A b \in DOMAIN bin' : (b \in DOMAIN bin /\ bin'[b] = bin[b]) \/ bin'[b] = c BY <1>1, <1>2
<1>6. \A b \in DOMAIN bin' : /\ bin'[b].listed \subseteq bin'[b].rows
                             /\ bin'[b].rows \subseteq live \cup Archived
  BY <1>3, <1>5, OldBatches
<1>7. live' \subseteq Rows /\ \A a \in live' : a.by[1] <= copies BY <1>1 DEF Typing, TypeOK
<1>8. codes' \subseteq CodesFor(col) /\ (known' = NoCodes \/ known' \subseteq CodesFor(col))
  BY <1>1 DEF Typing, TypeOK
<1>. QED BY <1>1, <1>4, <1>6, <1>7, <1>8, Beside

(* A restore inserts rows of a batch and changes what else it says. *)
LEMMA RestoredTyped ==
  ASSUME Typing, NEW b \in DOMAIN bin, NEW S \in SUBSET bin[b].rows, Insert(S),
         NEW c \in Batches, c.rows = bin[b].rows, c.listed \subseteq c.rows,
         bin' = [bin EXCEPT ![b] = c], UNCHANGED <<col, codes, known, copies, recorded, req>>
  PROVE  Typing'
<1>1. bin \in Seq(Batches) /\ Len(bin) <= MaxBatches BY DEF Typing, TypeOK
<1>2. bin' \in Seq(Batches) /\ Len(bin') = Len(bin) /\ DOMAIN bin' = DOMAIN bin BY <1>1
<1>3. \A d \in DOMAIN bin' : bin'[d] = IF d = b THEN c ELSE bin[d] BY <1>1
<1>4. \A d \in DOMAIN bin' : /\ bin'[d].listed \subseteq bin'[d].rows
                             /\ bin'[d].rows \subseteq live \cup Archived
  BY <1>2, <1>3, OldBatches
<1>5. live' \subseteq live \cup S BY DEF Insert, Missing
<1>6. live' \subseteq Rows /\ \A a \in live' : a.by[1] <= copies
  <2>1. S \subseteq Rows /\ S \subseteq Archived BY OldBatches
  <2>. QED BY <1>5, <2>1 DEF Typing, TypeOK
<1>7. codes' \subseteq CodesFor(col) /\ (known' = NoCodes \/ known' \subseteq CodesFor(col))
  BY DEF Typing, TypeOK
<1>8. Len(bin') <= MaxBatches BY <1>1, <1>2
<1>. QED BY <1>2, <1>4, <1>6, <1>7, <1>8, Beside

Closed(c) == [c EXCEPT !.active = FALSE]
Unlisted(c, L, A) == [c EXCEPT !.listed = L, !.active = A]
LEMMA BatchFields ==
  ASSUME NEW c \in Batches, NEW L \in SUBSET c.listed, NEW A \in BOOLEAN
  PROVE  /\ Closed(c) \in Batches /\ Closed(c).rows = c.rows /\ Closed(c).listed = c.listed
         /\ Unlisted(c, L, A) \in Batches
         /\ Unlisted(c, L, A).rows = c.rows /\ Unlisted(c, L, A).listed = L
BY DEF Batches, Closed, Unlisted

LEMMA RestoreBatchTyped ==
  ASSUME Typing, NEW r \in Reqs, NEW b \in DOMAIN bin, RestoreBatch(r, b) PROVE Typing'
<1> DEFINE c == Closed(bin[b])
<1>1. /\ UNCHANGED <<col, codes, known, copies, recorded, req>> /\ Insert(bin[b].rows)
      /\ bin' = [bin EXCEPT ![b] = c]
  BY DEF RestoreBatch, Closed
<1>2. c \in Batches /\ c.rows = bin[b].rows /\ c.listed = bin[b].listed
  BY OldBatches, BatchFields
<1>. HIDE DEF c
<1>. QED BY <1>1, <1>2, OldBatches, RestoredTyped

LEMMA RestoreRowTyped ==
  ASSUME Typing, NEW r \in Reqs, NEW b \in DOMAIN bin, NEW row \in bin[b].listed, RestoreRow(r, b, row)
  PROVE  Typing'
<1> DEFINE L == bin[b].listed \ {row}
           A == bin[b].active /\ bin[b].listed # {row}
           c == Unlisted(bin[b], L, A)
<1>1. /\ UNCHANGED <<col, codes, known, copies, recorded, req>> /\ Insert({row})
      /\ bin' = [bin EXCEPT ![b] = c]
  BY DEF RestoreRow, Unlisted
<1>2. {row} \subseteq bin[b].rows /\ L \in SUBSET bin[b].listed BY OldBatches
<1>3. A \in BOOLEAN BY OldBatches
<1>. HIDE DEF L, A
<1>4. c \in Batches /\ c.rows = bin[b].rows /\ c.listed = L
  <2>1. bin[b] \in Batches BY OldBatches
  <2>. QED BY <1>2, <1>3, <2>1, BatchFields
<1>. HIDE DEF c
<1>5. c.listed \subseteq c.rows BY <1>2, <1>4, OldBatches
<1>. QED BY <1>1, <1>2, <1>4, <1>5, RestoredTyped

LEMMA EditTyped ==
  ASSUME Typing, NEW r \in Reqs, NEW row \in live, NEW line \in FileRows, EditRow(r, row, Month(line))
  PROVE  Typing'
<1> DEFINE edited == [row EXCEPT !.month = Month(line)]
<1>1. /\ UNCHANGED <<col, bin, codes, known, copies, recorded, req>>
      /\ live' = (live \ {row}) \cup {edited}
  BY DEF EditRow
<1>2. row \in Rows /\ row.by[1] <= copies BY DEF Typing, TypeOK
<1>3. Month(line) \in Values BY PeriodTyped DEF Values
<1>4. edited \in Rows /\ edited.by = row.by BY <1>2, <1>3 DEF Rows
<1>. HIDE DEF edited
<1>5. live' \subseteq Rows /\ \A a \in live' : a.by[1] <= copies BY <1>1, <1>2, <1>4 DEF Typing, TypeOK
<1>6. /\ codes' \subseteq CodesFor(col) /\ (known' = NoCodes \/ known' \subseteq CodesFor(col))
      /\ bin' \in Seq(Batches) /\ Len(bin') <= MaxBatches
  BY <1>1 DEF Typing, TypeOK
<1>7. \A b \in DOMAIN bin' : /\ bin'[b].listed \subseteq bin'[b].rows
                             /\ bin'[b].rows \subseteq live \cup Archived
  BY <1>1, OldBatches
<1>. QED BY <1>1, <1>5, <1>6, <1>7, Beside

(* One that changes neither the table nor the bin. *)
LEMMA BesideAlone ==
  ASSUME Typing, UNCHANGED <<col, live, bin, copies, recorded, req>>,
         codes' \subseteq CodesFor(col), known' = known \/ known' = NoCodes
  PROVE  Typing'
<1>1. live' \subseteq Rows /\ \A a \in live' : a.by[1] <= copies BY DEF Typing, TypeOK
<1>2. bin' \in Seq(Batches) /\ Len(bin') <= MaxBatches BY DEF Typing, TypeOK
<1>3. \A b \in DOMAIN bin' : /\ bin'[b].listed \subseteq bin'[b].rows
                             /\ bin'[b].rows \subseteq live \cup Archived
  BY OldBatches
<1>4. known' = NoCodes \/ known' \subseteq CodesFor(col) BY DEF Typing, TypeOK
<1>. QED BY <1>1, <1>2, <1>3, <1>4, Beside

LEMMA AsideTyped == ASSUME Typing, NEW r \in Reqs, Aside(r) PROVE Typing'
<1>1. CASE DropKnown(r)
  BY <1>1, BesideAlone DEF DropKnown, Typing, TypeOK
<1>2. ASSUME NEW c \in CodesFor(col), MoveCode(r, c) PROVE Typing'
  <2>1. codes' \subseteq CodesFor(col) BY <1>2 DEF MoveCode, Typing, TypeOK
  <2>. QED BY <1>2, <2>1, BesideAlone DEF MoveCode
<1>. QED BY <1>1, <1>2, DeleteTyped, RestoreBatchTyped, RestoreRowTyped, EditTyped DEF Aside

LEMMA StepTyped == Typing /\ [Next]_vars => Typing'
<1> SUFFICES ASSUME Typing, [Next]_vars PROVE Typing'
  OBVIOUS
<1>0. copies \in Nat BY DEF Typing, TypeOK
<1>1. ASSUME NEW r \in Reqs, Report(r) \/ Abort(r) PROVE Typing'
  <2>1. UNCHANGED <<col, live, bin, codes, known, copies, recorded>> /\ req' = [req EXCEPT ![r] = NoReq]
    BY <1>1 DEF Report, Abort
  <2>2. Serving(NoReq, copies) BY <1>0, NoReqServing
  <2>. QED BY <2>1, <2>2, ServedAlone
<1>2. ASSUME NEW r \in Reqs, RecordUpload(r) PROVE Typing'
  <2>1. /\ UNCHANGED <<col, live, bin, codes, known, copies>>
        /\ recorded' = recorded \cup {req[r].copy} /\ req' = [req EXCEPT ![r] = NoReq]
    BY <1>2 DEF RecordUpload
  <2>2. Serving(NoReq, copies) BY <1>0, NoReqServing
  <2>3. req[r].copy # 0 BY <1>2 DEF RecordUpload, Typing, Serving
  <2>. QED BY <2>1, <2>2, <2>3, ServedAlone
<1>3. ASSUME NEW r \in Reqs, Upload(r) PROVE Typing'
  BY <1>1, <1>2, <1>3, ValidateTyped, ProbeLiveTyped, ProbeBinTyped, CopyTyped DEF Upload
<1>4. CASE UNCHANGED vars
  BY <1>4, BesideAlone DEF vars, Typing, TypeOK
<1>. QED BY <1>3, <1>4, AsideTyped, UploadersAssumption DEF Next

LEMMA AlwaysTyped == Spec => []Typing
BY InitTyped, StepTyped, PTL DEF Spec

(* Every variable keeps its type, whatever files are uploaded; rows come   *)
(* from uploads that were copied, and only those are recorded.             *)
THEOREM TypeCorrect == Spec => []TypeOK
<1>1. Typing => TypeOK BY DEF Typing
<1>. QED BY <1>1, AlwaysTyped, PTL

-----------------------------------------------------------------------------
(* What a step of a request leaves of the others *)

(* Steps of an upload that end its way to COPY. *)
LEMMA Endings ==
  ASSUME Typing, NEW r \in Reqs, Report(r) \/ Abort(r) \/ RecordUpload(r) \/ Copy(r)
  PROVE  /\ ~Waiting(req'[r])
         /\ \A q \in Reqs : q # r => req'[q] = req[q]
         /\ col' = col
<1>1. ~Waiting(NoReq) BY DEF NoReq, Waiting
<1>2. CASE Report(r) \/ Abort(r) \/ RecordUpload(r)
  BY <1>1, <1>2 DEF Report, Abort, RecordUpload, Typing
<1>3. CASE Copy(r)
  <2> DEFINE done == [NoReq EXCEPT !.at = "copied", !.copy = copies + 1]
  <2>1. done.at = "copied" /\ Refused.at = "refused" BY DEF NoReq, Refused
  <2>2. req' = [req EXCEPT ![r] = done] \/ req' = [req EXCEPT ![r] = Refused]
    BY <1>3 DEF Copy, Refused
  <2>3. col' = col BY <1>3 DEF Copy
  <2>. HIDE DEF done
  <2>. QED BY <2>1, <2>2, <2>3 DEF Typing, Waiting
<1>. QED BY <1>2, <1>3

LEMMA Asides ==
  ASSUME NEW r \in Reqs, Aside(r)
  PROVE  req' = req /\ col' = col /\ copies' = copies
BY DEF Aside, Delete, RestoreBatch, RestoreRow, EditRow, MoveCode, DropKnown

(* A request on its way to COPY is as it was, has just been validated, or  *)
(* has made a probe.                                                       *)
LEMMA OnTheWay ==
  ASSUME Typing, [Next]_vars, NEW r \in Reqs, Waiting(req'[r])
  PROVE  /\ col' = col
         /\ \/ req'[r] = req[r]
            \/ \E f \in File : Validate(r, f)
            \/ \E i \in 1..MaxRows : ProbeLive(r, i)
            \/ ProbeBin(r)
<1>1. ASSUME NEW q \in Reqs, Upload(q), q # r PROVE req'[r] = req[r] /\ col' = col
  BY <1>1, ValidateGives, ProbeLiveGives, ProbeBinGives, Endings DEF Upload
<1>2. ASSUME Upload(r)
      PROVE  /\ col' = col
             /\ \/ \E f \in File : Validate(r, f)
                \/ \E i \in 1..MaxRows : ProbeLive(r, i)
                \/ ProbeBin(r)
  BY <1>2, ValidateGives, ProbeLiveGives, ProbeBinGives, Endings DEF Upload
<1>. QED BY <1>1, <1>2, Asides, UploadersAssumption DEF Next, vars

(* The probes leave what validation found. *)
LEMMA ProbesKeep ==
  ASSUME Typing, NEW r \in Reqs, Waiting(req'[r]), ProbeBin(r) \/ \E i \in 1..MaxRows : ProbeLive(r, i)
  PROVE  /\ Waiting(req[r])
         /\ req'[r].file = req[r].file /\ req'[r].valid = req[r].valid
         /\ req'[r].codes = req[r].codes /\ req'[r].shift = req[r].shift
         /\ live' = live
<1>0. copies \in Nat /\ req[r] \in Request /\ Serving(req[r], copies) BY DEF Typing, TypeOK
<1>1. CASE ProbeBin(r)
  BY <1>0, <1>1, ProbeBinGives, AfterBinFields DEF Waiting
<1>2. ASSUME NEW i \in 1..MaxRows, ProbeLive(r, i)
      PROVE  /\ req[r].at = "validated" /\ live' = live
             /\ req'[r].file = req[r].file /\ req'[r].valid = req[r].valid
             /\ req'[r].codes = req[r].codes /\ req'[r].shift = req[r].shift
  <2> DEFINE f == req[r].file
             T == req[r].todo \ {Raw(f.rows[i])}
             L == Hits(req[r], f.rows[i])
  <2>1. f \in File /\ i \in Lines(f) /\ req[r].at = "validated" /\ live' = live
    BY <1>2, ProbeLiveGives
  <2>2. T \in SUBSET Periods /\ L \in SUBSET Periods
    BY <1>0, <2>1, RawTyped DEF Request, Hits
  <2>3. req'[r] # Refused BY <1>0, RefusedServing DEF Waiting
  <2>4. req'[r] = AfterProbe(req[r], T, L) BY <1>2, <2>3, ProbeLiveGives
  <2>. HIDE DEF T, L
  <2>. QED BY <1>0, <2>1, <2>2, <2>4, AfterProbeFields
<1>. QED BY <1>1, <1>2 DEF Waiting

(* The history of one request: what it says while the request is on its    *)
(* way, and when it begins.                                                *)
LEMMA Watched ==
  ASSUME [Next]_vars, NEW r \in Reqs
  PROVE  \/ UNCHANGED vars
         \/ /\ Waiting(req[r]) /\ Waiting(req'[r])
            /\ kept'[r] = kept[r] \cap live' /\ span'[r] = span[r] \cup Cadences(live')
         \/ /\ ~(Waiting(req[r]) /\ Waiting(req'[r]))
            /\ kept'[r] = live' /\ span'[r] = Cadences(live')
BY DEF Next, Watch

(* No table changes its kind. *)
LEMMA SameCol == ASSUME [Next]_vars PROVE col' = col
BY DEF Next, Upload, Aside, vars, Validate, ProbeLive, ProbeBin, Report, Copy, RecordUpload, Abort,
       Delete, RestoreBatch, RestoreRow, EditRow, MoveCode, DropKnown

-----------------------------------------------------------------------------
(* What a validated file is *)

PassedOf(q) == Waiting(q) /\ q.valid => /\ Valid(q.file, q.codes)
                                        /\ q.codes \subseteq CodesFor(col)
Passed == \A r \in Reqs : PassedOf(req[r])

(* Which codes are known says nothing of a column without a foreign key. *)
LEMMA CodesIrrelevant ==
  ASSUME ~col.fk, NEW f, NEW A, NEW B
  PROVE  Valid(f, A) => Valid(f, B)
<1>1. ASSUME NEW t PROVE CellOk(col, t, A) => CellOk(col, t, B) BY DEF CellOk
<1>2. ASSUME NEW t
      PROVE  /\ CellOk(MonthColumn, t, A) => CellOk(MonthColumn, t, B)
             /\ CellOk(QuarterColumn, t, A) => CellOk(QuarterColumn, t, B)
  BY DEF CellOk, MonthColumn, QuarterColumn, PeriodColumn
<1>. QED BY <1>1, <1>2 DEF Valid, LineOk

LEMMA PassedInit == Init => Passed
BY DEF Init, Passed, PassedOf, Waiting, NoReq

LEMMA PassedStep == Typing /\ Passed /\ [Next]_vars => Passed'
<1> SUFFICES ASSUME Typing, Passed, [Next]_vars PROVE Passed'
  OBVIOUS
<1>1. col' = col BY SameCol
<1> SUFFICES ASSUME NEW r \in Reqs, Waiting(req'[r]), req'[r].valid
             PROVE  Valid(req'[r].file, req'[r].codes) /\ req'[r].codes \subseteq CodesFor(col)
  BY <1>1 DEF Passed, PassedOf, Valid, HeaderOk, LineOk, LineCadenceOk, Dated
<1>2. ASSUME NEW f \in File, Validate(r, f)
      PROVE  Valid(req'[r].file, req'[r].codes) /\ req'[r].codes \subseteq CodesFor(col)
  <2>1. Valid(f, Known) /\ HeaderOk(f) BY <1>2, ValidateGives DEF Valid
  <2>2. req'[r].file = f BY <1>2, <2>1, ValidateGives DEF ReadOf
  <2>3. req'[r].codes = IF col.fk THEN Known ELSE {} BY <1>2, <2>1, ValidateGives DEF Loaded
  <2>. QED BY <2>1, <2>2, <2>3, CodesIrrelevant, KnownTyped DEF Typing
<1>3. CASE req'[r] = req[r]
  BY <1>3 DEF Passed, PassedOf
<1>4. ASSUME /\ req'[r].file = req[r].file /\ req'[r].codes = req[r].codes
             /\ req'[r].valid = req[r].valid /\ Waiting(req[r])
      PROVE  Valid(req'[r].file, req'[r].codes) /\ req'[r].codes \subseteq CodesFor(col)
  BY <1>4 DEF Passed, PassedOf
<1>. QED BY <1>2, <1>3, <1>4, OnTheWay, ProbesKeep

LEMMA AlwaysPassed == Spec => [](Typing /\ Passed)
<1>1. Init => Typing /\ Passed BY InitTyped, PassedInit
<1>2. Typing /\ Passed /\ [Next]_vars => (Typing /\ Passed)' BY StepTyped, PassedStep
<1>. QED BY <1>1, <1>2, PTL DEF Spec

-----------------------------------------------------------------------------
(* The rows that COPY adds *)

LEMMA CoercedEmpty ==
  ASSUME NEW t \in Texts, Parses(t, "int4")
  PROVE  Coerce(t, "int4") = NULL <=> t = ""
BY DEF Coerce, Parses, Number, Numeric, Texts, Integers4, NULL

LEMMA PeriodParses ==
  ASSUME NEW f \in File, NEW C, Valid(f, C), NEW i \in Lines(f), Dated
  PROVE  Parses(f.rows[i].month, "int4") /\ Parses(f.rows[i].quarter, "int4")
<1> DEFINE line == f.rows[i]
<1>1. line \in FileRows BY LinesTyped
<1>2. CellOk(MonthColumn, line.month, C) /\ (HasQuarter => CellOk(QuarterColumn, line.quarter, C))
  BY DEF Valid, LineOk
<1>3. Parses(line.month, "int4") /\ (HasQuarter => Parses(line.quarter, "int4"))
  BY <1>2 DEF CellOk, MonthColumn, QuarterColumn, PeriodColumn
<1>4. ~HasQuarter => Parses(line.quarter, "int4") BY <1>1, QuarterAssumption DEF Parses
<1>. QED BY <1>3, <1>4

(* A row copied from a line that passed is of the cadence of the line. *)
LEMMA CadenceKept ==
  ASSUME NEW f \in File, NEW C, Valid(f, C), NEW i \in Lines(f), Dated
  PROVE  StoredCadence(Month(f.rows[i]), Quarter(f.rows[i]))
           = Cadence(f.rows[i].month, f.rows[i].quarter)
<1> DEFINE line == f.rows[i]
<1>1. line \in FileRows /\ line.month \in Texts /\ line.quarter \in Texts BY LinesTyped
<1>2. Parses(line.month, "int4") /\ Parses(line.quarter, "int4") BY PeriodParses
<1>4. Month(line) = NULL <=> line.month = "" BY <1>1, <1>2, CoercedEmpty DEF Month
<1>5. Quarter(line) = NULL <=> line.quarter = ""
  BY <1>1, <1>2, CoercedEmpty, QuarterAssumption DEF Quarter
<1>6. Month(line) # "" /\ Quarter(line) # ""
  <2>1. Coerce(line.month, "int4") # "" /\ Coerce(line.quarter, "int4") # ""
    BY <1>1, CoercedText
  <2>. QED BY <2>1 DEF Month, Quarter, NULL
<1>. HIDE DEF line
<1>7. Text(Month(line)) = "" <=> line.month = "" BY <1>4, <1>6 DEF Text
<1>8. Text(Quarter(line)) = "" <=> line.quarter = "" BY <1>5, <1>6 DEF Text
<1>9. StoredCadence(Month(line), Quarter(line)) = Cadence(line.month, line.quarter)
  BY <1>7, <1>8 DEF StoredCadence, Cadence
<1>. QED BY <1>9 DEF line

LEMMA NewRowsCadence ==
  ASSUME NEW f \in File, NEW C, Valid(f, C), NEW n, NEW K, NEW a \in NewRows(f, n, K), Dated
  PROVE  \E i \in Lines(f) : StoredCadence(a.month, a.quarter)
                               = Cadence(f.rows[i].month, f.rows[i].quarter)
<1>1. PICK i \in Lines(f) : a.month = Month(f.rows[i]) /\ a.quarter = Quarter(f.rows[i])
  BY DEF NewRows
<1>. QED BY <1>1, CadenceKept

(* Uploads are counted by COPY alone. *)
LEMMA CountedByCopy ==
  ASSUME [Next]_vars, copies' # copies
  PROVE  \E r \in Reqs : /\ Copy(r)
                         /\ live' = live \cup NewRows(req[r].file, copies + 1, Known)
<1>1. ASSUME NEW r \in Reqs, Copy(r)
      PROVE  live' = live \cup NewRows(req[r].file, copies + 1, Known)
  BY <1>1 DEF Copy
<1>2. ASSUME NEW r \in Reqs, Upload(r) PROVE Copy(r)
  BY <1>2 DEF Upload, Validate, ProbeLive, ProbeBin, Report, RecordUpload, Abort
<1>. QED BY <1>1, <1>2, Asides, UploadersAssumption DEF Next, vars

(* A request that copies has passed. *)
LEMMA CopyPassed ==
  ASSUME Typing, Passed, NEW r \in Reqs, Copy(r)
  PROVE  /\ req[r].file \in File
         /\ Valid(req[r].file, req[r].codes) /\ req[r].codes \subseteq CodesFor(col)
BY DEF Typing, Serving, Passed, PassedOf, Waiting, Copy

(* Without a period both cells are NULL. *)
LEMMA Undated ==
  ASSUME ~Dated, NEW f, NEW n, NEW K, NEW a \in NewRows(f, n, K)
  PROVE  StoredCadence(a.month, a.quarter) # "invalid"
<1>1. a.month = NULL /\ a.quarter = NULL BY DEF NewRows, Month, Quarter
<1>2. Text(a.month) = "" /\ Text(a.quarter) = "" BY <1>1 DEF Text
<1>. QED BY <1>2 DEF StoredCadence, Cadence

LEMMA CopiesOfOneCadence ==
  ASSUME Typing, Passed, [Next]_vars, copies' # copies, NEW a \in live' \ live, HasQuarter
  PROVE  StoredCadence(a.month, a.quarter) # "invalid"
<1>1. PICK r \in Reqs : Copy(r) /\ a \in NewRows(req[r].file, copies + 1, Known)
  BY CountedByCopy
<1> DEFINE f == req[r].file
<1>2. f \in File /\ Valid(f, req[r].codes) BY <1>1, CopyPassed
<1>3. CASE Dated
  <2>1. PICK i \in Lines(f) : StoredCadence(a.month, a.quarter)
                                = Cadence(f.rows[i].month, f.rows[i].quarter)
    BY <1>1, <1>2, <1>3, NewRowsCadence
  <2>2. Cadence(f.rows[i].month, f.rows[i].quarter) # "invalid"
    BY <1>2, <1>3 DEF Valid, LineOk, LineCadenceOk
  <2>. QED BY <2>1, <2>2
<1>4. CASE ~Dated
  BY <1>1, <1>4, Undated
<1>. QED BY <1>3, <1>4

(* validation.py:289, for any file: no row that is both monthly and        *)
(* quarterly is ever copied into a table with both columns.                *)
THEOREM CopiesHaveOneCadence == Spec => CopiedRowsHaveOneCadence
<1> DEFINE A == copies' # copies => \A a \in live' \ live :
                   HasQuarter => StoredCadence(a.month, a.quarter) # "invalid"
<1>1. Typing /\ Passed /\ [Next]_vars => A BY CopiesOfOneCadence
<1>2. A => [A]_vars
  OBVIOUS
<1>. QED BY <1>1, <1>2, AlwaysPassed, PTL DEF Spec, CopiedRowsHaveOneCadence

-----------------------------------------------------------------------------
(* What the probes have looked at *)

(* Of each period that has been looked for: its numbers fit their columns, *)
(* and it is warned of if a row has had it all along.                      *)
Looked(q, line, standing) ==
  Raw(line) \notin q.todo /\ Probeable(line) =>
     /\ "huge" \notin {line.month, line.quarter}
     /\ (\E a \in standing : Stored(a, Month(line), Quarter(line))) => Raw(line) \in q.live
LookedOf(q, standing) ==
  /\ Waiting(q) => \A i \in Returned(q.file) : Looked(q, q.file.rows[i], standing)
  /\ q.at = "checked" => q.todo = {}
LookedAt == \A r \in Reqs : kept[r] \subseteq live /\ LookedOf(req[r], kept[r])

LEMMA LookedInit == Init => LookedAt
BY DEF Init, LookedAt, LookedOf, Waiting, NoReq

LEMMA KeptStays ==
  ASSUME LookedAt, [Next]_vars, NEW r \in Reqs
  PROVE  kept'[r] \subseteq live' /\ (Waiting(req[r]) /\ Waiting(req'[r]) => kept'[r] \subseteq kept[r])
BY Watched DEF LookedAt, vars

(* _coerce_scalar and _coerce agree on the cells that are looked for. *)
LEMMA SameScalar ==
  ASSUME NEW line \in FileRows, Probeable(line), Dated
  PROVE  Scalar(line.month) = Month(line) /\ Scalar(line.quarter) = Quarter(line)
<1>1. ASSUME NEW t, Parses(t, "int4") PROVE Scalar(t) = Coerce(t, "int4")
  BY <1>1 DEF Scalar, Coerce, Numeric
<1>2. ~HasQuarter => Scalar(line.quarter) = NULL BY QuarterAssumption DEF Scalar
<1>. QED BY <1>1, <1>2 DEF Probeable, Month, Quarter

LEMMA LookedByProbe ==
  ASSUME Typing, LookedAt, [Next]_vars, NEW r \in Reqs, NEW j \in 1..MaxRows, ProbeLive(r, j),
         Waiting(req'[r])
  PROVE  LookedOf(req'[r], kept'[r])
<1> DEFINE f == req[r].file
           T == req[r].todo \ {Raw(f.rows[j])}
           L == Hits(req[r], f.rows[j])
<1>0. copies \in Nat /\ req[r] \in Request /\ Serving(req[r], copies) BY DEF Typing, TypeOK
<1>1. f \in File /\ j \in Lines(f) /\ req[r].at = "validated" /\ live' = live
  BY ProbeLiveGives
<1>2. req'[r] # Refused BY <1>0, RefusedServing DEF Waiting
<1>3. req'[r] = AfterProbe(req[r], T, L) /\ ~Raises(f.rows[j]) BY <1>2, ProbeLiveGives
<1>4. T \in SUBSET Periods /\ L \in SUBSET Periods BY <1>0, <1>1, RawTyped DEF Request, Hits
<1>5. /\ req'[r].todo = T /\ req'[r].live = L /\ req'[r].at = "validated" /\ req'[r].file = f
  <2>. HIDE DEF T, L
  <2>. QED BY <1>0, <1>1, <1>3, <1>4, AfterProbeFields
<1>6. kept'[r] \subseteq kept[r] /\ kept[r] \subseteq live BY <1>1, KeptStays DEF Waiting, LookedAt
<1>7. ASSUME NEW i \in Returned(f), Raw(f.rows[i]) \notin T, Probeable(f.rows[i])
      PROVE  /\ "huge" \notin {f.rows[i].month, f.rows[i].quarter}
             /\ (\E a \in kept'[r] : Stored(a, Month(f.rows[i]), Quarter(f.rows[i])))
                  => Raw(f.rows[i]) \in L
  <2> DEFINE line == f.rows[i]
             other == f.rows[j]
  <2>1. i \in Lines(f) /\ line \in FileRows /\ Dated BY <1>1, <1>7, LinesTyped DEF Returned
  <2>2. CASE Raw(line) = Raw(other)
    <3>1. line.month = other.month /\ line.quarter = other.quarter BY <2>2 DEF Raw
    <3>2. Probeable(other) BY <1>7, <3>1 DEF Probeable
    <3>3. "huge" \notin {line.month, line.quarter} BY <1>3, <3>1, <3>2 DEF Raises
    <3>4. ASSUME NEW a \in kept'[r], Stored(a, Month(line), Quarter(line)) PROVE Live(other)
      BY <1>6, <1>7, <2>1, <3>1, <3>4, SameScalar DEF Live
    <3>5. Live(other) => Raw(line) \in L BY <2>2, <3>2 DEF Hits
    <3>. QED BY <3>3, <3>4, <3>5
  <2>3. CASE Raw(line) # Raw(other)
    <3>1. Raw(line) \notin req[r].todo BY <1>7, <2>3
    <3>2. Looked(req[r], line, kept[r]) BY <1>1, <1>7 DEF LookedAt, LookedOf, Waiting
    <3>3. req[r].live \subseteq L BY DEF Hits
    <3>. QED BY <1>6, <1>7, <3>1, <3>2, <3>3 DEF Looked
  <2>. QED BY <2>2, <2>3
<1>. QED BY <1>5, <1>7 DEF LookedOf, Looked, Returned

LEMMA LookedStep == Typing /\ LookedAt /\ [Next]_vars => LookedAt'
<1> SUFFICES ASSUME Typing, LookedAt, [Next]_vars PROVE LookedAt'
  OBVIOUS
<1>1. col' = col BY SameCol
<1> SUFFICES ASSUME NEW r \in Reqs, Waiting(req'[r]) PROVE LookedOf(req'[r], kept'[r])
  BY <1>1, KeptStays DEF LookedAt, LookedOf, Looked, Returned, Dated, Month, Quarter, Waiting
<1>2. ASSUME NEW f \in File, Validate(r, f) PROVE LookedOf(req'[r], kept'[r])
  <2>1. /\ req'[r].at = "validated" /\ req'[r].file = ReadOf(f)
        /\ req'[r].todo = PeriodsOf(ReadOf(f))
    BY <1>2, ValidateGives
  <2>2. \A i \in Returned(ReadOf(f)) : Raw(ReadOf(f).rows[i]) \in PeriodsOf(ReadOf(f))
    BY DEF PeriodsOf
  <2>. QED BY <2>1, <2>2 DEF LookedOf, Looked
<1>3. CASE ProbeBin(r)
  <2>1. copies \in Nat /\ req[r] \in Request /\ Serving(req[r], copies) BY DEF Typing, TypeOK
  <2>2. /\ req'[r].todo = {} /\ req[r].todo = {} /\ req'[r].live = req[r].live
        /\ req'[r].file = req[r].file /\ req[r].at = "validated"
    BY <1>3, <2>1, ProbeBinGives, AfterBinFields
  <2>3. kept'[r] \subseteq kept[r] BY <2>2, KeptStays DEF Waiting
  <2>. QED BY <2>2, <2>3 DEF LookedAt, LookedOf, Looked, Waiting
<1>4. CASE req'[r] = req[r]
  <2>1. kept'[r] \subseteq kept[r] BY <1>4, KeptStays
  <2>. QED BY <1>4, <2>1 DEF LookedAt, LookedOf, Looked
<1>. QED BY <1>2, <1>3, <1>4, LookedByProbe, OnTheWay

LEMMA AlwaysLooked == Spec => [](Typing /\ Passed /\ LookedAt)
<1>1. Init => Typing /\ Passed /\ LookedAt BY InitTyped, PassedInit, LookedInit
<1>2. Typing /\ Passed /\ LookedAt /\ [Next]_vars => (Typing /\ Passed /\ LookedAt)'
  BY StepTyped, PassedStep, LookedStep
<1>. QED BY <1>1, <1>2, PTL DEF Spec

(* uploads.py:13, for any table, files and number of requests: a row that  *)
(* has stood in the table since validation, with the period of a line of   *)
(* the file, has been warned of when COPY may begin.                       *)
THEOREM StandingPeriodsWarned == Spec => []StandingPeriodIsWarned
<1>1. LookedAt => StandingPeriodIsWarned
  BY DEF LookedAt, LookedOf, Looked, StandingPeriodIsWarned, Waiting
<1>. QED BY <1>1, AlwaysLooked, PTL

(* A request becomes "checked" by the probe of the bin only. *)
LEMMA CheckedByProbe ==
  ASSUME Typing, [Next]_vars, NEW r \in Reqs, req[r].at = "validated", req'[r].at = "checked"
  PROVE  ProbeBin(r)
<1>0. copies \in Nat /\ req[r] \in Request /\ Serving(req[r], copies) BY DEF Typing, TypeOK
<1>1. Waiting(req'[r]) /\ req'[r] # req[r] BY DEF Waiting
<1>2. ASSUME NEW f \in File, Validate(r, f) PROVE FALSE BY <1>2, ValidateGives
<1>3. ASSUME NEW i \in 1..MaxRows, ProbeLive(r, i) PROVE FALSE
  <2> DEFINE f == req[r].file
             T == req[r].todo \ {Raw(f.rows[i])}
             L == Hits(req[r], f.rows[i])
  <2>1. f \in File /\ i \in Lines(f) BY <1>3, ProbeLiveGives
  <2>2. T \in SUBSET Periods /\ L \in SUBSET Periods BY <1>0, <2>1, RawTyped DEF Request, Hits
  <2>3. req'[r] # Refused BY <1>0, RefusedServing
  <2>4. req'[r] = AfterProbe(req[r], T, L) BY <1>3, <2>3, ProbeLiveGives
  <2>. HIDE DEF T, L
  <2>. QED BY <1>0, <2>2, <2>4, AfterProbeFields
<1>. QED BY <1>1, <1>2, <1>3, OnTheWay

(* The digits of a cell and those of the row that has its period. *)
LEMMA SameDigits ==
  ASSUME NEW line \in FileRows, Dated, Verbatim(line), NEW a, Stored(a, Month(line), Quarter(line))
  PROVE  Str(a.month) = line.month /\ (HasQuarter => Str(a.quarter) = line.quarter)
<1>1. line.month \in Texts /\ line.quarter \in Texts BY FileRowsAssumption
<1>2. ASSUME NEW t \in Texts PROVE Str(t) = t BY <1>2 DEF Str, Texts, Integers4, NULL
<1>3. a.month = line.month /\ (HasQuarter => a.quarter = line.quarter)
  BY DEF Verbatim, Stored, Month, Quarter
<1>. QED BY <1>1, <1>2, <1>3

(* uploads.py:13, for any table, files and number of requests: a period    *)
(* that an active batch archived is announced, if the file has its digits. *)
THEOREM BinnedPeriodsWarned == Spec => BinnedPeriodIsWarned
<1> DEFINE A == \A r \in Reqs : req[r].at = "validated" /\ req'[r].at = "checked" /\ Dated
       => \A i \in Lines(req[r].file) :
            LET line == req[r].file.rows[i]
                archived == \E b \in DOMAIN bin : /\ bin[b].active
                                                /\ \E a \in bin[b].rows : Stored(a, Month(line), Quarter(line))
            IN  archived /\ Verbatim(line) => Raw(line) \in req'[r].bin
<1>1. Typing /\ [Next]_vars => A
  <2> SUFFICES ASSUME Typing, [Next]_vars, NEW r \in Reqs, Dated,
                      req[r].at = "validated", req'[r].at = "checked", NEW i \in Lines(req[r].file),
                      NEW line, line = req[r].file.rows[i], Verbatim(line),
                      NEW b \in DOMAIN bin, bin[b].active,
                      NEW a \in bin[b].rows, Stored(a, Month(line), Quarter(line))
               PROVE  Raw(line) \in req'[r].bin
    OBVIOUS
  <2> DEFINE f == req[r].file
  <2>0. copies \in Nat /\ req[r] \in Request /\ Serving(req[r], copies) BY DEF Typing, TypeOK
  <2>1. ProbeBin(r) BY CheckedByProbe
  <2>2. /\ req'[r] = AfterBin(req[r], Found(f)) /\ Found(f) \in SUBSET Periods /\ f \in File
    BY <2>1, ProbeBinGives
  <2>3. req'[r].bin = Found(f) BY <2>0, <2>2, AfterBinFields
  <2>4. Binned(line) BY <2>2, LinesTyped, SameDigits DEF Binned, Announced
  <2>. QED BY <2>3, <2>4 DEF Found, Returned
<1>2. A => [A]_vars
  OBVIOUS
<1>. QED BY <1>1, <1>2, AlwaysTyped, PTL DEF Spec, BinnedPeriodIsWarned

-----------------------------------------------------------------------------
(* Cadences *)

LEMMA CadenceValues ==
  ASSUME NEW S PROVE Cadences(S) \subseteq {"monthly", "quarterly", "annual"}
BY DEF Cadences, CadencesOf, StoredCadence, Cadence

LEMMA MoreCadences ==
  ASSUME NEW S, NEW T \in SUBSET S PROVE Cadences(T) \subseteq Cadences(S)
BY DEF Cadences, CadencesOf

LEMMA OnlyOne ==
  ASSUME NEW S, Cardinality(S) = 1, S \subseteq {"monthly", "quarterly", "annual"},
         NEW R \in SUBSET S, R # {}
  PROVE  R = S
<1>1. IsFiniteSet({"monthly", "quarterly", "annual"})
  <2>1. IsFiniteSet({"monthly"}) BY FS_Singleton
  <2>2. IsFiniteSet({"monthly"} \cup {"quarterly"}) BY <2>1, FS_AddElement
  <2>3. IsFiniteSet(({"monthly"} \cup {"quarterly"}) \cup {"annual"}) BY <2>2, FS_AddElement
  <2>4. ({"monthly"} \cup {"quarterly"}) \cup {"annual"} = {"monthly", "quarterly", "annual"}
    OBVIOUS
  <2>. QED BY <2>3, <2>4
<1>2. IsFiniteSet(S) BY <1>1, FS_Subset
<1>3. PICK x : S = {x} BY <1>2, FS_Singleton
<1>. QED BY <1>3

(* The rows that COPY would add have cadences of the file. *)
LEMMA CopiesBring ==
  ASSUME NEW f \in File, NEW C, Valid(f, C), NEW n, NEW K
  PROVE  Cadences(NewRows(f, n, K)) \subseteq FileCadences(f)
<1>1. CASE ~Dated BY <1>1 DEF Cadences
<1>2. CASE Dated
  <2>1. ASSUME NEW a \in NewRows(f, n, K)
        PROVE  \E i \in Lines(f) : StoredCadence(a.month, a.quarter)
                                     = Cadence(f.rows[i].month, f.rows[i].quarter)
    BY <1>2, NewRowsCadence
  <2>. QED BY <1>2, <2>1 DEF Cadences, CadencesOf, FileCadences
<1>. QED BY <1>1, <1>2

(* What validation noticed of the cadences, as long as the table keeps     *)
(* the one it had.                                                         *)
Noticed(q, standing, had) ==
  q.valid /\ Cardinality(had) = 1 /\ Cadences(standing) # {}
    => FileCadences(q.file) \subseteq had \/ q.shift
ShiftsNoticed == \A r \in Reqs : Waiting(req[r]) =>
                   /\ Cadences(kept[r]) \subseteq span[r]
                   /\ span[r] \subseteq {"monthly", "quarterly", "annual"}
                   /\ Noticed(req[r], kept[r], span[r])

LEMMA NoticedInit == Init => ShiftsNoticed
BY DEF Init, ShiftsNoticed, Waiting, NoReq

LEMMA NoticedByValidate ==
  ASSUME Typing, NEW r \in Reqs, NEW f \in File, Validate(r, f), req'[r].valid
  PROVE  /\ req'[r].file = f
         /\ req'[r].shift = (Cardinality(Cadences(live)) = 1 /\ FileCadences(f) \ Cadences(live) # {})
<1>1. HeaderOk(f) BY ValidateGives DEF Valid
<1>. QED BY <1>1, ValidateGives DEF ReadOf, Shift

LEMMA NoticedStep == Typing /\ LookedAt /\ ShiftsNoticed /\ [Next]_vars => ShiftsNoticed'
<1> SUFFICES ASSUME Typing, LookedAt, ShiftsNoticed, [Next]_vars, NEW r \in Reqs, Waiting(req'[r])
             PROVE  /\ Cadences(kept'[r]) \subseteq span'[r]
                    /\ span'[r] \subseteq {"monthly", "quarterly", "annual"}
                    /\ Noticed(req'[r], kept'[r], span'[r])
  BY SameCol DEF ShiftsNoticed, Noticed, Cadences, FileCadences, Dated, Waiting
<1> DEFINE q == req'[r]
<1>1. CASE ~Waiting(req[r])
  <2>1. ~UNCHANGED vars BY <1>1 DEF vars
  <2>2. kept'[r] = live' /\ span'[r] = Cadences(live') BY <1>1, <2>1, Watched
  <2>3. PICK f \in File : Validate(r, f) BY <1>1, OnTheWay, ProbesKeep
  <2>4. live' = live BY <2>3, ValidateGives
  <2>5. ASSUME q.valid, Cardinality(Cadences(live)) = 1
        PROVE  FileCadences(q.file) \subseteq Cadences(live) \/ q.shift
    BY <2>3, <2>5, NoticedByValidate
  <2>. QED BY <2>2, <2>4, <2>5, CadenceValues DEF Noticed
<1>2. CASE Waiting(req[r])
  <2>1. kept'[r] \subseteq kept[r] /\ kept'[r] \subseteq live' BY <1>2, KeptStays
  <2>2. span'[r] = span[r] \/ span'[r] = span[r] \cup Cadences(live')
    BY <1>2, Watched DEF vars
  <2>3. /\ Cadences(kept[r]) \subseteq span[r]
        /\ span[r] \subseteq {"monthly", "quarterly", "annual"}
        /\ Noticed(req[r], kept[r], span[r])
    BY <1>2 DEF ShiftsNoticed
  <2>4. Cadences(kept'[r]) \subseteq Cadences(kept[r]) BY <2>1, MoreCadences
  <2>5. span'[r] \subseteq {"monthly", "quarterly", "annual"} BY <2>2, <2>3, CadenceValues
  <2>6. q.file = req[r].file /\ q.valid = req[r].valid /\ q.shift = req[r].shift
    <3>1. ASSUME NEW f \in File, Validate(r, f) PROVE FALSE
      BY <1>2, <3>1, ValidateGives DEF Waiting
    <3>. QED BY <3>1, OnTheWay, ProbesKeep
  <2>7. ASSUME Cardinality(span'[r]) = 1, Cadences(kept'[r]) # {}
        PROVE  span[r] = span'[r] /\ Cadences(kept[r]) # {}
    <3>1. span[r] \subseteq span'[r] /\ span[r] # {} BY <2>2, <2>3, <2>4, <2>7
    <3>2. span[r] = span'[r] BY <2>5, <2>7, <3>1, OnlyOne
    <3>. QED BY <2>4, <2>7, <3>2
  <2>8. Noticed(q, kept'[r], span'[r]) BY <2>3, <2>6, <2>7 DEF Noticed
  <2>9. Cadences(kept'[r]) \subseteq span'[r] BY <2>2, <2>3, <2>4
  <2>. QED BY <2>5, <2>8, <2>9
<1>. QED BY <1>1, <1>2

(* validation.py:320, for any files and number of requests: a file of      *)
(* another cadence has been warned of, if the table has had rows of one    *)
(* cadence only from the check until COPY.                                 *)
THEOREM CadenceShiftsWarned == Spec => []CadenceShiftIsWarned
<1>1. Init => Typing /\ Passed /\ LookedAt /\ ShiftsNoticed
  BY InitTyped, PassedInit, LookedInit, NoticedInit
<1>2. Typing /\ Passed /\ LookedAt /\ ShiftsNoticed /\ [Next]_vars
        => (Typing /\ Passed /\ LookedAt /\ ShiftsNoticed)'
  BY StepTyped, PassedStep, LookedStep, NoticedStep
<1>3. Typing /\ Passed /\ LookedAt /\ ShiftsNoticed => CadenceShiftIsWarned
  <2> SUFFICES ASSUME Typing, Passed, LookedAt, ShiftsNoticed, NEW r \in Reqs,
                      req[r].at = "checked", req[r].valid,
                      Cardinality(span[r]) = 1, Cadences(kept[r]) # {}
               PROVE  \/ Cadences(NewRows(req[r].file, copies + 1, Known)) \subseteq span[r]
                      \/ req[r].shift
    BY DEF CadenceShiftIsWarned
  <2>1. Waiting(req[r]) BY DEF Waiting
  <2>2. req[r].file \in File /\ Valid(req[r].file, req[r].codes)
    BY <2>1 DEF Typing, Serving, Passed, PassedOf
  <2>3. FileCadences(req[r].file) \subseteq span[r] \/ req[r].shift
    BY <2>1 DEF ShiftsNoticed, Noticed
  <2>. QED BY <2>2, <2>3, CopiesBring
<1>. QED BY <1>1, <1>2, <1>3, PTL DEF Spec

-----------------------------------------------------------------------------
(* Refusals of COPY *)

(* What every column of the schema is. *)
Regular(c) == /\ c.name = c.type \/ <<c.type, c.name>> \in {<<"int8", "bigint">>, <<"_text", "ARRAY">>}
              /\ c.fk => c.type \in {"int4", "varchar"}
              /\ c.enum => c.type = "varchar" /\ c.default # "literal"
              /\ c.fk /\ c.type = "int4" => ~c.enum
              /\ c.default = "literal" => c.type \in {"int4", "varchar"}
              /\ c.type = "tsvector" => c.nullable

LEMMA PeriodAdmitted ==
  ASSUME NEW n \in BOOLEAN, NEW t \in Texts, NEW R, NEW T, CellOk(PeriodColumn(n), t, R), t # "huge"
  PROVE  Admits(PeriodColumn(n), Coerce(t, "int4"), T)
<1>1. t = "" => n BY DEF CellOk, PeriodColumn, NotEmpty
<1>2. Parses(t, "int4") BY DEF CellOk, PeriodColumn
<1>3. Coerce(t, "int4") = NULL => n BY <1>1, <1>2, CoercedEmpty
<1>4. Coerce(t, "int4") # "huge"
  BY DEF Coerce, Number, Texts, Integers4, NULL
<1>. QED BY <1>3, <1>4 DEF Admits, PeriodColumn, Misread, TooLarge, NULL

(* A column that the file does not have, or that is never copied. *)
LEMMA DefaultAdmitted ==
  ASSUME NEW c \in Column, Regular(c), NEW T,
         c.default = "none" => c.nullable,
         c.fk /\ c.default = "literal" => Literal(c) \in T
  PROVE  Admits(c, Default(c), T)
<1>1. CASE c.default # "literal"
  BY <1>1 DEF Admits, Default, Column, NULL
<1>2. CASE c.default = "literal"
  <2>1. c.type \in {"int4", "varchar"} /\ c.name = c.type /\ ~c.enum BY <1>2 DEF Regular
  <2>2. Default(c) = Literal(c) BY <1>2 DEF Default
  <2>3. Literal(c) \in {"7", "NG"} BY DEF Literal
  <2>. QED BY <1>2, <2>1, <2>2, <2>3 DEF Admits, Misread, TooLarge, NULL
<1>. QED BY <1>1, <1>2

LEMMA EmptyAdmitted ==
  ASSUME NEW c \in Column, NEW R, NEW K, NEW T, CellOk(c, "", R), Copied(c),
         c.nullable \/ c.default = "none"
  PROVE  Admits(c, Value(c, TRUE, "", K), T)
<1>1. c.nullable BY DEF CellOk, NotEmpty
<1>2. Value(c, TRUE, "", K) = NULL BY DEF Value, Coerce
<1>. QED BY <1>1, <1>2 DEF Admits

(* The value of a code is the code, whether the worker still knows it.     *)
LEMMA CodeAdmitted ==
  ASSUME NEW c \in Column, Regular(c), c.fk, Copied(c), NEW t \in Texts \ {""},
         NEW R \in SUBSET CodesFor(c), NEW K, NEW T,
         CellOk(c, t, R), Strip(t) \notin R \ T, c.enum => t = Strip(t) /\ t \in Enum
  PROVE  Admits(c, Value(c, TRUE, t, K), T)
<1>1. Strip(t) \in R /\ Strip(t) \in T BY DEF CellOk, Resolves
<1>2. CASE c.type = "int4"
  <2>1. c.name = "int4" /\ ~c.enum BY <1>2 DEF Regular
  <2>2. t = "7" /\ Strip(t) = "7"
    <3>1. CodesFor(c) = {"7"} BY <1>2, <2>1 DEF CodesFor
    <3>2. Strip(t) = "7" BY <1>1, <3>1
    <3>. QED BY <3>2 DEF Strip
  <2>3. Value(c, TRUE, t, K) = "7"
    BY <2>1, <2>2 DEF Value, Coerce, Parses, Number, Numeric, Integers4
  <2>. QED BY <1>1, <1>2, <2>1, <2>2, <2>3 DEF Admits, Misread, TooLarge, NULL
<1>3. CASE c.type = "varchar"
  <2>0. c.name = "varchar" BY <1>3 DEF Regular
  <2>1. t \in {"NG", "actual", " actual"} /\ (~c.enum => t = "NG") /\ (t # " actual" => Strip(t) = t)
    BY <1>1, <1>3 DEF CodesFor, Strip, Column
  <2>2. t \in {"NG", "actual"} /\ Strip(t) = t BY <2>1 DEF Enum
  <2>3. Value(c, TRUE, t, K) = t BY <2>0, <2>2 DEF Value, Coerce, Parses, Numeric, Temporal
  <2>. QED BY <1>1, <1>3, <2>0, <2>2, <2>3 DEF Admits, Misread, TooLarge, NULL
<1>. QED BY <1>2, <1>3 DEF Regular

LEMMA TextAdmitted ==
  ASSUME NEW c \in Column, Regular(c), ~c.fk, Copied(c), NEW t \in Texts \ {""},
         NEW R, NEW K, NEW T, CellOk(c, t, R), c.enum => t = Strip(t), ~TooLarge(c, t),
         ~Misread(c), ~(c.type = "timestamp" /\ t = "zoned")
  PROVE  Admits(c, Value(c, TRUE, t, K), T)
<1>1. Value(c, TRUE, t, K) = Coerce(t, c.name) BY DEF Value
<1>2. CASE c.enum
  <2>1. t \in Enum BY <1>2 DEF CellOk
  <2>2. c.type = "varchar" /\ c.name = "varchar" BY <1>2 DEF Regular
  <2>3. Coerce(t, c.name) = t BY <2>2 DEF Coerce, Parses, Numeric, Temporal
  <2>. QED BY <1>1, <2>1, <2>2, <2>3 DEF Admits, Enum, NULL
<1>3. CASE ~c.enum
  <2>1. Parses(t, c.name) BY <1>3 DEF CellOk
  <2>2. Coerce(t, c.name) \in {t, Number(t)} BY <2>1 DEF Coerce
  <2>3. Coerce(t, c.name) # NULL BY <2>2 DEF Number, Texts, Integers4, NULL
  <2>4. Number(t) \in {"zoned", "huge", "words"} => t = Number(t) BY DEF Number
  <2>5. ~TooLarge(c, Coerce(t, c.name)) BY <2>2, <2>4 DEF TooLarge
  <2>6. Coerce(t, c.name) = "zoned" => t = "zoned" BY <2>2, <2>4
  <2>. QED BY <1>1, <1>3, <2>3, <2>5, <2>6 DEF Admits
<1>. QED BY <1>2, <1>3

LEMMA CellAdmitted ==
  ASSUME TypeOK, Regular(col), NEW f \in File, NEW i \in Lines(f),
         NEW R \in SUBSET CodesFor(col), Valid(f, R), ~Overlooked(f, i, R),
         ~(col.fk /\ ~f.has /\ col.default = "literal" /\ Literal(col) \notin codes), NEW K
  PROVE  Admits(col, Value(col, f.has, f.rows[i].cell, K), codes)
<1> DEFINE t == f.rows[i].cell
<1>1. t \in Texts /\ f.has \in BOOLEAN /\ col \in Column
  BY LinesTyped, ColumnsAssumption DEF TypeOK
<1>2. CASE ~f.has \/ ~Copied(col)
  <2>1. Value(col, f.has, t, K) = Default(col) BY <1>2 DEF Value
  <2>2. CASE ~f.has
    <3>1. ~NotEmpty(col) BY <2>2 DEF Valid, HeaderOk, Required, Overlooked
    <3>2. col.default = "none" => col.nullable BY <3>1 DEF NotEmpty
    <3>3. col.fk /\ col.default = "literal" => Literal(col) \in codes BY <2>2
    <3>. QED BY <1>1, <2>1, <3>2, <3>3, DefaultAdmitted
  <2>3. CASE ~Copied(col)
    <3>1. col.default = "SEQUENCE" \/ col.type = "tsvector" BY <2>3 DEF Copied, Regular
    <3>2. col.type = "tsvector" => col.nullable /\ col.default # "literal" /\ ~col.fk
      BY DEF Regular
    <3>. QED BY <1>1, <2>1, <3>1, <3>2, DefaultAdmitted
  <2>. QED BY <1>2, <2>2, <2>3
<1>3. CASE f.has /\ Copied(col)
  <2>1. CellOk(col, t, R) BY <1>3 DEF Valid, LineOk
  <2>2. /\ col.enum => t = Strip(t) /\ (col.fk => t \in Enum)
        /\ ~TooLarge(col, t) /\ ~(col.type = "timestamp" /\ t = "zoned")
        /\ t # "" => ~Misread(col)
        /\ t = "" => col.nullable \/ col.default = "none"
        /\ col.fk => Strip(t) \notin R \ codes
    BY <1>3 DEF Overlooked
  <2>3. f.has = TRUE BY <1>1, <1>3
  <2>4. CASE t = "" BY <1>1, <1>3, <2>1, <2>2, <2>3, <2>4, EmptyAdmitted
  <2>5. CASE t # "" /\ col.fk
    <3>. HIDE DEF t
    <3>1. Admits(col, Value(col, TRUE, t, K), codes)
      BY <1>1, <1>3, <2>1, <2>2, <2>5, CodeAdmitted
    <3>. QED BY <2>3, <3>1 DEF t
  <2>6. CASE t # "" /\ ~col.fk
    <3>. HIDE DEF t
    <3>1. Admits(col, Value(col, TRUE, t, K), codes)
      BY <1>1, <1>3, <2>1, <2>2, <2>6, TextAdmitted
    <3>. QED BY <2>3, <3>1 DEF t
  <2>. QED BY <2>4, <2>5, <2>6
<1>. QED BY <1>2, <1>3

(* The cells of the period, when the probes have looked at all of them.    *)
LEMMA LineAdmitted ==
  ASSUME Typing, LookedAt, NEW r \in Reqs, req[r].at = "checked", Dated,
         NEW f, f = req[r].file, NEW C, f \in File, Valid(f, C), NEW i \in Lines(f), NEW T
  PROVE  Admits(MonthColumn, Month(f.rows[i]), T) /\ Admits(QuarterColumn, Quarter(f.rows[i]), T)
<1> DEFINE line == f.rows[i]
<1>1. line \in FileRows /\ line.month \in Texts /\ line.quarter \in Texts BY LinesTyped
<1>2. Probeable(line) BY PeriodParses DEF Probeable
<1>3. "huge" \notin {line.month, line.quarter}
  <2>1. i \in Returned(f) /\ req[r].todo = {} /\ Looked(req[r], line, kept[r])
    BY DEF LookedAt, LookedOf, Waiting, Returned
  <2>. QED BY <1>2, <2>1 DEF Looked
<1>4. CellOk(PeriodColumn(HasQuarter), line.month, C)
  BY DEF Valid, LineOk, MonthColumn
<1>5. Admits(MonthColumn, Month(line), T)
  BY <1>1, <1>3, <1>4, FlagsAssumption, PeriodAdmitted DEF Month, MonthColumn
<1>6. CASE HasQuarter
  <2>1. CellOk(PeriodColumn(TRUE), line.quarter, C) BY <1>6 DEF Valid, LineOk, QuarterColumn
  <2>2. Admits(QuarterColumn, Quarter(line), T)
    BY <1>1, <1>3, <1>6, <2>1, PeriodAdmitted DEF Quarter, QuarterColumn
  <2>. QED BY <1>5, <2>2
<1>7. CASE ~HasQuarter
  <2>1. Admits(QuarterColumn, Quarter(line), T)
    BY <1>7 DEF Quarter, Admits, QuarterColumn, PeriodColumn
  <2>. QED BY <1>5, <2>1
<1>. QED BY <1>6, <1>7

LEMMA PassedExplained ==
  ASSUME \A c \in Columns : Regular(c), Typing, Passed, LookedAt
  PROVE  RefusalsAreExplained
<1> SUFFICES ASSUME NEW r \in Reqs, req[r].at = "checked", req[r].valid,
                    NEW f, f = req[r].file, NEW rows, rows = NewRows(f, copies + 1, Known),
                    \A i \in Lines(f) : ~Overlooked(f, i, req[r].codes),
                    ~(col.fk /\ ~f.has /\ col.default = "literal" /\ Literal(col) \notin codes),
                    \A a \in rows, b \in live \cup rows : ~Collide(a, b)
             PROVE  Accepts(rows)
  BY DEF RefusalsAreExplained
<1>1. f \in File /\ Valid(f, req[r].codes) /\ req[r].codes \in SUBSET CodesFor(col)
  BY DEF Typing, Serving, Passed, PassedOf, Waiting
<1>2. TypeOK /\ Regular(col) BY DEF Typing, TypeOK
<1>3. ASSUME NEW i \in Lines(f)
      PROVE  Admits(col, Value(col, f.has, f.rows[i].cell, Known), codes)
  BY <1>1, <1>2, <1>3, CellAdmitted
<1>4. ASSUME NEW i \in Lines(f), Dated
      PROVE  Admits(MonthColumn, Month(f.rows[i]), codes) /\ Admits(QuarterColumn, Quarter(f.rows[i]), codes)
  BY <1>1, <1>4, LineAdmitted
<1>5. \A a \in rows : /\ Admits(col, a.val, codes)
                      /\ Dated => Admits(MonthColumn, a.month, codes) /\ Admits(QuarterColumn, a.quarter, codes)
  BY <1>3, <1>4 DEF NewRows
<1>. QED BY <1>5 DEF Accepts

(* uploads.py:163, for any files, columns as the schema has them and any   *)
(* number of requests: COPY refuses a file that passed only for one of the *)
(* reasons that RefusalsAreExplained lists.                                *)
THEOREM RefusalsExplained ==
  ASSUME \A c \in Columns : Regular(c)
  PROVE  Spec => []RefusalsAreExplained
<1>1. Typing /\ Passed /\ LookedAt => RefusalsAreExplained BY PassedExplained
<1>. QED BY <1>1, AlwaysLooked, PTL

=============================================================================
