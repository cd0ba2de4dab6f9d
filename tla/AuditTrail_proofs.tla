-------------------------- MODULE AuditTrail_proofs --------------------------
(***************************************************************************)
(* Proofs about AuditTrail, for any files, file names, tables and number   *)
(* of concurrent requests, with failures.                                  *)
(***************************************************************************)
EXTENDS AuditTrail, FiniteSetTheorems, TLAPS

(* An edit is about a table, every other request about a file. *)
About(i, k) == k \in Kinds /\ IF k = "edit_row" THEN i \in Tables ELSE i \in Uploads
Typing == /\ TypeOK
          /\ \A r \in Reqs : req[r].at # "idle" => About(req[r].id, req[r].kind)

LEMMA TargetType ==
  ASSUME NEW i, NEW k, About(i, k)
  PROVE  /\ Target(i, k) \in Targets /\ k \in Kinds
         /\ k = "upload" => Target(i, k) = tableName[i] /\ tableName[i] \in Tables
         /\ k \in {"delete_file", "restore"} => Target(i, k) = fileName[i] /\ fileName[i] \in FileNames
  BY NamesAssumption DEF About, Target, Targets, Kinds

LEMMA PlusType ==
  ASSUME NEW f \in Counts, NEW t \in Targets, NEW k \in Kinds
  PROVE  Plus(f, t, k) \in Counts
<1>1. f[t] \in [Kinds -> Nat] /\ f[t][k] + 1 \in Nat
  BY DEF Counts
<1>2. [f[t] EXCEPT ![k] = f[t][k] + 1] \in [Kinds -> Nat]
  BY <1>1
<1> QED  BY <1>2 DEF Plus, Counts

LEMMA PlusTarget ==
  ASSUME NEW f \in Counts, NEW i, NEW k, About(i, k)
  PROVE  Plus(f, Target(i, k), k) \in Counts
  BY TargetType, PlusType

LEMMA AfterServing ==
  ASSUME TypeOK, NEW r \in Reqs, NEW a, NEW i, NEW k, Serving(r, a, i, k)
  PROVE  /\ req'[r].at = a /\ req'[r].id = i /\ req'[r].kind = k
         /\ \A q \in Reqs \ {r} : req'[q] = req[q]
  BY DEF TypeOK, Serving

LEMMA AfterFinish ==
  ASSUME TypeOK, NEW r \in Reqs, Finish(r)
  PROVE  req'[r].at = "idle" /\ \A q \in Reqs \ {r} : req'[q] = req[q]
  BY DEF TypeOK, Finish, NoReq

LEMMA Served ==
  ASSUME Typing, NEW r \in Reqs, NEW a \in {"read", "owing"}, NEW i, NEW k, About(i, k),
         Serving(r, a, i, k)
  PROVE  /\ req' \in [Reqs -> Req \cup {NoReq}]
         /\ \A q \in Reqs : req'[q].at # "idle" => About(req'[q].id, req'[q].kind)
<1> DEFINE new == [at |-> a, id |-> i, kind |-> k]
<1>1. new \in Req
  BY DEF Req, About
<1> HIDE DEF new
<1>2. req' = [req EXCEPT ![r] = new]
  BY DEF Serving, new
<1>3. req' \in [Reqs -> Req \cup {NoReq}]
  BY <1>1, <1>2 DEF Typing, TypeOK
<1>4. /\ req'[r].id = i /\ req'[r].kind = k
      /\ \A q \in Reqs \ {r} : req'[q] = req[q]
  BY AfterServing DEF Typing
<1> QED  BY <1>3, <1>4 DEF Typing

LEMMA Finished ==
  ASSUME Typing, NEW r \in Reqs, Finish(r)
  PROVE  /\ req' \in [Reqs -> Req \cup {NoReq}]
         /\ \A q \in Reqs : req'[q].at # "idle" => About(req'[q].id, req'[q].kind)
<1>1. req' \in [Reqs -> Req \cup {NoReq}]
  BY DEF Typing, TypeOK, Finish
<1>2. req'[r].at = "idle" /\ \A q \in Reqs \ {r} : req'[q] = req[q]
  BY AfterFinish DEF Typing
<1> QED  BY <1>1, <1>2 DEF Typing

LEMMA TypeInit == Init => Typing
  BY DEF Init, Typing, TypeOK, Counts, Zero, NoReq

LEMMA TypeStep == Typing /\ [Next]_vars => Typing'
<1> SUFFICES ASSUME Typing, [Next]_vars PROVE Typing'
  OBVIOUS
<1>t. /\ entries \in Counts /\ made \in Counts /\ lost \in Counts
      /\ dataset \in [Uploads -> {"none", "copied", "live", "deleted"}]
      /\ \A r \in Reqs : req[r].at # "idle" => About(req[r].id, req[r].kind)
  BY DEF Typing, TypeOK
<1>a. /\ \A u \in Uploads : About(u, "upload") /\ About(u, "delete_file") /\ About(u, "restore")
      /\ \A t \in Tables : About(t, "edit_row")
  BY DEF About, Kinds
<1>s. ASSUME NEW r \in Reqs, NEW a \in {"read", "owing"}, NEW i, NEW k, About(i, k),
             Serving(r, a, i, k), entries' \in Counts, made' \in Counts, lost' \in Counts,
             dataset' \in [Uploads -> {"none", "copied", "live", "deleted"}]
      PROVE  Typing'
  BY <1>s, Served DEF Typing, TypeOK
<1>f. ASSUME NEW r \in Reqs, Finish(r), entries' \in Counts, made' \in Counts, lost' \in Counts,
             dataset' \in [Uploads -> {"none", "copied", "live", "deleted"}]
      PROVE  Typing'
  BY <1>f, Finished DEF Typing, TypeOK
<1>1. ASSUME NEW r \in Reqs, NEW u \in Uploads, Copy(r, u) PROVE Typing'
  <2>1. made' \in Counts
    BY <1>1, <1>a, <1>t, PlusTarget DEF Copy, Make
  <2> QED  BY <1>1, <1>a, <1>t, <1>s, <2>1 DEF Copy
<1>2. ASSUME NEW r \in Reqs, RecordUpload(r) PROVE Typing'
  <2>1. About(req[r].id, "upload")
    BY <1>2, <1>t DEF RecordUpload
  <2>2. entries' \in Counts
    BY <1>2, <1>t, <2>1, PlusTarget DEF RecordUpload, Enter
  <2> QED  BY <1>2, <1>t, <1>f, <2>2 DEF RecordUpload
<1>3. ASSUME NEW r \in Reqs, NEW u \in Uploads, NEW k \in {"delete_file", "restore"}, ReadDataset(r, u, k)
      PROVE Typing'
  BY <1>3, <1>a, <1>t, <1>s DEF ReadDataset
<1>4. ASSUME NEW r \in Reqs, MarkDeleted(r) PROVE Typing'
  <2>1. About(req[r].id, "delete_file")
    BY <1>4, <1>t DEF MarkDeleted
  <2>2. made' \in Counts
    BY <1>4, <1>t, <2>1, PlusTarget DEF MarkDeleted, Make
  <2> QED  BY <1>4, <1>t, <1>s, <2>1, <2>2 DEF MarkDeleted
<1>5. ASSUME NEW r \in Reqs, RestoreDataset(r) PROVE Typing'
  <2>1. About(req[r].id, "restore")
    BY <1>5, <1>t DEF RestoreDataset
  <2>2. made' \in Counts /\ entries' \in Counts
    BY <1>5, <1>t, <2>1, PlusTarget DEF RestoreDataset, Make, Enter
  <2> QED  BY <1>5, <1>t, <1>f, <2>2 DEF RestoreDataset
<1>6. ASSUME NEW r \in Reqs, NEW t \in Tables, EditRow(r, t) PROVE Typing'
  <2>1. made' \in Counts
    BY <1>6, <1>a, <1>t, PlusTarget DEF EditRow, Make
  <2> QED  BY <1>6, <1>a, <1>t, <1>s, <2>1 DEF EditRow
<1>7. ASSUME NEW r \in Reqs, LogChange(r) PROVE Typing'
  <2>1. About(req[r].id, req[r].kind)
    BY <1>7, <1>t DEF LogChange
  <2>2. entries' \in Counts
    BY <1>7, <1>t, <2>1, PlusTarget DEF LogChange, Enter
  <2> QED  BY <1>7, <1>t, <1>f, <2>2 DEF LogChange
<1>8. ASSUME NEW r \in Reqs, Fail(r) PROVE Typing'
  <2>1. About(req[r].id, req[r].kind)
    BY <1>8, <1>t DEF Fail
  <2>2. lost' \in Counts
    BY <1>8, <1>t, <2>1, PlusTarget DEF Fail
  <2> QED  BY <1>8, <1>t, <1>f, <2>2 DEF Fail
<1>9. CASE UNCHANGED vars
  BY <1>9 DEF vars, Typing, TypeOK
<1> QED  BY <1>1, <1>2, <1>3, <1>4, <1>5, <1>6, <1>7, <1>8, <1>9 DEF Next

(* The datasets, the audit log and the requests stay well typed. *)
THEOREM TypeCorrect == Spec => []TypeOK
<1>1. Typing => TypeOK
  BY DEF Typing
<1> QED  BY TypeInit, TypeStep, <1>1, PTL DEF Spec

-----------------------------------------------------------------------------
(* The refinement: Owed counts the requests that owe an entry. *)

LEMMA OwedCounts ==
  ASSUME NEW t \in Targets, NEW k \in Kinds
  PROVE  IsFiniteSet(Owing(t, k)) /\ Cardinality(Owing(t, k)) \in Nat
<1>1. Owing(t, k) \subseteq Reqs
  BY DEF Owing
<1> QED  BY <1>1, ReqsAssumption, FS_Subset, FS_CardinalityType

LEMMA OwedPlus ==
  ASSUME NEW s \in Targets, NEW k \in Kinds, NEW n \in Int,
         \A t \in Targets, j \in Kinds :
            Cardinality(Owing(t, j))' = Cardinality(Owing(t, j)) + IF t = s /\ j = k THEN n ELSE 0
  PROVE  Owed' = Trail!Plus(Owed, s, k, n)
<1>1. \A t \in Targets : Owed'[t] = Trail!Plus(Owed, s, k, n)[t]
  <2> TAKE t \in Targets
  <2>1. \A j \in Kinds : Cardinality(Owing(t, j)) \in Nat
    BY OwedCounts
  <2> QED  BY <2>1 DEF Owed, Trail!Plus
<1> QED  BY <1>1 DEF Owed, Trail!Plus

(* A request that starts to owe an entry... *)
LEMMA OneMore ==
  ASSUME TypeOK, NEW r \in Reqs, NEW i, NEW k, About(i, k),
         req[r].at # "owing", Serving(r, "owing", i, k)
  PROVE  Owed' = Trail!Plus(Owed, Target(i, k), k, 1)
<1> DEFINE s == Target(i, k)
<1>0. s \in Targets /\ k \in Kinds
  BY TargetType
<1>1. /\ req'[r].at = "owing" /\ req'[r].id = i /\ req'[r].kind = k
      /\ \A q \in Reqs \ {r} : req'[q] = req[q]
  BY AfterServing
<1>2. \A t \in Targets, j \in Kinds :
         /\ t = s /\ j = k => Owing(t, j)' = Owing(t, j) \cup {r} /\ r \notin Owing(t, j)
         /\ ~(t = s /\ j = k) => Owing(t, j)' = Owing(t, j)
  BY <1>1 DEF Owing
<1> HIDE DEF s
<1>3. ASSUME NEW t \in Targets, NEW j \in Kinds
      PROVE  Cardinality(Owing(t, j)') = Cardinality(Owing(t, j)) + IF t = s /\ j = k THEN 1 ELSE 0
  BY <1>2, OwedCounts, FS_AddElement
<1>4. Owed' = Trail!Plus(Owed, s, k, 1)
  BY <1>0, <1>3, OwedPlus
<1> QED  BY <1>4 DEF s

(* ... and one that ceases to. *)
LEMMA OneLess ==
  ASSUME Typing, NEW r \in Reqs, req[r].at = "owing", Finish(r)
  PROVE  /\ Owed' = Trail!Plus(Owed, Target(req[r].id, req[r].kind), req[r].kind, -1)
         /\ Owed[Target(req[r].id, req[r].kind)][req[r].kind] > 0
<1>0. Target(req[r].id, req[r].kind) \in Targets /\ req[r].kind \in Kinds
  BY TargetType DEF Typing
<1> SUFFICES ASSUME NEW s \in Targets, NEW k \in Kinds,
                    s = Target(req[r].id, req[r].kind), k = req[r].kind
             PROVE  Owed' = Trail!Plus(Owed, s, k, -1) /\ Owed[s][k] > 0
  BY <1>0
<1>1. req'[r].at = "idle" /\ \A q \in Reqs \ {r} : req'[q] = req[q]
  BY AfterFinish DEF Typing
<1>2. \A t \in Targets, j \in Kinds :
         /\ t = s /\ j = k => Owing(t, j)' = Owing(t, j) \ {r} /\ r \in Owing(t, j)
         /\ ~(t = s /\ j = k) => Owing(t, j)' = Owing(t, j)
  BY <1>1 DEF Owing
<1>3. ASSUME NEW t \in Targets, NEW j \in Kinds
      PROVE  Cardinality(Owing(t, j)') = Cardinality(Owing(t, j)) + IF t = s /\ j = k THEN -1 ELSE 0
  BY <1>2, OwedCounts, FS_RemoveElement
<1>4. Cardinality(Owing(s, k)) > 0
  BY <1>2, OwedCounts, FS_EmptySet
<1>5. Owed' = Trail!Plus(Owed, s, k, -1)
  BY <1>3, OwedPlus
<1> QED  BY <1>4, <1>5 DEF Owed

LEMMA NoneOwed ==
  ASSUME NEW r \in Reqs, req[r].at # "owing", req'[r].at # "owing",
         \A q \in Reqs \ {r} : req'[q] = req[q]
  PROVE  Owed' = Owed
<1>1. \A t \in Targets, j \in Kinds : Owing(t, j)' = Owing(t, j)
  BY DEF Owing
<1> QED  BY <1>1 DEF Owed

LEMMA LedgerInit == Init => Trail!Init
<1> SUFFICES ASSUME Init PROVE Trail!Init
  OBVIOUS
<1>1. \A t \in Targets, k \in Kinds : Owing(t, k) = {}
  BY DEF Init, Owing, NoReq
<1>2. Cardinality({}) = 0
  BY FS_EmptySet
<1>3. Owed = Trail!Zero
  BY <1>1, <1>2 DEF Owed, Trail!Zero
<1> QED  BY <1>3 DEF Init, Zero, Trail!Init, Trail!Zero

LEMMA LedgerStep == Typing /\ [Next]_vars => [Trail!Next]_<<made, entries, Owed, lost>>
<1> SUFFICES ASSUME Typing, [Next]_vars PROVE [Trail!Next]_<<made, entries, Owed, lost>>
  OBVIOUS
<1>t. /\ TypeOK
      /\ \A r \in Reqs : req[r].at # "idle" => About(req[r].id, req[r].kind)
      /\ \A u \in Uploads : About(u, "upload")
      /\ \A t \in Tables : About(t, "edit_row")
  BY DEF Typing, About, Kinds
<1>p. \A f, t, k : Plus(f, t, k) = Trail!Plus(f, t, k, 1)
  BY DEF Plus, Trail!Plus
<1>1. ASSUME NEW r \in Reqs, NEW u \in Uploads, Copy(r, u)
      PROVE  Trail!Change(Target(u, "upload"), "upload")
  <2>1. Owed' = Trail!Plus(Owed, Target(u, "upload"), "upload", 1)
    BY <1>1, <1>t, OneMore DEF Copy
  <2> QED  BY <1>1, <1>p, <2>1 DEF Copy, Make, Trail!Change
<1>2. ASSUME NEW r \in Reqs, RecordUpload(r) PROVE Trail!Enter(Target(req[r].id, "upload"), "upload")
  <2>1. /\ Owed' = Trail!Plus(Owed, Target(req[r].id, "upload"), "upload", -1)
        /\ Owed[Target(req[r].id, "upload")]["upload"] > 0
    BY <1>2, OneLess DEF RecordUpload
  <2> QED  BY <1>2, <1>p, <2>1 DEF RecordUpload, Enter, Trail!Enter
<1>3. ASSUME NEW r \in Reqs, NEW u \in Uploads, NEW k \in {"delete_file", "restore"}, ReadDataset(r, u, k)
      PROVE  UNCHANGED <<made, entries, Owed, lost>>
  <2>1. req'[r].at = "read" /\ \A q \in Reqs \ {r} : req'[q] = req[q]
    BY <1>3, <1>t, AfterServing DEF ReadDataset
  <2>2. Owed' = Owed
    BY <1>3, <2>1, NoneOwed DEF ReadDataset
  <2> QED  BY <1>3, <2>2 DEF ReadDataset
<1>4. ASSUME NEW r \in Reqs, MarkDeleted(r)
      PROVE  Trail!Change(Target(req[r].id, "delete_file"), "delete_file")
  <2>0. About(req[r].id, "delete_file") /\ req[r].at # "owing"
    BY <1>4, <1>t DEF MarkDeleted
  <2>1. Owed' = Trail!Plus(Owed, Target(req[r].id, "delete_file"), "delete_file", 1)
    BY <1>4, <1>t, <2>0, OneMore DEF MarkDeleted
  <2> QED  BY <1>4, <1>p, <2>1 DEF MarkDeleted, Make, Trail!Change
<1>5. ASSUME NEW r \in Reqs, RestoreDataset(r) PROVE Trail!Together(Target(req[r].id, "restore"), "restore")
  <2>1. req'[r].at = "idle" /\ \A q \in Reqs \ {r} : req'[q] = req[q]
    BY <1>5, <1>t, AfterFinish DEF RestoreDataset
  <2>2. Owed' = Owed
    BY <1>5, <2>1, NoneOwed DEF RestoreDataset
  <2> QED  BY <1>5, <1>p, <2>2 DEF RestoreDataset, Make, Enter, Trail!Together
<1>6. ASSUME NEW r \in Reqs, NEW t \in Tables, EditRow(r, t)
      PROVE  Trail!Change(Target(t, "edit_row"), "edit_row")
  <2>1. Owed' = Trail!Plus(Owed, Target(t, "edit_row"), "edit_row", 1)
    BY <1>6, <1>t, OneMore DEF EditRow
  <2> QED  BY <1>6, <1>p, <2>1 DEF EditRow, Make, Trail!Change
<1>7. ASSUME NEW r \in Reqs, LogChange(r) PROVE Trail!Enter(Target(req[r].id, req[r].kind), req[r].kind)
  <2>1. /\ Owed' = Trail!Plus(Owed, Target(req[r].id, req[r].kind), req[r].kind, -1)
        /\ Owed[Target(req[r].id, req[r].kind)][req[r].kind] > 0
    BY <1>7, OneLess DEF LogChange
  <2> QED  BY <1>7, <1>p, <2>1 DEF LogChange, Enter, Trail!Enter
<1>8. ASSUME NEW r \in Reqs, Fail(r), req[r].at = "owing"
      PROVE  Trail!Lose(Target(req[r].id, req[r].kind), req[r].kind)
  <2>1. /\ Owed' = Trail!Plus(Owed, Target(req[r].id, req[r].kind), req[r].kind, -1)
        /\ Owed[Target(req[r].id, req[r].kind)][req[r].kind] > 0
    BY <1>8, OneLess DEF Fail
  <2> QED  BY <1>8, <1>p, <2>1 DEF Fail, Trail!Lose
<1>9. ASSUME NEW r \in Reqs, Fail(r), req[r].at # "owing" PROVE UNCHANGED <<made, entries, Owed, lost>>
  <2>1. req'[r].at = "idle" /\ \A q \in Reqs \ {r} : req'[q] = req[q]
    BY <1>9, <1>t, AfterFinish DEF Fail
  <2>2. Owed' = Owed
    BY <1>9, <2>1, NoneOwed DEF Fail
  <2> QED  BY <1>9, <2>2 DEF Fail
<1>10. CASE UNCHANGED vars
  BY <1>10 DEF vars, Owed, Owing
<1>11. \A i, k :
          /\ About(i, k)
          /\ \/ Trail!Together(Target(i, k), k) \/ Trail!Change(Target(i, k), k)
             \/ Trail!Enter(Target(i, k), k) \/ Trail!Lose(Target(i, k), k)
          => Trail!Next
  BY TargetType DEF Trail!Next
<1>12. \A r \in Reqs :
          /\ RecordUpload(r) => About(req[r].id, "upload")
          /\ MarkDeleted(r) => About(req[r].id, "delete_file")
          /\ RestoreDataset(r) => About(req[r].id, "restore")
          /\ LogChange(r) \/ Fail(r) => About(req[r].id, req[r].kind)
  BY <1>t DEF RecordUpload, MarkDeleted, RestoreDataset, LogChange, Fail
<1> QED  BY <1>t, <1>1, <1>2, <1>3, <1>4, <1>5, <1>6, <1>7, <1>8, <1>9, <1>10, <1>11, <1>12 DEF Next

(* The datasets and the row edits keep the ledger: every change committed  *)
(* is entered, owed or lost with its request, and a restore is entered     *)
(* with the change itself.                                                 *)
THEOREM LedgerKept == Spec => KeepsLedger
<1> QED  BY TypeInit, TypeStep, LedgerInit, LedgerStep, PTL DEF Spec, KeepsLedger, Trail!Spec

-----------------------------------------------------------------------------
(***************************************************************************)
(* What every Ledger promises is proved of Ledger alone, and so holds of   *)
(* the handlers that implement it.  One step of Ledger moves one count of  *)
(* one subject and kind.                                                   *)
(***************************************************************************)
LEMMA LedgerPlus ==
  ASSUME NEW f \in Counts, NEW s \in Targets, NEW k \in Kinds, NEW n \in Int, f[s][k] + n \in Nat
  PROVE  /\ Trail!Plus(f, s, k, n) \in Counts
         /\ \A t \in Targets, j \in Kinds :
               Trail!Plus(f, s, k, n)[t][j] = IF t = s /\ j = k THEN f[t][j] + n ELSE f[t][j]
BY DEF Trail!Plus, Counts

(* A count of one subject and kind that moves from f to g by n. *)
Moves(f, g, s, k, n) == /\ g \in Counts
                        /\ \A t \in Targets, j \in Kinds :
                              g[t][j] = IF t = s /\ j = k THEN f[t][j] + n ELSE f[t][j]

LEMMA LedgerMoves ==
  ASSUME NEW f \in Counts, NEW s \in Targets, NEW k \in Kinds
  PROVE  /\ Moves(f, Trail!Plus(f, s, k, 1), s, k, 1)
         /\ f[s][k] > 0 => Moves(f, Trail!Plus(f, s, k, -1), s, k, -1)
         /\ Moves(f, f, s, k, 0)
<1>1. f[s][k] \in Nat
  BY DEF Counts
<1>2. f[s][k] + 1 \in Nat /\ (f[s][k] > 0 => f[s][k] + (-1) \in Nat)
  BY <1>1
<1>3. \A t \in Targets, j \in Kinds : f[t][j] + 0 = f[t][j]
  BY DEF Counts
<1> QED  BY <1>2, <1>3, LedgerPlus DEF Moves

Kept == Trail!TypeOK /\ Trail!Balanced
        /\ \A s \in Targets, k \in Kinds \cap {"restore"} : Owed[s][k] = 0 /\ lost[s][k] = 0

LEMMA KeptInit == Trail!Init => Kept
BY DEF Kept, Trail!Init, Trail!Zero, Trail!TypeOK, Trail!Counts, Trail!Balanced

LEMMA KeptStep == Kept /\ [Trail!Next]_<<made, entries, Owed, lost>> => Kept'
<1> SUFFICES ASSUME Kept, [Trail!Next]_<<made, entries, Owed, lost>> PROVE Kept'
  OBVIOUS
<1>t. /\ made \in Counts /\ entries \in Counts /\ Owed \in Counts /\ lost \in Counts
      /\ \A s \in Targets, k \in Kinds :
            /\ made[s][k] \in Nat /\ entries[s][k] \in Nat
            /\ Owed[s][k] \in Nat /\ lost[s][k] \in Nat
            /\ made[s][k] = entries[s][k] + Owed[s][k] + lost[s][k]
      /\ \A s \in Targets, k \in Kinds \cap {"restore"} : Owed[s][k] = 0 /\ lost[s][k] = 0
  BY DEF Kept, Trail!TypeOK, Trail!Counts, Trail!Balanced, Counts
<1>k. Kept' <=> /\ made' \in Counts /\ entries' \in Counts /\ Owed' \in Counts /\ lost' \in Counts
                /\ \A s \in Targets, k \in Kinds :
                      made'[s][k] = entries'[s][k] + Owed'[s][k] + lost'[s][k]
                /\ \A s \in Targets, k \in Kinds \cap {"restore"} :
                      Owed'[s][k] = 0 /\ lost'[s][k] = 0
  BY DEF Kept, Trail!TypeOK, Trail!Counts, Trail!Balanced, Counts
<1>1. CASE UNCHANGED <<made, entries, Owed, lost>>
  BY <1>1, <1>t, <1>k
<1>2. ASSUME NEW s \in Targets, NEW k \in Kinds, NEW n \in {-1, 0, 1}, NEW m \in {-1, 0, 1},
             NEW i \in {-1, 0, 1}, NEW j \in {-1, 0, 1}, m = n + i + j,
             k = "restore" => i = 0 /\ j = 0,
             Moves(made, made', s, k, m), Moves(entries, entries', s, k, n),
             Moves(Owed, Owed', s, k, i), Moves(lost, lost', s, k, j)
      PROVE  Kept'
  <2>1. \A t \in Targets, h \in Kinds :
           made'[t][h] = entries'[t][h] + Owed'[t][h] + lost'[t][h]
    <3> SUFFICES ASSUME NEW t \in Targets, NEW h \in Kinds
                 PROVE  made'[t][h] = entries'[t][h] + Owed'[t][h] + lost'[t][h]
      OBVIOUS
    <3>1. /\ made[t][h] \in Nat /\ entries[t][h] \in Nat /\ Owed[t][h] \in Nat
          /\ lost[t][h] \in Nat /\ made[t][h] = entries[t][h] + Owed[t][h] + lost[t][h]
      BY <1>t
    <3>2. CASE t = s /\ h = k
      <4>1. /\ made'[t][h] = made[t][h] + m /\ entries'[t][h] = entries[t][h] + n
            /\ Owed'[t][h] = Owed[t][h] + i /\ lost'[t][h] = lost[t][h] + j
        BY <1>2, <3>2 DEF Moves
      <4> QED  BY <1>2, <3>1, <4>1
    <3>3. CASE ~(t = s /\ h = k)
      <4>1. /\ made'[t][h] = made[t][h] /\ entries'[t][h] = entries[t][h]
            /\ Owed'[t][h] = Owed[t][h] /\ lost'[t][h] = lost[t][h]
        BY <1>2, <3>3 DEF Moves
      <4> QED  BY <3>1, <4>1
    <3> QED  BY <3>2, <3>3
  <2>2. \A t \in Targets, h \in Kinds \cap {"restore"} : Owed'[t][h] = 0 /\ lost'[t][h] = 0
    BY <1>2, <1>t DEF Moves
  <2> QED  BY <1>2, <1>k, <2>1, <2>2 DEF Moves
<1>3. ASSUME NEW s \in Targets, NEW k \in Kinds, Trail!Together(s, k) PROVE Kept'
  BY <1>2, <1>3, <1>t, LedgerMoves DEF Trail!Together
<1>4. ASSUME NEW s \in Targets, NEW k \in Kinds, Trail!Change(s, k) PROVE Kept'
  BY <1>2, <1>4, <1>t, LedgerMoves DEF Trail!Change
<1>5. ASSUME NEW s \in Targets, NEW k \in Kinds, Trail!Enter(s, k) PROVE Kept'
  <2>1. k # "restore"
    BY <1>5, <1>t DEF Trail!Enter
  <2> QED  BY <1>2, <1>5, <1>t, <2>1, LedgerMoves DEF Trail!Enter
<1>6. ASSUME NEW s \in Targets, NEW k \in Kinds, Trail!Lose(s, k) PROVE Kept'
  <2>1. k # "restore"
    BY <1>6, <1>t DEF Trail!Lose
  <2> QED  BY <1>2, <1>6, <1>t, <2>1, LedgerMoves DEF Trail!Lose
<1> QED  BY <1>1, <1>3, <1>4, <1>5, <1>6 DEF Trail!Next

(* Every change to a dataset or a row is accounted for exactly once: in    *)
(* the log, with the request that has still to enter it, or lost with the  *)
(* request that was cut off; and the log is never behind on restores.      *)
THEOREM ChangesAccountedFor == Spec => [](Trail!Balanced /\ Trail!UpToDate)
<1>1. Kept => Trail!Balanced /\ Trail!UpToDate
  BY DEF Kept, Trail!Balanced, Trail!UpToDate, Trail!TypeOK, Trail!Counts
<1> QED  BY <1>1, KeptInit, KeptStep, LedgerKept, PTL DEF KeepsLedger, Trail!Spec

-----------------------------------------------------------------------------
(* What the requests in flight are about: a file without a record is being *)
(* uploaded by one request at most, and one with a record stays so.        *)
Sending(r, u) == req[r].at = "owing" /\ req[r].kind = "upload" /\ req[r].id = u
OneUploadEach ==
  /\ \A r \in Reqs, u \in Uploads : Sending(r, u) => dataset[u] = "copied"
  /\ \A r, q \in Reqs, u \in Uploads : Sending(r, u) /\ Sending(q, u) => r = q
  /\ \A r \in Reqs : req[r].at # "idle" /\ req[r].kind \in {"delete_file", "restore"}
        => dataset[req[r].id] \in {"live", "deleted"}

LEMMA SendingInit == Init => OneUploadEach
  BY DEF Init, OneUploadEach, Sending, NoReq

LEMMA SendingStep == Typing /\ OneUploadEach /\ [Next]_vars => OneUploadEach'
<1> SUFFICES ASSUME Typing, OneUploadEach, [Next]_vars PROVE OneUploadEach'
  OBVIOUS
<1>t. /\ TypeOK
      /\ dataset \in [Uploads -> {"none", "copied", "live", "deleted"}]
      /\ \A r \in Reqs : req[r].at # "idle" /\ req[r].kind # "edit_row" => req[r].id \in Uploads
  BY DEF Typing, TypeOK, About
<1>1. ASSUME NEW r \in Reqs, NEW u \in Uploads, Copy(r, u) PROVE OneUploadEach'
  <2>1. /\ req'[r].at = "owing" /\ req'[r].id = u /\ req'[r].kind = "upload"
        /\ \A q \in Reqs \ {r} : req'[q] = req[q]
    BY <1>1, <1>t, AfterServing DEF Copy
  <2>2. dataset[u] = "none" /\ \A v \in Uploads : dataset'[v] = IF v = u THEN "copied" ELSE dataset[v]
    BY <1>1, <1>t DEF Copy
  <2> QED  BY <1>t, <2>1, <2>2 DEF OneUploadEach, Sending
<1>2. ASSUME NEW r \in Reqs, RecordUpload(r) PROVE OneUploadEach'
  <2>1. req'[r].at = "idle" /\ \A q \in Reqs \ {r} : req'[q] = req[q]
    BY <1>2, <1>t, AfterFinish DEF RecordUpload
  <2>2. req[r].id \in Uploads /\ Sending(r, req[r].id)
    BY <1>2, <1>t DEF RecordUpload, Sending
  <2>3. \A v \in Uploads : dataset'[v] = IF v = req[r].id THEN "live" ELSE dataset[v]
    BY <1>2, <1>t DEF RecordUpload
  <2> QED  BY <1>t, <2>1, <2>2, <2>3 DEF OneUploadEach, Sending
<1>3. ASSUME NEW r \in Reqs, NEW u \in Uploads, NEW k \in {"delete_file", "restore"}, ReadDataset(r, u, k)
      PROVE OneUploadEach'
  <2>1. /\ req'[r].at = "read" /\ req'[r].id = u /\ req'[r].kind = k
        /\ \A q \in Reqs \ {r} : req'[q] = req[q]
    BY <1>3, <1>t, AfterServing DEF ReadDataset
  <2>2. dataset' = dataset /\ dataset[u] \in {"live", "deleted"}
    BY <1>3 DEF ReadDataset
  <2> QED  BY <2>1, <2>2 DEF OneUploadEach, Sending
<1>4. ASSUME NEW r \in Reqs, MarkDeleted(r) PROVE OneUploadEach'
  <2>1. /\ req'[r].at = "owing" /\ req'[r].id = req[r].id /\ req'[r].kind = "delete_file"
        /\ \A q \in Reqs \ {r} : req'[q] = req[q]
    BY <1>4, <1>t, AfterServing DEF MarkDeleted
  <2>2. req[r].id \in Uploads /\ dataset[req[r].id] \in {"live", "deleted"}
    BY <1>4, <1>t DEF MarkDeleted, OneUploadEach
  <2>3. \A v \in Uploads : dataset'[v] = IF v = req[r].id THEN "deleted" ELSE dataset[v]
    BY <1>4, <1>t DEF MarkDeleted
  <2> QED  BY <1>t, <2>1, <2>2, <2>3 DEF OneUploadEach, Sending
<1>5. ASSUME NEW r \in Reqs, RestoreDataset(r) PROVE OneUploadEach'
  <2>1. req'[r].at = "idle" /\ \A q \in Reqs \ {r} : req'[q] = req[q]
    BY <1>5, <1>t, AfterFinish DEF RestoreDataset
  <2>2. req[r].id \in Uploads /\ dataset[req[r].id] \in {"live", "deleted"}
    BY <1>5, <1>t DEF RestoreDataset, OneUploadEach
  <2>3. \A v \in Uploads : dataset'[v] = IF v = req[r].id THEN "live" ELSE dataset[v]
    BY <1>5, <1>t DEF RestoreDataset
  <2> QED  BY <1>t, <2>1, <2>2, <2>3 DEF OneUploadEach, Sending
<1>6. ASSUME NEW r \in Reqs, NEW t \in Tables, EditRow(r, t) PROVE OneUploadEach'
  <2>1. /\ req'[r].kind = "edit_row"
        /\ \A q \in Reqs \ {r} : req'[q] = req[q]
    BY <1>6, <1>t, AfterServing DEF EditRow
  <2>2. dataset' = dataset
    BY <1>6 DEF EditRow
  <2> QED  BY <2>1, <2>2 DEF OneUploadEach, Sending
<1>7. ASSUME NEW r \in Reqs, LogChange(r) \/ Fail(r) PROVE OneUploadEach'
  <2>1. req'[r].at = "idle" /\ \A q \in Reqs \ {r} : req'[q] = req[q]
    BY <1>7, <1>t, AfterFinish DEF LogChange, Fail
  <2>2. dataset' = dataset
    BY <1>7 DEF LogChange, Fail
  <2> QED  BY <2>1, <2>2 DEF OneUploadEach, Sending
<1>8. CASE UNCHANGED vars
  BY <1>8 DEF vars, OneUploadEach, Sending
<1> QED  BY <1>1, <1>2, <1>3, <1>4, <1>5, <1>6, <1>7, <1>8 DEF Next

-----------------------------------------------------------------------------
(* Counting datasets.  Of the deleted ones the changes made are counted    *)
(* first, which the ledger then divides into entered, owed and lost.       *)
Counted == /\ \A t \in Tables : Cardinality(Recorded(t)) = entries[t]["upload"]
           /\ \A n \in FileNames : Cardinality(Deleted(n)) <= made[n]["delete_file"]

LEMMA FiniteDatasets ==
  /\ \A t \in Tables : IsFiniteSet(Recorded(t)) /\ Cardinality(Recorded(t)) \in Nat
  /\ \A n \in FileNames : IsFiniteSet(Deleted(n)) /\ Cardinality(Deleted(n)) \in Nat
<1>1. /\ \A t \in Tables : Recorded(t) \subseteq Uploads
      /\ \A n \in FileNames : Deleted(n) \subseteq Uploads
  BY DEF Recorded, Deleted
<1> QED  BY <1>1, UploadsAssumption, FS_Subset, FS_CardinalityType

LEMMA PlusAt ==
  ASSUME NEW f \in Counts, NEW i, NEW k, About(i, k), NEW t \in Targets, NEW j \in Kinds
  PROVE  /\ f[t][j] \in Nat
         /\ Plus(f, Target(i, k), k)[t][j] = IF t = Target(i, k) /\ j = k THEN f[t][j] + 1 ELSE f[t][j]
<1> DEFINE s == Target(i, k)
<1>1. s \in Targets /\ k \in Kinds
  BY TargetType
<1> HIDE DEF s
<1>2. f[t] \in [Kinds -> Nat] /\ f[s] \in [Kinds -> Nat]
  BY <1>1 DEF Counts
<1>3. Plus(f, s, k)[t] = IF t = s THEN [f[s] EXCEPT ![k] = f[s][k] + 1] ELSE f[t]
  BY <1>1 DEF Plus, Counts
<1>4. Plus(f, s, k)[t][j] = IF t = s /\ j = k THEN f[t][j] + 1 ELSE f[t][j]
  BY <1>1, <1>2, <1>3
<1> QED  BY <1>2, <1>4 DEF s

LEMMA CountedInit == Init => Counted
<1> SUFFICES ASSUME Init PROVE Counted
  OBVIOUS
<1>1. /\ \A t \in Tables : Recorded(t) = {} /\ t \in Targets
      /\ \A n \in FileNames : Deleted(n) = {} /\ n \in Targets
  BY DEF Init, Recorded, Deleted, Targets
<1>2. Cardinality({}) = 0
  BY FS_EmptySet
<1>3. \A t \in Targets : entries[t]["upload"] = 0 /\ made[t]["delete_file"] = 0
  BY DEF Init, Zero, Kinds
<1>4. /\ \A t \in Tables : Cardinality(Recorded(t)) = entries[t]["upload"]
      /\ \A n \in FileNames : Cardinality(Deleted(n)) = made[n]["delete_file"]
  BY <1>1, <1>2, <1>3
<1>5. \A n \in FileNames : made[n]["delete_file"] = 0
  BY <1>1, <1>3
<1> QED  BY <1>4, <1>5 DEF Counted

(* A step that moves no dataset between these sets. *)
LEMMA NoneCounted ==
  ASSUME Counted,
         \A u \in Uploads : dataset'[u] \in {"live", "deleted"} <=> dataset[u] \in {"live", "deleted"},
         \A u \in Uploads : dataset'[u] = "deleted" => dataset[u] = "deleted",
         \A t \in Tables : entries'[t]["upload"] = entries[t]["upload"],
         \A n \in FileNames : made[n]["delete_file"] \in Nat /\ made'[n]["delete_file"] = made[n]["delete_file"]
  PROVE  Counted'
<1>1. \A t \in Tables : Recorded(t)' = Recorded(t)
  BY DEF Recorded
<1>2. \A n \in FileNames : Deleted(n)' \subseteq Deleted(n)
  BY DEF Deleted
<1>3. \A n \in FileNames : Cardinality(Deleted(n)') <= Cardinality(Deleted(n))
                           /\ Cardinality(Deleted(n)') \in Nat
  BY <1>2, FiniteDatasets, FS_Subset, FS_CardinalityType
<1>4. \A t \in Tables : Cardinality(Recorded(t))' = entries'[t]["upload"]
  BY <1>1 DEF Counted
<1>5. \A n \in FileNames : Cardinality(Deleted(n))' <= made'[n]["delete_file"]
  BY <1>3, FiniteDatasets DEF Counted
<1> QED  BY <1>4, <1>5 DEF Counted

LEMMA CountedStep == Typing /\ OneUploadEach /\ Counted /\ [Next]_vars => Counted'
<1> SUFFICES ASSUME Typing, OneUploadEach, Counted, [Next]_vars PROVE Counted'
  OBVIOUS
<1>t. /\ entries \in Counts /\ made \in Counts
      /\ dataset \in [Uploads -> {"none", "copied", "live", "deleted"}]
      /\ \A r \in Reqs : req[r].at # "idle" => About(req[r].id, req[r].kind)
      /\ \A r \in Reqs : req[r].at # "idle" /\ req[r].kind # "edit_row" => req[r].id \in Uploads
      /\ \A u \in Uploads : About(u, "upload") /\ About(u, "delete_file") /\ About(u, "restore")
      /\ \A t \in Tables : About(t, "edit_row")
      /\ Tables \subseteq Targets /\ FileNames \subseteq Targets
      /\ {"upload", "delete_file", "restore", "edit_row"} = Kinds
  BY DEF Typing, TypeOK, About, Targets, Kinds
<1>n. \A t \in Targets, k \in Kinds : entries[t][k] \in Nat /\ made[t][k] \in Nat
  BY <1>t DEF Counts
<1>e. ASSUME NEW i, NEW k, About(i, k), k # "upload", Enter(i, k), NEW t \in Tables
      PROVE  entries'[t]["upload"] = entries[t]["upload"]
  BY <1>e, <1>t, PlusAt DEF Enter
<1>m. ASSUME NEW i, NEW k, About(i, k), k # "delete_file", Make(i, k), NEW n \in FileNames
      PROVE  made'[n]["delete_file"] = made[n]["delete_file"]
  BY <1>m, <1>t, PlusAt DEF Make
<1>1. ASSUME NEW r \in Reqs, NEW u \in Uploads, Copy(r, u) PROVE Counted'
  <2>1. \A v \in Uploads : dataset'[v] = IF v = u THEN "copied" ELSE dataset[v]
    BY <1>1, <1>t DEF Copy
  <2>2. dataset[u] = "none" /\ entries' = entries /\ Make(u, "upload")
    BY <1>1 DEF Copy
  <2> QED  BY <1>e, <1>m, <1>n, <1>t, <2>1, <2>2, NoneCounted
<1>2. ASSUME NEW r \in Reqs, RecordUpload(r) PROVE Counted'
  <2>1. PICK u \in Uploads : u = req[r].id /\ dataset[u] = "copied"
    BY <1>2, <1>t DEF RecordUpload, OneUploadEach, Sending
  <2>2. PICK s \in Tables : s = tableName[u] /\ Target(u, "upload") = s
    BY <2>1, <1>t, TargetType
  <2>3. \A v \in Uploads : dataset'[v] = IF v = u THEN "live" ELSE dataset[v]
    BY <1>2, <1>t, <2>1 DEF RecordUpload
  <2>4. made' = made /\ Enter(u, "upload")
    BY <1>2, <2>1 DEF RecordUpload
  <2>5. \A t \in Tables : entries'[t]["upload"] = IF t = s THEN entries[t]["upload"] + 1 ELSE entries[t]["upload"]
    BY <1>t, <2>1, <2>2, <2>4, PlusAt DEF Enter
  <2>6. /\ Recorded(s)' = Recorded(s) \cup {u} /\ u \notin Recorded(s)
        /\ \A t \in Tables \ {s} : Recorded(t)' = Recorded(t)
    BY <2>1, <2>2, <2>3 DEF Recorded
  <2>7. \A n \in FileNames : Deleted(n)' = Deleted(n)
    BY <2>1, <2>3 DEF Deleted
  <2>8. Cardinality(Recorded(s)') = Cardinality(Recorded(s)) + 1
    BY <2>2, <2>6, FiniteDatasets, FS_AddElement
  <2>9. \A t \in Tables : Cardinality(Recorded(t)') = entries'[t]["upload"]
    BY <2>2, <2>5, <2>6, <2>8 DEF Counted
  <2>10. \A n \in FileNames : Cardinality(Deleted(n)') <= made'[n]["delete_file"]
    BY <2>4, <2>7 DEF Counted
  <2> QED  BY <2>9, <2>10 DEF Counted
<1>3. ASSUME NEW r \in Reqs, NEW u \in Uploads, NEW k \in {"delete_file", "restore"}, ReadDataset(r, u, k)
      PROVE Counted'
  BY <1>3, <1>n, <1>t, NoneCounted DEF ReadDataset
<1>4. ASSUME NEW r \in Reqs, MarkDeleted(r) PROVE Counted'
  <2>1. PICK u \in Uploads : u = req[r].id /\ dataset[u] \in {"live", "deleted"}
    BY <1>4, <1>t DEF MarkDeleted, OneUploadEach
  <2>2. PICK m \in FileNames : m = fileName[u] /\ Target(u, "delete_file") = m
    BY <2>1, <1>t, TargetType
  <2>3. \A v \in Uploads : dataset'[v] = IF v = u THEN "deleted" ELSE dataset[v]
    BY <1>4, <1>t, <2>1 DEF MarkDeleted
  <2>4. entries' = entries /\ Make(u, "delete_file")
    BY <1>4, <2>1 DEF MarkDeleted
  <2>5. \A n \in FileNames : made'[n]["delete_file"]
           = IF n = m THEN made[n]["delete_file"] + 1 ELSE made[n]["delete_file"]
    BY <1>t, <2>1, <2>2, <2>4, PlusAt DEF Make
  <2>6. \A t \in Tables : Recorded(t)' = Recorded(t)
    BY <2>1, <2>3 DEF Recorded
  <2>7. /\ Deleted(m)' = Deleted(m) \cup {u}
        /\ \A n \in FileNames \ {m} : Deleted(n)' = Deleted(n)
    BY <2>1, <2>2, <2>3 DEF Deleted
  <2>8. Cardinality(Deleted(m)') <= Cardinality(Deleted(m)) + 1
    <3>1. Cardinality(Deleted(m) \cup {u}) \in {Cardinality(Deleted(m)), Cardinality(Deleted(m)) + 1}
      BY <2>2, FiniteDatasets, FS_AddElement
    <3> QED  BY <2>2, <2>7, <3>1, FiniteDatasets
  <2>9. \A t \in Tables : Cardinality(Recorded(t)') = entries'[t]["upload"]
    BY <2>4, <2>6 DEF Counted
  <2>10. ASSUME NEW n \in FileNames
         PROVE  Cardinality(Deleted(n)') <= made'[n]["delete_file"]
    <3>1. Cardinality(Deleted(n)) \in Nat /\ made[n]["delete_file"] \in Nat
          /\ Cardinality(Deleted(n)) <= made[n]["delete_file"]
      BY <1>n, <1>t, FiniteDatasets DEF Counted
    <3>2. CASE n = m
      <4>1. Cardinality(Deleted(n)') \in Nat
        BY <2>2, <2>7, <3>2, FiniteDatasets, FS_AddElement, FS_CardinalityType
      <4> QED  BY <2>2, <2>5, <2>8, <3>1, <3>2, <4>1
    <3>3. CASE n # m
      BY <2>5, <2>7, <3>1, <3>3
    <3> QED  BY <3>2, <3>3
  <2> QED  BY <2>9, <2>10 DEF Counted
<1>5. ASSUME NEW r \in Reqs, RestoreDataset(r) PROVE Counted'
  <2>1. req[r].id \in Uploads /\ dataset[req[r].id] \in {"live", "deleted"}
    BY <1>5, <1>t DEF RestoreDataset, OneUploadEach
  <2>2. \A v \in Uploads : dataset'[v] = IF v = req[r].id THEN "live" ELSE dataset[v]
    BY <1>5, <1>t DEF RestoreDataset
  <2>3. Enter(req[r].id, "restore") /\ Make(req[r].id, "restore")
    BY <1>5 DEF RestoreDataset
  <2> QED  BY <1>e, <1>m, <1>n, <1>t, <2>1, <2>2, <2>3, NoneCounted
<1>6. ASSUME NEW r \in Reqs, NEW t \in Tables, EditRow(r, t) PROVE Counted'
  <2>1. dataset' = dataset /\ entries' = entries /\ Make(t, "edit_row")
    BY <1>6 DEF EditRow
  <2> QED  BY <1>e, <1>m, <1>n, <1>t, <2>1, NoneCounted
<1>7. ASSUME NEW r \in Reqs, LogChange(r) PROVE Counted'
  <2>1. About(req[r].id, req[r].kind) /\ req[r].kind # "upload"
    BY <1>7, <1>t DEF LogChange
  <2>2. dataset' = dataset /\ made' = made /\ Enter(req[r].id, req[r].kind)
    BY <1>7 DEF LogChange
  <2> QED  BY <1>e, <1>m, <1>n, <1>t, <2>1, <2>2, NoneCounted
<1>8. ASSUME NEW r \in Reqs, Fail(r) PROVE Counted'
  BY <1>8, <1>n, <1>t, NoneCounted DEF Fail
<1>9. CASE UNCHANGED vars
  BY <1>9, <1>n, <1>t, NoneCounted DEF vars
<1> QED  BY <1>1, <1>2, <1>3, <1>4, <1>5, <1>6, <1>7, <1>8, <1>9 DEF Next

(* A table has as many uploads on record as upload entries, and no more    *)
(* datasets of one file name are deleted than deletions were entered, are  *)
(* owed or were lost with their requests.                                  *)
THEOREM DatasetsCounted == Spec => []TrailCountsDatasets
<1>1. Typing /\ Counted /\ Trail!Balanced => TrailCountsDatasets
  <2> SUFFICES ASSUME Typing, Counted, Trail!Balanced, NEW n \in FileNames
               PROVE  Cardinality(Deleted(n))
                        <= entries[n]["delete_file"] + Owed[n]["delete_file"] + lost[n]["delete_file"]
    BY DEF TrailCountsDatasets, Counted
  <2>1. n \in Targets /\ "delete_file" \in Kinds
    BY DEF Targets, Kinds
  <2>2. made[n]["delete_file"] = entries[n]["delete_file"] + Owed[n]["delete_file"] + lost[n]["delete_file"]
    BY <2>1 DEF Trail!Balanced
  <2> QED  BY <2>2 DEF Counted
<1> QED  BY TypeInit, TypeStep, SendingInit, SendingStep, CountedInit, CountedStep,
            ChangesAccountedFor, <1>1, PTL DEF Spec
=============================================================================
