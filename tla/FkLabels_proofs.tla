-------------------------- MODULE FkLabels_proofs --------------------------
(* Theorems about FkLabels, for any number of codes, names, workers and    *)
(* requests.                                                               *)
EXTENDS FkLabels, TLAPS

-----------------------------------------------------------------------------
(* What the steps leave *)

(* An operator for the update of a map, so that its type is stated once. *)
LEMMA NamedMap ==
  ASSUME NEW m \in Labels, NEW c \in Codes, NEW n \in Names \cup {NoName}
  PROVE  [m EXCEPT ![c] = n] \in Labels
BY DEF Labels

LEMMA MissingFields ==
  ASSUME req \in [Reqs -> Req], NEW c \in Codes, NEW W, NEW r \in Reqs
  PROVE  /\ Missing(c, W)[r] \in Req
         /\ Missing(c, W)[r].at = req[r].at /\ Missing(c, W)[r].map = req[r].map
         /\ req[r].at = "loading" /\ WorkerOf[r] \in W
              => Missing(c, W)[r].missed = req[r].missed \cup {c}
<1> DEFINE e == [req[r] EXCEPT !.missed = @ \cup {c}]
<1>1. e \in Req /\ e.at = req[r].at /\ e.map = req[r].map /\ e.missed = req[r].missed \cup {c}
  BY DEF Req
<1>2. Missing(c, W)[r] = IF req[r].at = "loading" /\ WorkerOf[r] \in W THEN e ELSE req[r]
  BY DEF Missing
<1>. HIDE DEF e
<1>. QED BY <1>1, <1>2

LEMMA MissingTyped ==
  ASSUME req \in [Reqs -> Req], NEW c \in Codes, NEW W
  PROVE  Missing(c, W) \in [Reqs -> Req]
<1>1. \A r \in Reqs : Missing(c, W)[r] \in Req BY MissingFields
<1>2. Missing(c, W) = [r \in Reqs |-> Missing(c, W)[r]] BY DEF Missing
<1>. QED BY <1>1, <1>2

LEMMA UntoldTyped ==
  ASSUME moved \in [Workers -> SUBSET Codes], NEW c \in Codes, NEW W, Untold(c, W)
  PROVE  moved' \in [Workers -> SUBSET Codes]
BY DEF Untold

LEMMA NoReqTyped == NoReq \in Req /\ NoReq.at = "idle"
BY DEF NoReq, Req

LEMMA HitGives ==
  ASSUME TypeOK, NEW r \in Reqs, Hit(r)
  PROVE  /\ req[r].at = "idle" /\ UNCHANGED <<names, cache, moved>>
         /\ req' \in [Reqs -> Req] /\ req'[r].at = "loaded" /\ req'[r].map \in Labels
         /\ \A q \in Reqs : q # r => req'[q] = req[q]
<1>1. cache[WorkerOf[r]] \in Labels BY WorkerOfAssumption DEF Hit, TypeOK
<1> DEFINE e == [NoReq EXCEPT !.at = "loaded", !.map = cache[WorkerOf[r]]]
<1>2. e \in Req /\ e.at = "loaded" /\ e.map = cache[WorkerOf[r]] BY <1>1 DEF Req, NoReq
<1>3. req' = [req EXCEPT ![r] = e] /\ req[r].at = "idle" /\ UNCHANGED <<names, cache, moved>>
  BY DEF Hit
<1>. HIDE DEF e
<1>. QED BY <1>1, <1>2, <1>3 DEF TypeOK

LEMMA FetchGives ==
  ASSUME TypeOK, NEW r \in Reqs, Fetch(r)
  PROVE  /\ req[r].at = "idle" /\ UNCHANGED <<names, cache, moved>>
         /\ req' \in [Reqs -> Req] /\ req'[r].at = "loading" /\ req'[r].map = names
         /\ \A q \in Reqs : q # r => req'[q] = req[q]
<1> DEFINE e == [NoReq EXCEPT !.at = "loading", !.map = names]
<1>1. e \in Req /\ e.at = "loading" /\ e.map = names BY DEF Req, NoReq, TypeOK
<1>2. req' = [req EXCEPT ![r] = e] /\ req[r].at = "idle" /\ UNCHANGED <<names, cache, moved>>
  BY DEF Fetch
<1>. HIDE DEF e
<1>. QED BY <1>1, <1>2 DEF TypeOK

LEMMA StoreGives ==
  ASSUME TypeOK, NEW r \in Reqs, Store(r)
  PROVE  /\ req[r].at = "loading" /\ names' = names
         /\ cache' = [cache EXCEPT ![WorkerOf[r]] = req[r].map]
         /\ moved' = [moved EXCEPT ![WorkerOf[r]] = req[r].missed]
         /\ req' \in [Reqs -> Req] /\ req'[r].at = "loaded" /\ req'[r].map = req[r].map
         /\ \A q \in Reqs : q # r => req'[q] = req[q]
<1> DEFINE e == [req[r] EXCEPT !.at = "loaded", !.missed = {}]
<1>1. e \in Req /\ e.at = "loaded" /\ e.map = req[r].map BY DEF Req, TypeOK
<1>2. req' = [req EXCEPT ![r] = e] BY DEF Store, TypeOK
<1>. HIDE DEF e
<1>. QED BY <1>1, <1>2 DEF Store, TypeOK

LEMMA EditGives ==
  ASSUME TypeOK, NEW r \in Reqs, NEW c \in Codes, NEW n \in Names, EditName(r, c, n)
  PROVE  /\ names' = [names EXCEPT ![c] = n] /\ cache' = cache
         /\ Untold(c, Workers \ {WorkerOf[r]})
         /\ req' \in [Reqs -> Req] /\ req'[r].at = "edited"
<1> DEFINE e == [NoReq EXCEPT !.at = "edited"]
           q == Missing(c, Workers \ {WorkerOf[r]})
<1>1. e \in Req /\ e.at = "edited" BY DEF Req, NoReq
<1>2. q \in [Reqs -> Req] BY MissingTyped DEF TypeOK
<1>3. req' = [q EXCEPT ![r] = e] BY DEF EditName
<1>. HIDE DEF e, q
<1>4. req' \in [Reqs -> Req] /\ req'[r].at = "edited" BY <1>1, <1>2, <1>3
<1>. QED BY <1>4 DEF EditName

LEMMA EditLeaves ==
  ASSUME TypeOK, NEW r \in Reqs, NEW c \in Codes, NEW n \in Names, EditName(r, c, n),
         NEW q \in Reqs, q # r
  PROVE  /\ req'[q] = Missing(c, Workers \ {WorkerOf[r]})[q]
         /\ req'[q].at = req[q].at /\ req'[q].map = req[q].map
<1>1. Missing(c, Workers \ {WorkerOf[r]}) \in [Reqs -> Req] BY MissingTyped DEF TypeOK
<1>2. req'[q] = Missing(c, Workers \ {WorkerOf[r]})[q] BY <1>1 DEF EditName
<1>. QED BY <1>2, MissingFields DEF TypeOK

-----------------------------------------------------------------------------
(* Types *)

LEMMA InitTyped == Init => TypeOK
BY NoReqTyped DEF Init, TypeOK, NoReq, Labels

LEMMA StepTyped == TypeOK /\ [Next]_vars => TypeOK'
<1> SUFFICES ASSUME TypeOK, [Next]_vars PROVE TypeOK'
  OBVIOUS
<1>1. ASSUME NEW r \in Reqs, Hit(r) PROVE TypeOK'
  BY <1>1, HitGives DEF TypeOK
<1>2. ASSUME NEW r \in Reqs, Fetch(r) PROVE TypeOK'
  BY <1>2, FetchGives DEF TypeOK
<1>3. ASSUME NEW r \in Reqs, Store(r) PROVE TypeOK'
  <2>1. req[r].map \in Labels /\ req[r].missed \in SUBSET Codes
    BY <1>3, StoreGives DEF TypeOK, Req
  <2>. QED BY <1>3, <2>1, StoreGives, WorkerOfAssumption DEF TypeOK
<1>4. ASSUME NEW r \in Reqs, Respond(r) PROVE TypeOK'
  BY <1>4, NoReqTyped DEF Respond, TypeOK
<1>5. ASSUME NEW r \in Reqs, Invalidate(r) PROVE TypeOK'
  BY <1>5, NoReqTyped DEF Invalidate, TypeOK
<1>6. ASSUME NEW r \in Reqs, NEW c \in Codes, NEW n \in Names, EditName(r, c, n) PROVE TypeOK'
  <2>1. names' \in Labels BY <1>6, NamedMap DEF EditName, TypeOK
  <2>2. moved' \in [Workers -> SUBSET Codes] BY <1>6, EditGives, UntoldTyped DEF TypeOK
  <2>3. \A q \in Reqs : req'[q].at \in {"loading", "loaded"} => req'[q].map \in Labels
    <3>1. ASSUME NEW q \in Reqs, q # r PROVE req'[q].at = req[q].at /\ req'[q].map = req[q].map
      BY <1>6, <3>1, EditLeaves
    <3>2. req'[r].at = "edited" BY <1>6, EditGives
    <3>. QED BY <3>1, <3>2 DEF TypeOK
  <2>. QED BY <1>6, <2>1, <2>2, <2>3, EditGives DEF TypeOK
<1>7. ASSUME NEW c \in Codes, NEW n \in Names \cup {NoName}, names' = [names EXCEPT ![c] = n],
             req' = Missing(c, Workers), Untold(c, Workers), cache' = cache
      PROVE  TypeOK'
  <2>1. names' \in Labels BY <1>7, NamedMap DEF TypeOK
  <2>2. moved' \in [Workers -> SUBSET Codes] BY <1>7, UntoldTyped DEF TypeOK
  <2>3. \A q \in Reqs : req'[q].at = req[q].at /\ req'[q].map = req[q].map
    BY <1>7, MissingFields DEF TypeOK
  <2>4. req' \in [Reqs -> Req] BY <1>7, MissingTyped DEF TypeOK
  <2>. QED BY <1>7, <2>1, <2>2, <2>3, <2>4 DEF TypeOK
<1>8. ASSUME NEW w \in Workers, Restart(w) PROVE TypeOK'
  BY <1>8, NoReqTyped DEF Restart, TypeOK
<1>9. CASE UNCHANGED vars
  BY <1>9 DEF vars, TypeOK
<1>. QED BY <1>1, <1>2, <1>3, <1>4, <1>5, <1>6, <1>7, <1>8, <1>9 DEF Next, AddRow, RemoveRow

(* Every variable keeps its type, and a request that answers has a map to  *)
(* answer from.                                                            *)
THEOREM TypeCorrect == Spec => []TypeOK
<1>1. Init => TypeOK BY InitTyped
<1>2. TypeOK /\ [Next]_vars => TypeOK' BY StepTyped
<1>. QED BY <1>1, <1>2, PTL DEF Spec

-----------------------------------------------------------------------------
(* The cache and the maps about to become it *)

(* A map that is not stored yet is as good as the cache will be. *)
FetchedFollows ==
  \A r \in Reqs : req[r].at = "loading" /\ ~Editing(WorkerOf[r])
                    => Follows(req[r].map, Codes \ req[r].missed)
IInv == TypeOK /\ CacheFollowsEdits /\ FetchedFollows

LEMMA InitFollows == Init => IInv
BY InitTyped DEF Init, IInv, CacheFollowsEdits, FetchedFollows, NoReq

(* A change of one code is no news for a map that is not held to know it. *)
LEMMA StillFollows ==
  ASSUME TypeOK, NEW map, NEW known \in SUBSET Codes, Follows(map, known),
         NEW c \in Codes, NEW n, names' = [names EXCEPT ![c] = n]
  PROVE  Follows(map, known \ {c})'
BY DEF Follows, TypeOK, Labels

LEMMA EditStarts ==
  ASSUME NEW r \in Reqs, req'[r].at = "edited"
  PROVE  Editing(WorkerOf[r])'
BY DEF Editing

(* A change that some of the workers W are not told of. *)
LEMMA ChangeFollows ==
  ASSUME IInv, NEW c \in Codes, NEW n, NEW W \in SUBSET Workers,
         names' = [names EXCEPT ![c] = n], cache' = cache, Untold(c, W),
         \A w \in Workers \ W : Editing(w)', \A w \in W : Editing(w) => Editing(w)',
         \A q \in Reqs : req'[q].at = "loading" => req'[q] = Missing(c, W)[q]
  PROVE  CacheFollowsEdits' /\ FetchedFollows'
<1>. USE WorkerOfAssumption
<1>0. TypeOK BY DEF IInv
<1>1. ASSUME NEW w \in Workers, cache'[w] # NoMap, ~Editing(w)'
      PROVE  \A k \in Codes \ moved'[w] : cache[w][k] = names'[k]
  <2>1. w \in W /\ ~Editing(w) BY <1>1
  <2>2. Follows(cache[w], Codes \ moved[w]) BY <1>1, <2>1 DEF IInv, CacheFollowsEdits
  <2>3. moved'[w] = moved[w] \cup {c} BY <2>1 DEF Untold
  <2> DEFINE map == cache[w]
             known == Codes \ moved[w]
  <2>4. known \in SUBSET Codes /\ Codes \ moved'[w] = known \ {c} BY <2>3
  <2>. HIDE DEF map, known
  <2>5. \A k \in known \ {c} : map[k] = names'[k]
    BY <1>0, <2>2, <2>4, StillFollows DEF Follows, map, known
  <2>. QED BY <2>4, <2>5 DEF Follows, map
<1>2. ASSUME NEW q \in Reqs, req'[q].at = "loading", ~Editing(WorkerOf[q])'
      PROVE  \A k \in Codes \ req'[q].missed : req'[q].map[k] = names'[k]
  <2>1. WorkerOf[q] \in W /\ ~Editing(WorkerOf[q]) BY <1>2
  <2>2. /\ req[q].at = "loading" /\ req'[q].map = req[q].map
        /\ req'[q].missed = req[q].missed \cup {c}
    BY <1>0, <1>2, <2>1, MissingFields DEF TypeOK
  <2>3. Follows(req[q].map, Codes \ req[q].missed) BY <2>1, <2>2 DEF IInv, FetchedFollows
  <2> DEFINE map == req[q].map
             known == Codes \ req[q].missed
  <2>4. known \in SUBSET Codes /\ Codes \ req'[q].missed = known \ {c} BY <2>2
  <2>. HIDE DEF map, known
  <2>5. \A k \in known \ {c} : map[k] = names'[k]
    BY <1>0, <2>3, <2>4, StillFollows DEF Follows, map, known
  <2>. QED BY <2>2, <2>4, <2>5 DEF Follows, map
<1>. QED BY <1>1, <1>2 DEF CacheFollowsEdits, FetchedFollows, Follows

(* One that changes no name. *)
LEMMA QuietFollows ==
  ASSUME IInv, NEW r \in Reqs, names' = names, \A q \in Reqs : q # r => req'[q] = req[q],
         req[r].at # "edited", req'[r].at # "edited",
         req'[r].at = "loading" => Follows(req'[r].map, Codes \ req'[r].missed),
         \A w \in Workers : \/ cache'[w] = NoMap
                            \/ cache'[w] = cache[w] /\ moved'[w] = moved[w]
                            \/ Editing(w) \/ Follows(cache'[w], Codes \ moved'[w])
  PROVE  CacheFollowsEdits' /\ FetchedFollows'
<1>. USE WorkerOfAssumption
<1>1. \A w \in Workers : Editing(w) <=> Editing(w)' BY DEF Editing
<1>2. CacheFollowsEdits'
  <2> SUFFICES ASSUME NEW w \in Workers, cache'[w] # NoMap, ~Editing(w)
               PROVE  \A k \in Codes \ moved'[w] : cache'[w][k] = names[k]
    BY <1>1 DEF CacheFollowsEdits, Follows
  <2>. QED BY DEF IInv, CacheFollowsEdits, Follows
<1>3. FetchedFollows'
  <2> SUFFICES ASSUME NEW q \in Reqs, req'[q].at = "loading", ~Editing(WorkerOf[q])
               PROVE  \A k \in Codes \ req'[q].missed : req'[q].map[k] = names[k]
    BY <1>1 DEF FetchedFollows, Follows
  <2>. QED BY DEF IInv, FetchedFollows, Follows
<1>. QED BY <1>2, <1>3

LEMMA StepFollows == IInv /\ [Next]_vars /\ [NoFetchOutlivesEdits]_vars => IInv'
<1> SUFFICES ASSUME IInv, [Next]_vars, [NoFetchOutlivesEdits]_vars
             PROVE  CacheFollowsEdits' /\ FetchedFollows'
  BY StepTyped DEF IInv
<1>. USE WorkerOfAssumption
<1>0. TypeOK BY DEF IInv
<1>1. ASSUME NEW r \in Reqs, Hit(r) PROVE CacheFollowsEdits' /\ FetchedFollows'
  BY <1>0, <1>1, HitGives, QuietFollows
<1>2. ASSUME NEW r \in Reqs, Fetch(r) PROVE CacheFollowsEdits' /\ FetchedFollows'
  BY <1>0, <1>2, FetchGives, QuietFollows DEF Follows
<1>3. ASSUME NEW r \in Reqs, Store(r) PROVE CacheFollowsEdits' /\ FetchedFollows'
  <2>1. ASSUME NEW w \in Workers
        PROVE  \/ cache'[w] = cache[w] /\ moved'[w] = moved[w]
               \/ Editing(w) \/ Follows(cache'[w], Codes \ moved'[w])
    <3>1. CASE w # WorkerOf[r] BY <1>0, <1>3, <3>1, StoreGives DEF TypeOK
    <3>2. CASE w = WorkerOf[r]
      <4>1. req[r].at = "loading" /\ cache'[w] = req[r].map /\ moved'[w] = req[r].missed
        BY <1>0, <1>3, <3>2, StoreGives DEF TypeOK
      <4>. QED BY <3>2, <4>1 DEF IInv, FetchedFollows
    <3>. QED BY <3>1, <3>2
  <2>2. /\ names' = names /\ req[r].at # "edited" /\ req'[r].at \notin {"edited", "loading"}
        /\ \A q \in Reqs : q # r => req'[q] = req[q]
    BY <1>0, <1>3, StoreGives
  <2>. QED BY <2>1, <2>2, QuietFollows
<1>4. ASSUME NEW r \in Reqs, Respond(r) PROVE CacheFollowsEdits' /\ FetchedFollows'
  <2>1. /\ req[r].at = "loaded" /\ req'[r].at = "idle" /\ UNCHANGED <<names, cache, moved>>
        /\ \A q \in Reqs : q # r => req'[q] = req[q]
    BY <1>0, <1>4, NoReqTyped DEF Respond, TypeOK
  <2>. QED BY <2>1, QuietFollows
<1>5. ASSUME NEW r \in Reqs, Invalidate(r) PROVE CacheFollowsEdits' /\ FetchedFollows'
  <2>1. /\ req[r].at = "edited" /\ req'[r].at = "idle" /\ names' = names /\ moved' = moved
        /\ \A q \in Reqs : q # r => req'[q] = req[q]
        /\ cache' = [cache EXCEPT ![WorkerOf[r]] = NoMap]
    BY <1>0, <1>5, NoReqTyped DEF Invalidate, TypeOK
  <2>2. \A w \in Workers : w # WorkerOf[r] => cache'[w] = cache[w] /\ (Editing(w) <=> Editing(w)')
    BY <1>0, <2>1 DEF Editing, TypeOK
  <2>3. cache'[WorkerOf[r]] = NoMap BY <1>0, <2>1 DEF TypeOK
  <2>4. CacheFollowsEdits'
    <3> SUFFICES ASSUME NEW w \in Workers, cache'[w] # NoMap, ~Editing(w)'
                 PROVE  \A k \in Codes \ moved[w] : cache'[w][k] = names[k]
      BY <2>1 DEF CacheFollowsEdits, Follows
    <3>. QED BY <2>2, <2>3 DEF IInv, CacheFollowsEdits, Follows
  <2>5. FetchedFollows'
    <3> SUFFICES ASSUME NEW q \in Reqs, req'[q].at = "loading", ~Editing(WorkerOf[q])'
                 PROVE  \A k \in Codes \ req'[q].missed : req'[q].map[k] = names[k]
      BY <2>1 DEF FetchedFollows, Follows
    <3>1. req'[q] = req[q] BY <2>1
    <3>2. CASE ~Editing(WorkerOf[q])
      BY <3>1, <3>2 DEF IInv, FetchedFollows, Follows
    <3>3. CASE Editing(WorkerOf[q])
      <4>1. req' # req BY <2>1
      <4>. QED BY <3>1, <3>3, <4>1 DEF NoFetchOutlivesEdits, Follows, vars
    <3>. QED BY <3>2, <3>3
  <2>. QED BY <2>4, <2>5
<1>6. ASSUME NEW r \in Reqs, NEW c \in Codes, NEW n \in Names, EditName(r, c, n)
      PROVE  CacheFollowsEdits' /\ FetchedFollows'
  <2> DEFINE W == Workers \ {WorkerOf[r]}
  <2>1. /\ names' = [names EXCEPT ![c] = n] /\ cache' = cache /\ Untold(c, W)
        /\ req'[r].at = "edited"
    BY <1>0, <1>6, EditGives
  <2>2. ASSUME NEW q \in Reqs, q # r PROVE req'[q] = Missing(c, W)[q] /\ req'[q].at = req[q].at
    BY <1>0, <1>6, <2>2, EditLeaves
  <2>3. \A w \in W : Editing(w) => Editing(w)' BY <2>2 DEF Editing
  <2>4. \A w \in Workers \ W : Editing(w)' BY <2>1, EditStarts
  <2>5. W \in SUBSET Workers /\ \A q \in Reqs : req'[q].at = "loading" => req'[q] = Missing(c, W)[q]
    BY <2>1, <2>2
  <2>. HIDE DEF W
  <2>. QED BY <2>1, <2>3, <2>4, <2>5, ChangeFollows
<1>7. ASSUME NEW c \in Codes, NEW n, names' = [names EXCEPT ![c] = n],
             req' = Missing(c, Workers), Untold(c, Workers), cache' = cache
      PROVE  CacheFollowsEdits' /\ FetchedFollows'
  <2>1. \A q \in Reqs : req'[q].at = req[q].at BY <1>0, <1>7, MissingFields DEF TypeOK
  <2>2. \A w \in Workers : Editing(w) => Editing(w)' BY <2>1 DEF Editing
  <2>. QED BY <1>7, <2>2, ChangeFollows
<1>8. ASSUME NEW w \in Workers, Restart(w) PROVE CacheFollowsEdits' /\ FetchedFollows'
  <2>1. /\ names' = names /\ moved' = moved /\ cache'[w] = NoMap
        /\ \A v \in Workers : v # w => cache'[v] = cache[v]
        /\ \A q \in Reqs : IF WorkerOf[q] = w THEN req'[q].at = "idle" ELSE req'[q] = req[q]
    BY <1>0, <1>8, NoReqTyped DEF Restart, TypeOK
  <2>2. \A v \in Workers : v # w => (Editing(v) <=> Editing(v)') BY <2>1 DEF Editing
  <2>3. CacheFollowsEdits'
    <3> SUFFICES ASSUME NEW v \in Workers, cache'[v] # NoMap, ~Editing(v)'
                 PROVE  \A k \in Codes \ moved[v] : cache'[v][k] = names[k]
      BY <2>1 DEF CacheFollowsEdits, Follows
    <3>. QED BY <2>1, <2>2 DEF IInv, CacheFollowsEdits, Follows
  <2>4. FetchedFollows'
    <3> SUFFICES ASSUME NEW q \in Reqs, req'[q].at = "loading", ~Editing(WorkerOf[q])'
                 PROVE  \A k \in Codes \ req'[q].missed : req'[q].map[k] = names[k]
      BY <2>1 DEF FetchedFollows, Follows
    <3>. QED BY <2>1, <2>2 DEF IInv, FetchedFollows, Follows
  <2>. QED BY <2>3, <2>4
<1>9. CASE UNCHANGED vars
  BY <1>9 DEF vars, IInv, CacheFollowsEdits, FetchedFollows, Editing, Follows
<1>. QED BY <1>1, <1>2, <1>3, <1>4, <1>5, <1>6, <1>7, <1>8, <1>9 DEF Next, AddRow, RemoveRow

(* tables.py:439: an edit is never hidden by the label cache of the worker *)
(* that served it, however many workers and requests there are and         *)
(* whatever else writes the table, as long as no request of that worker    *)
(* still has a map from before the edit in hand when the edit invalidates. *)
THEOREM CacheFollows == Spec /\ [][NoFetchOutlivesEdits]_vars => []CacheFollowsEdits
<1>1. Init => IInv BY InitFollows
<1>2. IInv /\ [Next]_vars /\ [NoFetchOutlivesEdits]_vars => IInv' BY StepFollows
<1>3. [Next]_vars /\ [NoFetchOutlivesEdits]_vars => [Next /\ NoFetchOutlivesEdits]_vars
  OBVIOUS
<1>4. IInv /\ [Next /\ NoFetchOutlivesEdits]_vars => IInv' BY <1>2
<1>5. IInv => CacheFollowsEdits BY DEF IInv
<1>. QED BY <1>1, <1>3, <1>4, <1>5, PTL DEF Spec

(* So it is in the behaviours that TLC explores. *)
THEOREM UndisturbedCacheFollows == UndisturbedSpec => []CacheFollowsEdits
<1>1. [UndisturbedNext]_vars => [Next]_vars /\ [NoFetchOutlivesEdits]_vars
  BY DEF UndisturbedNext
<1>2. UndisturbedSpec => Spec /\ [][NoFetchOutlivesEdits]_vars
  BY <1>1, PTL DEF UndisturbedSpec, Spec
<1>. QED BY <1>2, CacheFollows

(* And where every worker serves one request at a time. *)
Alone == \A r, q \in Reqs : WorkerOf[r] = WorkerOf[q] => r = q

THEOREM AloneIsUndisturbed ==
  ASSUME Alone PROVE Spec => UndisturbedSpec
<1>1. [Next]_vars => [UndisturbedNext]_vars
  <2>1. NoFetchOutlivesEdits BY DEF NoFetchOutlivesEdits, Editing, Alone
  <2>. QED BY <2>1 DEF UndisturbedNext
<1>. QED BY <1>1, PTL DEF Spec, UndisturbedSpec
=============================================================================
