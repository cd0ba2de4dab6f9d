------------------------------ MODULE FkLabels ------------------------------
(***************************************************************************)
(* The label maps of src/app/services/fk_labels.py for one reference       *)
(* table.  Every worker process keeps its own _cache.  A map is read from  *)
(* the table (an await) and stored afterwards, so that an edit and its     *)
(* invalidate() can fall in between; and only update_row invalidates, in   *)
(* the worker that served the edit.                                        *)
(***************************************************************************)
EXTENDS Naturals, FiniteSets

CONSTANTS
  Workers,     \* gunicorn worker processes
  Reqs,        \* requests in flight at once (a bound)
  WorkerOf,    \* the worker that serves a request
  Codes,       \* primary keys of the reference table
  Names,       \* friendly names
  NoName, NoMap

ASSUME WorkerOfAssumption == WorkerOf \in [Reqs -> Workers]
ASSUME NoNameAssumption == NoName \notin Names

Labels == [Codes -> Names \cup {NoName}]
ASSUME NoMapAssumption == NoMap \notin Labels

VARIABLES
  names,   \* the reference table: the name of each code, NoName when absent
  cache,   \* _cache[ref_table] of each worker, NoMap when it has no entry
  req,     \* the request: what it does and the map it has read
  moved    \* history: the codes changed behind each worker's cache since it was read

vars == <<names, cache, req, moved>>

(* missed is history: what moved will be once the map it has read is the cache. *)
Req == [at : {"idle", "loading", "loaded", "edited"}, map : Labels \cup {NoMap},
        missed : SUBSET Codes]
NoReq == [at |-> "idle", map |-> NoMap, missed |-> {}]

CodesOf(map) == {c \in Codes : map[c] # NoName}

Init == /\ names \in {n \in Labels : CodesOf(n) # {}}
        /\ cache = [w \in Workers |-> NoMap]
        /\ req = [r \in Reqs |-> NoReq]
        /\ moved = [w \in Workers |-> {}]

(* Code c changes and the workers in W are not told. *)
Missing(c, W) ==
  [r \in Reqs |-> IF req[r].at = "loading" /\ WorkerOf[r] \in W
                  THEN [req[r] EXCEPT !.missed = @ \cup {c}] ELSE req[r]]
Untold(c, W) == moved' = [w \in Workers |-> IF w \in W THEN moved[w] \cup {c} ELSE moved[w]]

-----------------------------------------------------------------------------
(* _load: from the cache, or from the table in two steps *)

HitAlways(r) ==        \* mutant
  /\ req[r].at = "idle"
  /\ req' = [req EXCEPT ![r] = [NoReq EXCEPT !.at = "loaded", !.map = cache[WorkerOf[r]]]]
  /\ UNCHANGED <<names, cache, moved>>

Hit(r) == /\ req[r].at = "idle"
          /\ cache[WorkerOf[r]] # NoMap
          /\ req' = [req EXCEPT ![r] = [NoReq EXCEPT !.at = "loaded", !.map = cache[WorkerOf[r]]]]
          /\ UNCHANGED <<names, cache, moved>>

Fetch(r) == /\ req[r].at = "idle"
            /\ cache[WorkerOf[r]] = NoMap
            /\ req' = [req EXCEPT ![r] = [NoReq EXCEPT !.at = "loading", !.map = names]]
            /\ UNCHANGED <<names, cache, moved>>

Store(r) == /\ req[r].at = "loading"
            /\ cache' = [cache EXCEPT ![WorkerOf[r]] = req[r].map]
            /\ moved' = [moved EXCEPT ![WorkerOf[r]] = req[r].missed]
            /\ req' = [req EXCEPT ![r].at = "loaded", ![r].missed = {}]
            /\ UNCHANGED names

Respond(r) == /\ req[r].at = "loaded"
              /\ req' = [req EXCEPT ![r] = NoReq]
              /\ UNCHANGED <<names, cache, moved>>

-----------------------------------------------------------------------------
(* update_row on the reference table, then invalidate() in this worker *)

EditName(r, c, n) ==
  /\ req[r].at = "idle"
  /\ names[c] # NoName
  /\ names' = [names EXCEPT ![c] = n]
  /\ req' = [Missing(c, Workers \ {WorkerOf[r]}) EXCEPT ![r] = [NoReq EXCEPT !.at = "edited"]]
  /\ Untold(c, Workers \ {WorkerOf[r]})
  /\ UNCHANGED cache

InvalidateNothing(r) ==        \* mutant
  /\ req[r].at = "edited"
  /\ UNCHANGED cache
  /\ req' = [req EXCEPT ![r] = NoReq]
  /\ UNCHANGED <<names, moved>>

Invalidate(r) ==
  /\ req[r].at = "edited"
  /\ cache' = [cache EXCEPT ![WorkerOf[r]] = NoMap]
  /\ req' = [req EXCEPT ![r] = NoReq]
  /\ UNCHANGED <<names, moved>>

-----------------------------------------------------------------------------
(* The writers that leave the caches alone *)

AddRow(c, n) == /\ names[c] = NoName
                /\ names' = [names EXCEPT ![c] = n]
                /\ req' = Missing(c, Workers)
                /\ Untold(c, Workers)
                /\ UNCHANGED cache

RemoveRow(c) == /\ names[c] # NoName
                /\ names' = [names EXCEPT ![c] = NoName]
                /\ req' = Missing(c, Workers)
                /\ Untold(c, Workers)
                /\ UNCHANGED cache

(* A worker restarts: its cache is empty and its requests are gone. *)
Restart(w) == /\ cache' = [cache EXCEPT ![w] = NoMap]
              /\ req' = [r \in Reqs |-> IF WorkerOf[r] = w THEN NoReq ELSE req[r]]
              /\ UNCHANGED <<names, moved>>

Next == \/ \E r \in Reqs : \/ Hit(r) \/ Fetch(r) \/ Store(r) \/ Respond(r) \/ Invalidate(r)
                           \/ \E c \in Codes, n \in Names : EditName(r, c, n)
        \/ \E c \in Codes : RemoveRow(c) \/ \E n \in Names : AddRow(c, n)
        \/ \E w \in Workers : Restart(w)

Spec == Init /\ [][Next]_vars

-----------------------------------------------------------------------------
(* What may overlap.  Nothing keeps an edit from falling between the read  *)
(* of a map and its storing.                                               *)

Editing(w) == \E r \in Reqs : WorkerOf[r] = w /\ req[r].at = "edited"
Follows(map, known) == \A c \in known : map[c] = names[c]

(* When the last edit of a worker invalidates, no request of the worker    *)
(* still has in hand a map from before it.                                 *)
NoFetchOutlivesEdits ==
  \A r \in Reqs : Editing(WorkerOf[r]) /\ ~Editing(WorkerOf[r])'
                   /\ req[r].at = "loading" /\ req'[r] = req[r]
                     => Follows(req[r].map, Codes \ req[r].missed)

UndisturbedNext == Next /\ NoFetchOutlivesEdits
UndisturbedSpec == Init /\ [][UndisturbedNext]_vars

-----------------------------------------------------------------------------
(* Properties *)

(***************************************************************************)
(* Every variable stays within its type, and a request that answers has a  *)
(* map to answer from (_load always returns one).                          *)
(***************************************************************************)
TypeOK == /\ names \in Labels
          /\ cache \in [Workers -> Labels \cup {NoMap}]
          /\ req \in [Reqs -> Req]
          /\ moved \in [Workers -> SUBSET Codes]
          /\ \A r \in Reqs : req[r].at \in {"loading", "loaded"} => req[r].map \in Labels

(***************************************************************************)
(* tables.py:439: an edit of a reference table leaves the label cache      *)
(* stale, so update_row drops it.  Once a worker has no edit under way,    *)
(* its cache names every code as the table does, save for the codes that   *)
(* an upload, a delete, a restore or an edit served by another worker has  *)
(* changed since the map was read.                                         *)
(***************************************************************************)
CacheFollowsEdits ==
  \A w \in Workers : cache[w] # NoMap /\ ~Editing(w) => Follows(cache[w], Codes \ moved[w])
=============================================================================
