-------------------------- MODULE CalculationCache --------------------------
(***************************************************************************)
(* The reaction database (io/calculation_cache.py): one immutable folder   *)
(* per finished calculation, and an SQLite index with one row per key that *)
(* can be rebuilt from the folders.  A folder is written assets first, then *)
(* its document, then its row.                                             *)
(*                                                                         *)
(* A request names the site, the member (its coordinate frame), the        *)
(* environment, the run-local number of the lateral class, the seed path   *)
(* and the thermochemistry asked for.  Record ids are positions in         *)
(* `records`, which is the order of creation.                              *)
(***************************************************************************)
EXTENDS Naturals, Sequences, FiniteSets

VARIABLES
  records,     \* every folder ever made: its request, what it stores, its state
  index        \* the index file: its state, and the records it has rows for

cacheVars == <<records, index>>

CacheInit == records = <<>> /\ index = [state |-> "absent", rows |-> {}]

(* calculation_cache_key: everything about the request, numbers included.  *)
Key(r) == <<r.site, r.member, r.env, r.number, r.seed, r.thermo>>

(* What is left without the run-local numbers (scientific_input_hash), and *)
(* without the thermochemistry too (electronic_scientific_input_hash).     *)
PortableKey(r) == <<r.site, r.member, r.env, r.seed, r.thermo>>
ElectronicKey(r) == <<r.site, r.member, r.env, r.seed>>

(* A folder is only accepted when every asset has its checksum.            *)
Readable(id) == records[id].state # "torn"
Verified(id) == records[id].state = "whole"

Documents == {id \in 1..Len(records) : records[id].state # "torn"}

Newest(ids) == CHOOSE id \in ids : \A other \in ids : other <= id

(* The rows of each of the three queries; the later ones leave out what the *)
(* exact one has rejected.                                                 *)
ExactRows(q) == {id \in index.rows : Key(records[id]) = Key(q)}
PortableRows(q) ==
  {id \in index.rows : PortableKey(records[id]) = PortableKey(q)} \ ExactRows(q)
ElectronicRows(q) ==
  {id \in index.rows : ElectronicKey(records[id]) = ElectronicKey(q)}
    \ (ExactRows(q) \cup PortableRows(q))

Usable(rows) == {id \in rows : Verified(id)}

(* load_calculation_record: exact, then portable, then electronic.         *)
Miss == [id |-> 0, match |-> "miss"]
Found(q) ==
  IF Usable(ExactRows(q)) # {}
  THEN [id |-> Newest(Usable(ExactRows(q))), match |-> "exact"]
  ELSE IF Usable(PortableRows(q)) # {}
  THEN [id |-> Newest(Usable(PortableRows(q))), match |-> "portable"]
  ELSE IF Usable(ElectronicRows(q)) # {}
  THEN [id |-> Newest(Usable(ElectronicRows(q))), match |-> "electronic"]
  ELSE Miss

(* An index is rebuilt when it is gone although there are documents, and   *)
(* when SQLite cannot read it.                                             *)
NeedsRebuild ==
  index.state = "damaged" \/ (index.state = "absent" /\ Documents # {})

(* rebuild_calculation_index: of the documents it listed the valid ones,   *)
(* the newest of each key last.                                            *)
Rebuilt(listing) ==
  {id \in Usable(listing) :
     \A other \in Usable(listing) : Key(records[other]) = Key(records[id]) => other <= id}

Rebuild(listing) ==
  /\ index' = [state |-> "ok", rows |-> Rebuilt(listing)]
  /\ UNCHANGED records

(* Opening a missing index makes an empty one.                             *)
Opened == [index EXCEPT !.state = "ok"]

(* A folder without its document.                                          *)
Torn(request, content) ==
  [site |-> request.site, member |-> request.member, env |-> request.env,
   number |-> request.number, seed |-> request.seed, thermo |-> request.thermo,
   path |-> content.path, minima |-> content.minima, seen |-> content.seen,
   run |-> content.run, state |-> "torn"]

WriteAssets(request, content) ==
  /\ records' = Append(records, Torn(request, content))
  /\ UNCHANGED index

WriteDocument(id) ==
  /\ records' = [records EXCEPT ![id].state = "whole"]
  /\ UNCHANGED index

(* INSERT ... ON CONFLICT(cache_key) DO UPDATE.                            *)
Upserted(id) ==
  {other \in index.rows : Key(records[other]) # Key(records[id])} \cup {id}

WriteRow(id) ==
  /\ index.state # "damaged"
  /\ index' = [state |-> "ok", rows |-> Upserted(id)]
  /\ UNCHANGED records

(* What may happen to the files between two runs (external).               *)
SpoilRecord ==
  /\ \E id \in 1..Len(records) :
       /\ Verified(id)
       /\ records' = [records EXCEPT ![id].state = "spoiled"]
  /\ UNCHANGED index

LoseIndex ==
  /\ index.state = "ok"
  /\ \/ index' = [state |-> "absent", rows |-> {}]
     \/ index' = [state |-> "damaged", rows |-> {}]
  /\ UNCHANGED records
=============================================================================
