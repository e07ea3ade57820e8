----------------------------- MODULE GearStore ------------------------------
(***************************************************************************)
(* The records of registered devices and their indexes in the key-value    *)
(* store (gizclaw/gear/store_ops.go).  Every operation reads a record,     *)
(* changes its copy and stores the whole copy; only the storing holds the  *)
(* server's lock, and it is two transactions: stale index entries are      *)
(* deleted, then the record and its index entries are set.  Each of them   *)
(* may fail, and the server may crash between any two steps.               *)
(*                                                                         *)
(* A record keeps its status, whether it was approved (Role and ApprovedAt *)
(* change together) and its identifiers: the serial number and the IMEIs   *)
(* of the device, which are the keys of by-sn and by-imei.  Several gears  *)
(* may report one of them, and then share its entry.  The configuration    *)
(* and the rest of the device are left out, with the indexes over labels,  *)
(* certifications, firmware, roles and statuses: their keys end in the     *)
(* public key, so an entry has one gear.                                   *)
(***************************************************************************)
EXTENDS Integers, FiniteSets

CONSTANTS
  Gears,      \* public keys
  Identifiers, \* serial numbers and IMEIs; gears may report the same one
  Requests,   \* goroutines that serve requests
  Links,      \* goroutines that serve a connection: they only ensure a record
  NoGear

ASSUME GearStoreAssumption ==
  /\ NoGear \notin Gears
  /\ Requests \cap Links = {} /\ NoGear \notin Requests \cup Links

VARIABLES
  gears,      \* by-pubkey: gear -> its record, or NoGear
  byId,       \* by-sn and by-imei: identifier -> gear, or NoGear
  gearMu,     \* the goroutine that holds Server.mu, or NoGear
  req         \* goroutine -> where it is, its gear, its copy of the record

storeVars == <<gears, byId, gearMu, req>>

Record == [status: {"unspecified", "active", "blocked"}, approved: BOOLEAN,
           ids: SUBSET Identifiers]
ASSUME NilRecordAssumption == NoGear \notin Record

NoRequest == [at |-> "idle"]
Actors == Requests \cup Links

DefaultGear(ids) == [status |-> "active", approved |-> FALSE, ids |-> ids]

(* A record that neither an approval nor a block has touched *)
isAutoConnectedGear(g) == g.status = "active" /\ ~g.approved

GearStoreInit ==
  /\ gears = [k \in Gears |-> NoGear]
  /\ byId = [s \in Identifiers |-> NoGear]
  /\ gearMu = NoGear
  /\ req = [r \in Actors |-> NoRequest]

Goto(r, where, k, g) == req' = [req EXCEPT ![r] = [at |-> where, key |-> k, gear |-> g]]
Finish(r) == req' = [req EXCEPT ![r] = NoRequest]

-----------------------------------------------------------------------------
(* register: whether the record exists is read first *)
RegisterCall(r, k, ids) ==
  /\ req[r].at = "idle"
  /\ Goto(r, IF gears[k] = NoGear THEN "create" ELSE "existing", k, DefaultGear(ids))
  /\ UNCHANGED <<gears, byId, gearMu>>

(* registerExistingConnectedGear reads the record again *)
registerExistingConnectedGear(r) ==
  /\ req[r].at = "existing"
  /\ LET k == req[r].key IN
     IF ~isAutoConnectedGear(gears[k]) THEN Finish(r)
     ELSE Goto(r, "put", k, [gears[k] EXCEPT !.ids = req[r].gear.ids])
  /\ UNCHANGED <<gears, byId, gearMu>>

(* EnsureConnectedGear, for every peer that connects *)
EnsureConnectedGear(r, k) ==
  /\ req[r].at = "idle" /\ gears[k] = NoGear
  /\ Goto(r, "create", k, DefaultGear({}))
  /\ UNCHANGED <<gears, byId, gearMu>>

(* The operations that store a changed copy of what they read *)
Change(r, k, g) ==
  /\ req[r].at = "idle" /\ gears[k] # NoGear
  /\ Goto(r, "put", k, g)
  /\ UNCHANGED <<gears, byId, gearMu>>

putInfo(r, k, ids) == Change(r, k, [gears[k] EXCEPT !.ids = ids])
putConfig(r, k) == Change(r, k, gears[k])
approve(r, k) == Change(r, k, [gears[k] EXCEPT !.status = "active", !.approved = TRUE])
block(r, k) == Change(r, k, [gears[k] EXCEPT !.status = "blocked"])
delete(r, k) == Change(r, k, [gears[k] EXCEPT !.status = "unspecified", !.approved = FALSE])

-----------------------------------------------------------------------------
(* create looks again, under the lock; put finds the record it will replace *)
create(r) ==
  /\ req[r].at = "create" /\ gearMu = NoGear
  /\ IF gears[req[r].key] # NoGear THEN Finish(r) /\ UNCHANGED gearMu
     ELSE gearMu' = r /\ req' = [req EXCEPT ![r].at = "new"]
  /\ UNCHANGED <<gears, byId>>

(* mutant: put leaves the index entries of the old record *)
putKeepsIndex(r) ==
  /\ req[r].at = "put" /\ gearMu = NoGear
  /\ gearMu' = r
  /\ req' = [req EXCEPT ![r].at = "set"]
  /\ UNCHANGED <<gears, byId>>

put(r) ==
  /\ req[r].at = "put" /\ gearMu = NoGear
  /\ gearMu' = r
  /\ LET old == gears[req[r].key] IN
     byId' = [s \in Identifiers |-> IF old # NoGear /\ s \in old.ids THEN NoGear ELSE byId[s]]
  /\ req' = [req EXCEPT ![r].at = "set"]
  /\ UNCHANGED gears

(* The second transaction: the record and its index entries at once *)
writeGear(r) ==
  /\ req[r].at \in {"new", "set"}
  /\ gears' = [gears EXCEPT ![req[r].key] = req[r].gear]
  /\ byId' = [s \in Identifiers |-> IF s \in req[r].gear.ids THEN req[r].key ELSE byId[s]]
  /\ gearMu' = NoGear
  /\ Finish(r)

(* Either transaction fails: the lock is released and nothing else is undone *)
StoreFails(r) ==
  /\ \/ req[r].at = "put" /\ gearMu = NoGear
     \/ req[r].at \in {"new", "set"}
  /\ gearMu' = NoGear
  /\ Finish(r)
  /\ UNCHANGED <<gears, byId>>

(* The server stops and starts: only the store survives *)
StoreCrash ==
  /\ gearMu' = NoGear
  /\ req' = [r \in Actors |-> NoRequest]
  /\ UNCHANGED <<gears, byId>>

GearStep(r) ==
  \/ registerExistingConnectedGear(r)
  \/ create(r) \/ put(r) \/ writeGear(r) \/ StoreFails(r)
  \/ \E k \in Gears :
       \/ EnsureConnectedGear(r, k)
       \/ \E ids \in SUBSET Identifiers : RegisterCall(r, k, ids) \/ putInfo(r, k, ids)
       \/ putConfig(r, k) \/ approve(r, k) \/ block(r, k) \/ delete(r, k)

GearStoreNext == StoreCrash \/ \E r \in Requests : GearStep(r)

GearStoreSpec == GearStoreInit /\ [][GearStoreNext]_storeVars

-----------------------------------------------------------------------------
(* Types; only a request that is storing holds the lock. *)
GearStoreTypeOK ==
  /\ gears \in [Gears -> Record \cup {NoGear}]
  /\ byId \in [Identifiers -> Gears \cup {NoGear}]
  /\ gearMu \in Actors \cup {NoGear}
  /\ \A r \in Actors : req[r].at \in {"new", "set"} <=> gearMu = r

(* ResolveBySN and ResolveByIMEI never lead to a gear that does not have the identifier,
   also between the two transactions of a write, after a failed one, after a crash, and when several
   gears report the same one (put, writeGearLocked). *)
IndexSound ==
  \A s \in Identifiers : LET k == byId[s] IN
    k # NoGear => gears[k] # NoGear /\ s \in gears[k].ids

(* "Existing records are preserved" (EnsureConnectedGear): a created record replaces
   none, whoever stored one since its creator first looked. *)
CreateNeverReplaces ==
  \A r \in Actors : req[r].at = "new" => gears[req[r].key] = NoGear

(* The store stays sound: IndexSound, and no creation replaces a record. *)
StoreSound == IndexSound /\ CreateNeverReplaces
=============================================================================
