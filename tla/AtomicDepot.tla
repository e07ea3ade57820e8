---------------------------- MODULE AtomicDepot -----------------------------
(***************************************************************************)
(* What a firmware depot promises its users: four channels, each with a    *)
(* build or none, that an upload, a release or a rollback changes at once  *)
(* and completely, or not at all.  FirmwareDepot implements it with        *)
(* directories that are renamed one by one and a metadata record.          *)
(***************************************************************************)
EXTENDS Integers

CONSTANTS Builds, NoBuild

Channels == {"rollback", "stable", "beta", "testing"}

VARIABLE releases

Ordered(r) ==
  /\ r["stable"] # NoBuild /\ r["beta"] # NoBuild => r["stable"] <= r["beta"]
  /\ r["beta"] # NoBuild /\ r["testing"] # NoBuild => r["beta"] <= r["testing"]

Released(r) == [c \in Channels |->
  CASE c = "rollback" -> r["stable"] [] c = "stable" -> r["beta"]
    [] c = "beta" -> r["testing"] [] c = "testing" -> NoBuild]

RolledBack(r) == [r EXCEPT !["stable"] = r["rollback"], !["rollback"] = r["stable"]]

Init == releases \in {r \in [Channels -> Builds \cup {NoBuild}] : Ordered(r)}

Put(c, b) == releases' = [releases EXCEPT ![c] = b] /\ Ordered(releases')

Release ==
  /\ releases["beta"] # NoBuild /\ releases["testing"] # NoBuild
  /\ releases' = Released(releases)

Rollback ==
  /\ releases["rollback"] # NoBuild
  /\ releases' = RolledBack(releases) /\ Ordered(releases')

Next == Release \/ Rollback \/ \E c \in Channels, b \in Builds : Put(c, b)

Spec == Init /\ [][Next]_releases
=============================================================================
