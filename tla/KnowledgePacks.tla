---------------------------- MODULE KnowledgePacks ----------------------------
(***************************************************************************)
(* Curated guidance for one faction (core/knowledge_packs.py).  A pack is  *)
(* optional and advisory: it is weighed by how much of what it was written *)
(* from is still what the scan holds.  Confidences count in fortieths: ten *)
(* steps of an entry's own, four of the pack's freshness.                  *)
(***************************************************************************)
EXTENDS AdvisorRules

\* Which recorded sources changed or are gone.  A pack for a faction or a mod
\* that this installation does not have is incompatible whatever its hashes.
Stale(pack, hulls) ==
    {k \in DOMAIN pack.hashes : k \notin DOMAIN hulls \/ hulls[k].hash # pack.hashes[k]}
Freshness(pack, factions, hulls) ==
    CASE pack.faction \notin factions \/ pack.mod \notin {hulls[h].mod : h \in DOMAIN hulls} -> "INCOMPATIBLE"
      [] Stale(pack, hulls) = {}                -> "CURRENT"
      [] Stale(pack, hulls) = DOMAIN pack.hashes -> "STALE"
      [] OTHER                                  -> "PARTIALLY_STALE"
Trust == [CURRENT |-> 4, PARTIALLY_STALE |-> 3, STALE |-> 2, INCOMPATIBLE |-> 0]

\* What is left of a pack for a faction: entries on hulls that no longer resolve
\* are dropped; a pack that does not apply leaves nothing.
NoGuidance == [trust |-> 0, approved |-> <<>>, prefers |-> <<>>, tiers |-> <<>>]
Guidance(pack, faction, factions, hulls) ==
    IF pack = Nil \/ (pack # Nil /\ (pack.faction # faction \/ Freshness(pack, factions, hulls) = "INCOMPATIBLE"))
    THEN NoGuidance
    ELSE [trust    |-> Trust[Freshness(pack, factions, hulls)],
          approved |-> [h \in DOMAIN pack.approved \cap DOMAIN hulls |-> pack.approved[h]],
          prefers  |-> pack.prefers,
          tiers    |-> pack.tiers]

\* The hulls of the stage the user names; a stage the pack does not know, or
\* none, has no hull.
StageHulls(guide, stage) == IF stage \in DOMAIN guide.tiers THEN guide.tiers[stage] ELSE {}

\* How sure an approval is, or Nil for what is not approved.
GuidanceConfidence(guide, h) ==
    IF h \in DOMAIN guide.approved THEN guide.approved[h] * guide.trust ELSE Nil

\* The factor, in 4000ths, by which a pack may shift a build's rank: half of
\* PREFERENCE_WEIGHT either way for the build, the progression weight for a hull
\* of the stage.
Bias(guide, progression, stage, h, build) ==
    4000 + (IF build \in DOMAIN guide.prefers
            THEN (guide.prefers[build].value - 5) * guide.prefers[build].confidence * guide.trust ELSE 0)
         + (IF progression /\ h \in StageHulls(guide, stage) THEN 50 * guide.trust ELSE 0)
================================================================================
