------------------------------- MODULE Analyses -------------------------------
(* What the analyses of a scan read: the files under the game and mod folders, *)
(* the entities parsed from them, and the evidence each report or cached       *)
(* result is computed from.  Every definition is a function of the disk d, so  *)
(* the modules built on this one can relate the disk of two moments.           *)
(* An analysis is pure (no clock, no randomness): it stands for its evidence,  *)
(* so two documents are equal when their evidence is.                          *)
EXTENDS Naturals, FiniteSets

CONSTANTS
    HullIds, Weapons, Hullmods, Variants, Factions,   \* ids, disjoint
    Mods, ModOf,         \* the source mod of every id
    Contents,            \* what a file may hold, besides not being there
    Gone,
    Homes, Home,         \* the table every entity is a row of: a CSV holds many, a variant file one
    Rows,                \* [entity -> the contents of its table that have its row]
    Loadout,             \* [variant -> [content -> [hull, parts]]]
    KnownIn              \* [faction -> [content -> set of hulls]]

Entities == HullIds \cup Weapons \cup Hullmods \cup Variants \cup Factions

ASSUME FileAssumption ==
    /\ Gone \notin Contents
    /\ Home \in [Entities -> Homes]
    /\ Rows \in [Entities -> SUBSET Contents]
    /\ Loadout \in [Variants -> [Contents -> [hull : HullIds, parts : SUBSET (Weapons \cup Hullmods)]]]
ASSUME KnownAssumption == KnownIn \in [Factions -> [Contents -> SUBSET HullIds]]
ASSUME ModAssumption == ModOf \in [Entities -> Mods]

\* The table an entity is a row of, the .ship or .wpn beside it, and a mod's Java.
Table(e)    == <<"table", Home[e]>>
SpecFile(e) == <<"spec", e>>
Java(m)     == <<"java", m>>
Tables    == {Table(e) : e \in Entities}
SpecFiles == {SpecFile(e) : e \in HullIds \cup Weapons}
Sources   == {Java(m) : m \in Mods}
Files     == Tables \cup SpecFiles \cup Sources
Disks     == [Files -> Contents \cup {Gone}]

------------------------------------------------------------------------------
\* An entity is indexed when its row is there.  Its source_hash is the hash of
\* the whole table; a hull or a weapon also holds what its specification file
\* said, which no hash covers.
Indexed(d, es) == {e \in es : d[Table(e)] \in Rows[e]}
Hash(d, e) == d[Table(e)]
Entity(d, e) ==
    [id |-> e, source |-> Hash(d, e), spec |-> IF e \in HullIds \cup Weapons THEN d[SpecFile(e)] ELSE Gone]
EntitiesOf(d, es) == {Entity(d, e) : e \in Indexed(d, es)}
OfMod(es, m) == {e \in es : ModOf[e] = m}

LoadoutNow(d, v) == Loadout[v][d[Table(v)]]
KnownNow(d, f) == KnownIn[f][d[Table(f)]]
VariantsForHull(d, h) == {v \in Indexed(d, Variants) : LoadoutNow(d, v).hull = h}

------------------------------------------------------------------------------
\* The evidence.  A variant counts with the weapons and hullmods that resolve.
\* Of a hull that a skin makes, the base hull is left out: its columns are not looked at here.
OwnFit(d, v) ==
    [variant |-> Entity(d, v), loadout |-> LoadoutNow(d, v), equipped |-> EntitiesOf(d, LoadoutNow(d, v).parts)]
HullEvidence(d, h) == [hull |-> Entity(d, h), fits |-> {OwnFit(d, v) : v \in VariantsForHull(d, h)}]

CapabilityEvidence(d, f) ==
    [known |-> KnownNow(d, f),
     hulls |-> {HullEvidence(d, h) : h \in Indexed(d, KnownNow(d, f))},
     unresolved |-> KnownNow(d, f) \ Indexed(d, KnownNow(d, f))]

\* The variants of the faction's own mod, with the weapons that resolve.
Armed(d, v) == [loadout |-> LoadoutNow(d, v), weapons |-> EntitiesOf(d, LoadoutNow(d, v).parts \cap Weapons)]
DoctrineEvidence(d, f) == {Armed(d, v) : v \in OfMod(Indexed(d, Variants), ModOf[f])}

ClassificationEvidence(d, es, m) == EntitiesOf(d, OfMod(es, m))
SourceEvidence(d, m) == [hullmods |-> EntitiesOf(d, OfMod(Hullmods, m)), java |-> d[Java(m)]]
===============================================================================
