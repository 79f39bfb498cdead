------------------------------- MODULE Legality -------------------------------
(***************************************************************************)
(* validate_variant (validation/legality.py): what is wrong with a fit,    *)
(* what cannot be determined, and the verdict.  Identifiers of one kind    *)
(* are numbered in their alphabetical order, which the program sorts by.   *)
(* A fit mounts weapons (a function from the mounts it names), lists       *)
(* hullmods, counts wings (the same wing may fly from two bays, a function *)
(* from wings to numbers) and buys vents and capacitors.                   *)
(***************************************************************************)
EXTENDS Integers, FiniteSets, FiniteSetsExt, Functions

CONSTANTS
    Weapon,         \* the indexed weapons: a function from ids to records
    Hullmod,        \* the indexed hullmods, op a function from hull sizes
    Wing,           \* the indexed fighter wings
    Incompatible,   \* documented pairs of exclusive hullmods (sets of two)
    MaxLogistics,   \* adapters.vanilla.MAX_LOGISTICS_HULLMODS
    Unknown         \* not parsed, not documented, none

\* core/mount_compatibility.py: what a mount of each type takes.
MOUNT_TYPE_COMPATIBILITY ==
    [BALLISTIC |-> {"BALLISTIC"}, ENERGY |-> {"ENERGY"}, MISSILE |-> {"MISSILE"},
     HYBRID    |-> {"BALLISTIC", "ENERGY", "HYBRID"},
     COMPOSITE |-> {"BALLISTIC", "MISSILE", "COMPOSITE"},
     SYNERGY   |-> {"ENERGY", "MISSILE", "SYNERGY"},
     UNIVERSAL |-> {"BALLISTIC", "ENERGY", "MISSILE", "HYBRID", "COMPOSITE", "SYNERGY", "UNIVERSAL"}]

Documented(mount) == mount.type \in DOMAIN MOUNT_TYPE_COMPATIBILITY
SizesKnown(mount, w) == mount.size # Unknown /\ Weapon[w].size # Unknown
TypesKnown(mount, w) == Documented(mount) /\ Weapon[w].type # Unknown

TooLarge(mount, w) == SizesKnown(mount, w) /\ Weapon[w].size > mount.size
Mismatch(mount, w) == TypesKnown(mount, w) /\ Weapon[w].type \notin MOUNT_TYPE_COMPATIBILITY[mount.type]

\* The weapon is known to go into the mount.
Takes(mount, w) ==
    /\ SizesKnown(mount, w) /\ ~TooLarge(mount, w)
    /\ TypesKnown(mount, w) /\ ~Mismatch(mount, w)

------------------------------------------------------------------------------
\* The mounts a fit names: both ends known, and those judged by size and type.
Found(h, f)   == {m \in DOMAIN f.weapons \cap DOMAIN h.mounts : f.weapons[m] \in DOMAIN Weapon}
Checked(h, f) == {m \in Found(h, f) : h.mounts[m].fixed = Unknown}
Overridden(h, f) ==
    {m \in DOMAIN f.weapons \cap DOMAIN h.mounts : h.mounts[m].fixed \notin {Unknown, f.weapons[m]}}

\* The hullmods that are not the hull's own, and what one costs on this hull.
Charged(h, f) == f.mods \ h.mods
ModCost(h, x) == IF h.size \in DOMAIN Hullmod[x].op THEN Hullmod[x].op[h.size] ELSE Unknown
LogisticsOf(h, f) == {x \in Charged(h, f) \cap DOMAIN Hullmod : "Logistics" \in Hullmod[x].tags}

Flux(f)   == f.vents + f.caps
Flying(f) == SumFunction(f.wings)

\* Every cost of the fit is known.
OpComplete(h, f) ==
    /\ \A m \in Found(h, f) : Weapon[f.weapons[m]].op # Unknown
    /\ \A x \in Charged(h, f) \cap DOMAIN Hullmod : ModCost(h, x) # Unknown
    /\ \A w \in DOMAIN f.wings \cap DOMAIN Wing : Wing[w].op # Unknown
    /\ Flux(f) > 0 => Unknown \notin {h.unit, h.maxVents, h.maxCaps}

TotalOp(h, f) ==
      SumFunction([m \in Found(h, f) |-> Weapon[f.weapons[m]].op])
    + SumFunction([x \in Charged(h, f) \cap DOMAIN Hullmod |-> ModCost(h, x)])
    + SumFunction([w \in DOMAIN f.wings \cap DOMAIN Wing |-> f.wings[w] * Wing[w].op])
    + IF Flux(f) > 0 THEN Flux(f) * h.unit ELSE 0

------------------------------------------------------------------------------
\* The codes of the failures.
Failures(h, f) ==
    IF h = Unknown THEN {"HULL_NOT_FOUND"}
    ELSE {code \in {"MOUNT_NOT_FOUND"} : \E m \in DOMAIN f.weapons : m \notin DOMAIN h.mounts}
    \cup {code \in {"WEAPON_NOT_FOUND"} :
            \E m \in DOMAIN f.weapons \cap DOMAIN h.mounts : f.weapons[m] \notin DOMAIN Weapon}
    \cup {code \in {"WEAPON_TOO_LARGE"} : \E m \in Checked(h, f) : TooLarge(h.mounts[m], f.weapons[m])}
    \cup {code \in {"MOUNT_TYPE_MISMATCH"} : \E m \in Checked(h, f) : Mismatch(h.mounts[m], f.weapons[m])}
    \cup {code \in {"BUILT_IN_WEAPON_OVERRIDDEN"} : Overridden(h, f) # {}}
    \cup {code \in {"HULLMOD_INCOMPATIBLE"} : \E pair \in Incompatible : pair \subseteq f.mods}
    \cup {code \in {"HULLMOD_NOT_FOUND"} : ~(Charged(h, f) \subseteq DOMAIN Hullmod)}
    \cup {code \in {"LOGISTICS_HULLMOD_LIMIT_EXCEEDED"} : Cardinality(LogisticsOf(h, f)) > MaxLogistics}
    \cup {code \in {"FIGHTER_WING_NOT_FOUND"} : ~(DOMAIN f.wings \subseteq DOMAIN Wing)}
    \cup {code \in {"FIGHTER_BAY_CAPACITY_EXCEEDED"} : h.bays # Unknown /\ Flying(f) > h.bays}
    \cup {code \in {"FLUX_VENTS_EXCEED_HULL_MAXIMUM"} :
            h.unit # Unknown /\ h.maxVents # Unknown /\ f.vents > h.maxVents}
    \cup {code \in {"FLUX_CAPACITORS_EXCEED_HULL_MAXIMUM"} :
            h.unit # Unknown /\ h.maxCaps # Unknown /\ f.caps > h.maxCaps}
    \cup {code \in {"OP_EXCEEDED"} : h.op # Unknown /\ OpComplete(h, f) /\ TotalOp(h, f) > h.op}

\* Is anything uncertain?  (The hull's own ordnance total is not asked about.)
Uncertain(h, f) ==
    /\ h # Unknown
    /\ \/ \E m \in Checked(h, f) : ~SizesKnown(h.mounts[m], f.weapons[m]) \/ ~TypesKnown(h.mounts[m], f.weapons[m])
       \/ DOMAIN f.wings # {} /\ h.bays = Unknown
       \/ ~OpComplete(h, f)

\* validate_variant(f).result.
Verdict(h, f) ==
    IF Failures(h, f) # {} THEN "ILLEGAL" ELSE IF Uncertain(h, f) THEN "NOT_DETERMINABLE" ELSE "LEGAL"
===============================================================================
