------------------------------- MODULE Registry -------------------------------
(***************************************************************************)
(* What a scan knows and how the registry resolves it: source discovery    *)
(* and skins (core/scanner.py), the index of core/registry.py with its     *)
(* ambiguous, canonical and contextual entities, and the unresolved        *)
(* references.  Mod ids are numbers in their alphabetical order; Core, the *)
(* game's own, counts as the first.                                        *)
(*                                                                         *)
(* What the files of a folder say is a record: one function from ids for   *)
(* each kind of entity, and its skins.  A hull maps to its built-in wings, *)
(* its hints and whether it is of fighter size, a hullmod to what it       *)
(* means, a variant to what it names (the hullmods not built into its      *)
(* hull) and its module mappings, a faction to what it knows.  errs says   *)
(* which kinds of trouble the parsers had.                                 *)
(***************************************************************************)
EXTENDS Naturals, Sequences, FiniteSets, Functions, SequencesExt, TLC

CONSTANTS
    Gone,         \* nothing: no folder, no entity, no answer
    Broken,       \* a folder whose mod_info.json cannot be read
    GameRoot,     \* the folder of the core data
    InstalledRoots,   \* the folders under mods/, in the order of their names
    EnabledMods,  \* enabled_mods.json
    Faults        \* Faults[v]: what else validate_variant finds in variant v

Core == 0
EntityKinds == {"hulls", "weapons", "wings", "mods", "variants", "factions"}
NoFiles == [has |-> [k \in EntityKinds |-> << >>], skins |-> {}, errs |-> {}]

\* _mod_info_from_dir: a folder with a readable mod_info.json gives a source.
Readable(folders, root) == folders[root] \notin {Gone, Broken}
SourceAt(folders, root) ==
    [root |-> root, mod |-> folders[root].mod, version |-> folders[root].version, deps |-> folders[root].deps,
     enabled |-> folders[root].mod \in EnabledMods]

\* Those of a sequence at some of its places, in their order.
Sifted(seq, places) == [n \in 1..Cardinality(places) |-> seq[CHOOSE i \in places : Cardinality({j \in places : j <= i}) = n]]

\* discover_sources: the core, the installed mods, then every extra folder, always enabled,
\* also when it is the folder or the id of an installed one.
DiscoverSources(folders, extra) ==
    LET readable(roots) == Sifted(roots, {i \in DOMAIN roots : Readable(folders, roots[i])})
        found == [i \in DOMAIN readable(InstalledRoots) |-> SourceAt(folders, readable(InstalledRoots)[i])]
        added == [i \in DOMAIN readable(extra) |-> [SourceAt(folders, readable(extra)[i]) EXCEPT !.enabled = TRUE]]
    IN <<[root |-> GameRoot, mod |-> Core, version |-> Gone, deps |-> {}, enabled |-> TRUE]>> \o found \o added

ToScan(mods) == Sifted(mods, {i \in DOMAIN mods : mods[i].enabled})

\* A table's entries, or a record's fields, before another's.
Over(new, old) == [x \in DOMAIN new \cup DOMAIN old |-> IF x \in DOMAIN new THEN new[x] ELSE old[x]]

\* What the files of a source say when they are parsed; a folder that has gone since holds none.
FilesIn(folders, root) ==
    IF Readable(folders, root) THEN [has |-> folders[root].has, skins |-> folders[root].skins, errs |-> folders[root].errs] ELSE NoFiles
ReadAll(folders, mods) == [i \in DOMAIN mods |-> Over(mods[i], FilesIn(folders, mods[i].root))]

------------------------------------------------------------------------------
(* The claims of the sources read, each marked with the position of its source. *)
Claimed(sources, kind) ==
    UNION {{[id |-> x, at |-> i, mod |-> sources[i].mod, root |-> sources[i].root, what |-> sources[i].has[kind][x]]
               : x \in DOMAIN sources[i].has[kind]} : i \in DOMAIN sources}

PendingSkins(sources, after) ==
    UNION {{[id |-> k.id, base |-> k.base, changes |-> k.changes, at |-> after + i, mod |-> sources[i].mod, root |-> sources[i].root]
               : k \in sources[i].skins} : i \in DOMAIN sources}

OfId(claims, id) == {c \in claims : c.id = id}
Sole(claims, id) == Cardinality(OfId(claims, id)) = 1

\* hull_from_skin: the base with the wings and hints that the skin adds, without the hints it removes.
FromSkin(base, skin) ==
    [base EXCEPT !.wings = @ \cup skin.wings, !.hints = (@ \ skin.drops) \cup skin.hints]

\* _resolve_skins: a skin becomes a hull when its base is claimed once; skins made meanwhile are no bases.
SkinsMade(hulls, waiting) ==
    {[id |-> p.id, at |-> p.at, mod |-> p.mod, root |-> p.root, what |-> FromSkin((CHOOSE h \in OfId(hulls, p.base) : TRUE).what, p.changes)]
        : p \in {q \in waiting : q.id # Gone /\ Sole(hulls, q.base)}}
SkinsLeft(hulls, waiting) == {p \in waiting : p.id = Gone \/ ~Sole(hulls, p.base)}

\* A scan: the sources found, those read, the hulls made of skins and the skins warned about.
FullScanOf(mods, sources) ==
    LET hulls == Claimed(sources, "hulls")
        waiting == PendingSkins(sources, 0)
    IN [mods |-> mods, sources |-> sources, skins |-> SkinsMade(hulls, waiting), unmade |-> SkinsLeft(hulls, waiting)]

FullScan(folders, extra) ==
    FullScanOf(DiscoverSources(folders, extra), ReadAll(folders, ToScan(DiscoverSources(folders, extra))))

ClaimsOf(read, kind) == Claimed(read.sources, kind) \cup IF kind = "hulls" THEN read.skins ELSE {}

\* The hulls among which a merge looks for the bases of its skins; a mutant looks among the new ones only.
NewHulls(read, added) == Claimed(added, "hulls")
BaseHulls(read, added) == Claimed(read.sources \o added, "hulls") \cup read.skins

\* run_incremental_mod_scan: added after the sources of a scan that is left as it is.
Merged(read, added) ==
    LET hulls == BaseHulls(read, added)
        waiting == PendingSkins(added, Len(read.sources))
    IN [mods    |-> read.mods \o [i \in DOMAIN added |-> Restrict(added[i], {"root", "mod", "version", "deps", "enabled"})],
        sources |-> read.sources \o added,
        skins   |-> read.skins \cup SkinsMade(hulls, waiting),
        unmade  |-> read.unmade \cup SkinsLeft(hulls, waiting)]

------------------------------------------------------------------------------
(* The index: an id claimed once is resolved, one claimed twice is resolved by nobody. *)
IndexOf(claims) ==
    LET ids == {c.id : c \in claims}
    IN [by_id      |-> [x \in {y \in ids : Sole(claims, y)} |-> CHOOSE c \in OfId(claims, x) : TRUE],
        duplicates |-> [x \in {y \in ids : ~Sole(claims, y)} |-> OfId(claims, x)]]

\* _canonicalize_equivalent_hullmods: claimants that mean the same are one; the core's is kept,
\* else that of the first mod, and of two folders of one mod always the same one's.
Canonicalised(index) ==
    LET same == {x \in DOMAIN index.duplicates : \A c, d \in index.duplicates[x] : c.what = d.what}
        firsts(cs) == {c \in cs : \A d \in cs : c.mod <= d.mod}
        first(cs) == CHOOSE c \in firsts(cs) : c.root = CHOOSE root \in {d.root : d \in firsts(cs)} : TRUE
    IN [by_id      |-> [x \in DOMAIN index.by_id \cup same |->
                            IF x \in same THEN first(index.duplicates[x]) ELSE index.by_id[x]],
        duplicates |-> Restrict(index.duplicates, DOMAIN index.duplicates \ same)]

RegistryOf(claims) ==
    [k \in EntityKinds |-> IF k = "mods" THEN Canonicalised(IndexOf(claims[k])) ELSE IndexOf(claims[k])]
ScanClaims(read) == [k \in EntityKinds |-> ClaimsOf(read, k)]

HasId(index, id)  == id \in DOMAIN index.by_id
Rivals(index, id) == IF id \in DOMAIN index.duplicates THEN index.duplicates[id] ELSE {}

\* mod_dependencies: of two sources with one id the later is kept.
ModDependencies(mods) ==
    LET last(mod) == CHOOSE i \in DOMAIN mods : mods[i].mod = mod /\ \A j \in DOMAIN mods : mods[j].mod = mod => j <= i
    IN [mod \in {m.mod : m \in ToSet(mods)} |-> mods[last(mod)].deps]

Reached(needs, steps, mod) ==
    LET reach[n \in 0..steps] ==
            IF n = 0 THEN {mod} ELSE reach[n - 1] \cup UNION {needs[m] : m \in reach[n - 1] \cap DOMAIN needs}
    IN reach[steps]
DependencyClosure(mods, mod) == Reached(ModDependencies(mods), Len(mods), mod)

\* _contextual_duplicate_candidate: the requesting mod's own claimant, else its dependencies', else the
\* core's; the first group that has one decides.
Contextual(rivals, scope, mod) ==
    LET own    == {c \in rivals : c.mod = mod}
        needed == {c \in rivals : c.mod \in scope \ {mod, Core}}
        base   == {c \in rivals : c.mod = Core}
    IN IF own # {} THEN own ELSE IF needed # {} THEN needed ELSE base

\* trace_reference: only a hullmod is resolved by its context, if that has one candidate alone.
Resolves(index, kind, id, mods, mod) ==
    \/ HasId(index, id)
    \/ kind = "mods" /\ Cardinality(Contextual(Rivals(index, id), DependencyClosure(mods, mod), mod)) = 1

\* _resolve_variants looks at all variants, also those whose own id is ambiguous.
Unresolved(read, reg) ==
    {<<q[1].id, q[2], q[3]>> : q \in
        {r \in UNION {({v} \X {"hulls"} \X ({v.what.hull} \ {Gone})) \cup ({v} \X {"weapons"} \X v.what.weapons)
                          \cup ({v} \X {"mods"} \X v.what.mods) : v \in ClaimsOf(read, "variants")}
            : ~Resolves(reg[r[2]], r[2], r[3], read.mods, r[1].mod)}}

MissingDependencies(mods) ==
    {<<q[1].mod, q[2]>> : q \in
        {p \in UNION {{m} \X m.deps : m \in ToSet(mods)} : p[2] \notin {m.mod : m \in ToSet(mods)}}}

\* resolve_faction without source_mod: what any of its sources knows.
FactionKnows(index, id) ==
    IF HasId(index, id) THEN index.by_id[id].what ELSE UNION {c.what : c \in Rivals(index, id)}

------------------------------------------------------------------------------
(* validate_variant over the registry: what it does not find, and the given rest. *)
VariantCodes(v, reg) ==
    IF ~HasId(reg["hulls"], v.what.hull)
    THEN {"HULL_NOT_FOUND"}
    ELSE {code \in {"WEAPON_NOT_FOUND"}       : \E w \in v.what.weapons : ~HasId(reg["weapons"], w)}
    \cup {code \in {"HULLMOD_NOT_FOUND"}      : \E x \in v.what.mods : ~HasId(reg["mods"], x)}
    \cup {code \in {"FIGHTER_WING_NOT_FOUND"} : \E w \in v.what.wings : ~HasId(reg["wings"], w)}
    \cup Faults[v.id]
===============================================================================
