------------------------------- MODULE GapAdvice -------------------------------
(***************************************************************************)
(* The gap recommendations of a faction (analysis/gap).  For every role    *)
(* its hulls cover too weakly three legs rank candidates: its own hulls,   *)
(* its hulls' variants refitted, and hulls of others.  A candidate is a    *)
(* hull with, under the newer heuristic sets, one of its build archetypes. *)
(* Each leg shows a shortlist; scenario options are laid over the three;   *)
(* and a user asks why a hull, a build or an option is not there.  Scores  *)
(* are integers, what they are scored from is given with a hull; ids are   *)
(* numbers in their alphabetical order.                                    *)
(***************************************************************************)
EXTENDS KnowledgePacks, FiniteSetsExt, Sequences, SequencesExt, Functions

CONSTANTS
    Worlds,         \* what is scanned, and who asks: registry, faction, pack
    HeuristicSets,  \* what the sets switch on
    Policies,       \* RecommendationConstraints
    Roles,          \* the capability axes of classify_hull
    RoleBuilds,     \* _ROLE_TO_BUILD_IDS
    RoleProfile,    \* _ROLE_TO_PROFILE
    BuildProfile,   \* profile_id_for_build
    Scenarios,      \* ScenarioCategory
    Fit,            \* Fit[scenario][build id]: _scenario_fit_score
    Count,          \* gap_recommendation_count
    Adequate,       \* gap_adequate_threshold
    RefitMinGain    \* refit_min_quality_gain

FitProfiles == (Range(RoleProfile) \cup Range(BuildProfile)) \ {Nil}
IsBuild(b) ==
    /\ b.id \in Nat \ {0} /\ b.id \in DOMAIN BuildProfile /\ b.compat \in Nat /\ b.sure \in Nat
    /\ IsFiniteSet(DOMAIN b.style) /\ IsFiniteSet(b.wants)
IsVariant(v) ==
    /\ v.before = Nil \/ v.before \in Int
    /\ v.cost \in Nat
    /\ \A p \in FitProfiles : v.after[p] = Nil \/ v.after[p] \in Int
IsHull(x) ==
    /\ IsFiniteSet(x.traits)
    /\ \A role \in Roles : x.cap[role] \in Nat /\ (x.seen[role] = Nil \/ (x.seen[role].score \in Nat /\ x.seen[role].sure \in Nat))
    /\ IsFiniteSet(x.builds) /\ \A b, c \in x.builds : IsBuild(b) /\ (b.id = c.id => b = c)
    /\ IsFiniteSet(DOMAIN x.variants) /\ \A v \in DOMAIN x.variants : v \in Nat /\ IsVariant(x.variants[v])
IsPack(p) ==
    /\ \A h \in DOMAIN p.approved : p.approved[h] \in 0..10
    /\ \A b \in DOMAIN p.prefers : p.prefers[b].value \in Int /\ p.prefers[b].confidence \in Int
    /\ Nil \notin DOMAIN p.tiers

ASSUME GapAssumption ==
    /\ Count \in Nat \ {0} /\ RefitMinGain \in Int /\ Nil \notin Int /\ IsFiniteSet(Roles) /\ Roles \subseteq DOMAIN RoleProfile
    /\ \A p \in Policies : p \in [foreign : BOOLEAN, rough : BOOLEAN, stage : {p.stage}]
    /\ \A s \in Scenarios, b \in DOMAIN BuildProfile : Fit[s][b] \in Int
\* What the worlds hold: ids and scores are numbers, a hull has one build of an id, and all of it is finite.
ASSUME WorldsAssumption ==
    \A w \in Worlds :
        /\ IsFiniteSet(w.known) /\ IsFiniteSet(DOMAIN w.hulls)
        /\ \A h \in DOMAIN w.hulls : h \in Nat \ {0} /\ IsHull(w.hulls[h])
        /\ w.pack = Nil \/ IsPack(w.pack)

VARIABLES world, heur, policy, result, answer
gapVars == <<world, heur, policy, result, answer>>

DefaultPolicy == [foreign |-> TRUE, rough |-> TRUE, stage |-> Nil]
hulls == world.hulls
guide == Guidance(world.pack, world.faction, world.factions, hulls)
Known == world.known \cap DOMAIN hulls      \* native_hull_ids
Own   == {h \in Known : hulls[h].eligible}

NoBuild == [id |-> 0, compat |-> 10, sure |-> 40, rough |-> FALSE, style |-> <<>>, wants |-> {}]
C(score, h, build, via) == [score |-> score, hull |-> h, build |-> build, via |-> via]

\* Best first; equal scores by hull, then by build.
RanksBefore(a, b) ==
    \/ a.score > b.score
    \/ a.score = b.score /\ (a.hull < b.hull \/ (a.hull = b.hull /\ a.build.id < b.build.id))
Ranking(pool) == InOrder(pool, {p \in pool \X pool : RanksBefore(p[1], p[2])})
------------------------------------------------------------------------------
\* Shortlists.  Likeness is in hundredths.
RolesOf(h) == {r \in Roles : hulls[h].cap[r] >= 2}
Likeness(a, b) ==
    IF heur.builds
    THEN 10 * Cardinality({i \in DOMAIN a.build.style : a.build.style[i] = b.build.style[i]})
           + (30 * Jaccard(a.build.wants, b.build.wants) + 30 * Jaccard(hulls[a.hull].traits, hulls[b.hull].traits)) \div 100
    ELSE (55 * Jaccard(RolesOf(a.hull), RolesOf(b.hull)) + 45 * Jaccard(hulls[a.hull].traits, hulls[b.hull].traits)) \div 100

\* What the next choice maximises: with builds the difference to those chosen
\* and then the score, before that the score less a part of the likeness.
Appeal(c, chosen, best) ==
    LET like == Max({Likeness(c, d) : d \in chosen}) IN
    IF heur.builds THEN <<100 - like, c.score, c.hull, c.build.id>>
    ELSE <<10000 * c.score - 15 * like * best, 100 - like, c.hull>>

\* The best, then again and again what appeals most of those near the best.
DiverseShortlist(ranked) ==
    LET best == ranked[1].score
        pick[n \in 1..Count] ==
            IF n = 1 THEN <<ranked[1]>> ELSE
            LET chosen == Range(pick[n - 1])
                rest   == Range(ranked) \ chosen
                pool   == ChoosePool(rest, best)
            IN  IF rest = {} THEN pick[n - 1]
                ELSE Append(pick[n - 1], CHOOSE c \in pool : \A d \in pool \ {c} :
                                             Exceeds(Appeal(c, chosen, best), Appeal(d, chosen, best)))
    IN  IF ranked = <<>> THEN <<>> ELSE pick[Count]
Shortlist(ranked) ==
    IF heur.builds \/ heur.diverse THEN DiverseShortlist(ranked) ELSE SubSeq(ranked, 1, Min({Count, Len(ranked)}))
------------------------------------------------------------------------------
\* The pools of the three legs.  Builds are those of the role, where it names any.
Suits(build, role, rough) == (RoleBuilds[role] = {} \/ build.id \in RoleBuilds[role]) /\ (rough \/ ~build.rough)

NativeBuilds(role, g, rules) ==
    {C(hulls[hb[1]].cap[role] * hb[2].compat * Bias(g, heur.progression, rules.stage, hb[1], hb[2].id), hb[1], hb[2], Nil) :
        hb \in {x \in UNION {{h} \X hulls[h].builds : h \in Own} : hulls[x[1]].cap[role] > 0 /\ Suits(x[2], role, rules.rough)}}
NativeHulls(role) == {C(hulls[h].cap[role], h, NoBuild, Nil) : h \in {x \in Own : hulls[x].cap[role] > 0}}
NativePool(role, g, rules) == IF heur.builds THEN NativeBuilds(role, g, rules) ELSE NativeHulls(role)

\* The variant of a hull that a refit improves most, the first of equals; Nil
\* when none can be scored or none gains enough.
Gain(v, profile) == v.after[profile] - v.before
BestRetrofit(h, profile) ==
    LET vs == hulls[h].variants
        good == {v \in DOMAIN vs : vs[v].before # Nil /\ vs[v].after[profile] # Nil /\ Gain(vs[v], profile) >= RefitMinGain}
        best == CHOOSE v \in good : \A w \in good \ {v} : \/ Gain(vs[v], profile) > Gain(vs[w], profile)
                                                           \/ (Gain(vs[v], profile) = Gain(vs[w], profile) /\ v < w)
    IN  IF good = {} THEN Nil ELSE [variant |-> best, after |-> vs[best].after[profile], cost |-> vs[best].cost]

\* The search looks at every build path, before builds at the hulls that head
\* the native ranking.  Disruption takes up to a fifth of the score.
RetrofitConsidered(role, rules) ==
    IF heur.builds THEN {<<c.hull, c.build>> : c \in NativeBuilds(role, NoGuidance, [rules EXCEPT !.stage = Nil])}
    ELSE LET r == Ranking(NativeHulls(role)) IN {<<r[i].hull, NoBuild>> : i \in 1..Min({Count, Len(r)})}
RetrofitScore(fix, build) ==
    IF heur.builds THEN fix.after * build.compat * (IF heur.disruption THEN 40 - Min({8, fix.cost}) ELSE 40) ELSE fix.after
RetrofitPool(role, rules) ==
    LET profile(b) == IF heur.builds THEN BuildProfile[b.id] ELSE RoleProfile[role]
        fix(hb) == IF profile(hb[2]) = Nil THEN Nil ELSE BestRetrofit(hb[1], profile(hb[2]))
    IN  {C(RetrofitScore(fix(hb), hb[2]), hb[1], hb[2], fix(hb)) : hb \in {x \in RetrofitConsidered(role, rules) : fix(x) # Nil}}

Standing(h, g) == Affinity(hulls[h].owners, world.faction, h \in DOMAIN g.approved)
Acquirable(role, g, rules) ==
    {h \in DOMAIN hulls \ Known : hulls[h].eligible /\ hulls[h].cap[role] > 0 /\ (rules.foreign \/ Standing(h, g) # "FOREIGN")}
AcquisitionPool(role, g, rules) ==
    LET worth(h) == hulls[h].cap[role] * Preference[Standing(h, g)]
        builds(h) == IF heur.builds THEN {b \in hulls[h].builds : Suits(b, role, rules.rough)} ELSE {NoBuild}
    IN  {C(IF heur.builds THEN worth(hb[1]) * hb[2].compat ELSE worth(hb[1]), hb[1], hb[2], Standing(hb[1], g)) :
            hb \in UNION {{h} \X builds(h) : h \in Acquirable(role, g, rules)}}
------------------------------------------------------------------------------
\* What the faction lacks.  A role is judged by the best of the known hulls,
\* eligible or not, and by the capability vector under the sets that have it; a
\* faction none of whose hulls resolves lacks nothing.
Sighted(role) == {hulls[h].seen[role] : h \in Known} \ {Nil}
BestSighted(role) == CHOOSE e \in Sighted(role) : \A f \in Sighted(role) : f.score < e.score \/ (f.score = e.score /\ f.sure <= e.sure)
Coverage(role) ==
    Max({hulls[h].cap[role] : h \in Known} \cup
        (IF heur.vector /\ Sighted(role) # {} THEN {BestSighted(role).score} ELSE {}))
Gaps == {role \in Roles : Known # {} /\ Coverage(role) < Adequate}

\* A recommendation is as sure as the least sure of what it rests on.
Evidence == (40 * Cardinality(Known)) \div Cardinality(world.known)
Confidence(role, build, extra) ==
    IF heur.builds
    THEN Min({Evidence, build.sure, extra} \cup
             (IF ~heur.vector THEN {} ELSE {IF Sighted(role) = {} THEN 0 ELSE BestSighted(role).sure}))
    ELSE (Evidence * extra) \div 40
Extra(leg, h, g) ==
    IF leg # "ACQUISITION" \/ GuidanceConfidence(g, h) = Nil THEN 40 ELSE GuidanceConfidence(g, h)

Legs == {"NATIVE", "RETROFIT", "ACQUISITION"}
Pool(leg, role, g, rules) ==
    CASE leg = "NATIVE" -> NativePool(role, g, rules)
      [] leg = "RETROFIT" -> RetrofitPool(role, rules)
      [] leg = "ACQUISITION" -> AcquisitionPool(role, g, rules)
Entry(c, leg, role, g) ==
    [hull |-> c.hull, build |-> c.build.id, score |-> c.score, via |-> c.via, sure |-> Confidence(role, c.build, Extra(leg, c.hull, g))]
Entries(short, leg, role, g) == [i \in DOMAIN short |-> Entry(short[i], leg, role, g)]
Recommended(leg, role, g, rules) == Entries(Shortlist(Ranking(Pool(leg, role, g, rules))), leg, role, g)

\* recommend_gap_solutions: the three legs, and the gaps that no leg answers.
Solutions(legs) ==
    [legs |-> legs,
     unaddressed      |-> {role \in Gaps : legs["NATIVE"][role] = <<>>},
     fullyUnaddressed |-> {role \in Gaps : \A leg \in Legs : legs[leg][role] = <<>>}]
GapSolutions(g, rules) == Solutions([leg \in Legs |-> [role \in Gaps |-> Recommended(leg, role, g, rules)]])
ListedFor(res, leg, role) == IF role \in DOMAIN res.legs[leg] THEN res.legs[leg][role] ELSE <<>>
ListedHulls(res, leg, role) == {c.hull : c \in Range(ListedFor(res, leg, role))}
Lists(res, leg, role, h, b) == \E c \in Range(ListedFor(res, leg, role)) : c.hull = h /\ c.build = b
------------------------------------------------------------------------------
\* Why not a hull.  The trail of a leg is built again and looked up: only the
\* acquisition leg is asked with the pack, none with the policy.
TrailUnguided(leg, role) == Ranking(Pool(leg, role, NoGuidance, DefaultPolicy))    \* a mutant
Trail(leg, role) == Ranking(Pool(leg, role, IF leg = "ACQUISITION" THEN guide ELSE NoGuidance, DefaultPolicy))
Cutoff(leg, ranked) ==
    IF heur.builds \/ leg = "RETROFIT"
    THEN IF ranked = <<>> THEN Nil ELSE Min({c.score : c \in Range(Shortlist(ranked))})
    ELSE IF Len(ranked) >= Count THEN ranked[Count].score ELSE Nil

\* The native answer ranks hulls by their best build, the others name the rank
\* of that build among all builds.
FirstOf(ranked, h) == Min({i \in DOMAIN ranked : ranked[i].hull = h})
RankOf(leg, ranked, h) ==
    IF leg = "NATIVE" THEN Cardinality({ranked[i].hull : i \in 1..FirstOf(ranked, h)}) ELSE FirstOf(ranked, h)

\* Why a hull is not ranked at all: another leg's, unknown, or without the
\* capability, a search that looks at it, a build or a variant to improve.
Applicable(leg, role, h) ==
    CASE leg = "NATIVE"      -> h \in Own /\ hulls[h].cap[role] > 0
      [] leg = "RETROFIT"    -> /\ h \in {hb[1] : hb \in RetrofitConsidered(role, DefaultPolicy)}
                                /\ heur.builds \/ RoleProfile[role] # Nil
      [] leg = "ACQUISITION" -> h \in DOMAIN hulls \ Known /\ hulls[h].cap[role] > 0
LegAnswer(leg, role, h, trail) ==
    IF ~Applicable(leg, role, h) \/ (\A c \in Range(trail) : c.hull # h)
    THEN [leg |-> leg, ranked |-> FALSE, recommended |-> FALSE, rank |-> Nil, cutoff |-> Nil, sure |-> Nil]
    ELSE [leg |-> leg, ranked |-> TRUE, recommended |-> \E c \in Range(Shortlist(trail)) : c.hull = h,
          rank |-> RankOf(leg, trail, h), cutoff |-> Cutoff(leg, trail),
          sure |-> Confidence(role, trail[FirstOf(trail, h)].build,
                              Extra(leg, h, IF leg = "ACQUISITION" THEN guide ELSE NoGuidance))]
HullAnswer(role, h) == {LegAnswer(leg, role, h, Trail(leg, role)) : leg \in Legs}

\* Why not a build: the recommendations themselves are made again, with the pack
\* and the stage, and the rank is looked up among the faction's own builds.
BuildVerdict(res, ranked, role, h, b) ==
    LET legs   == {leg \in Legs : Lists(res, leg, role, h, b)}
        at     == {i \in DOMAIN ranked : ranked[i].hull = h /\ ranked[i].build.id = b}
        inShortlist == \E c \in Range(Shortlist(ranked)) : c.hull = h /\ c.build.id = b
    IN  [says |-> CASE at = {} -> "no capability"
                    [] at # {} /\ (legs # {} \/ inShortlist) -> "recommended"
                    [] OTHER -> "not selected",
         legs |-> legs]
BuildAnswer(role, h, b, g, rules) ==
    CASE h \notin DOMAIN hulls -> [says |-> "unknown hull", legs |-> {}]
      [] h \in DOMAIN hulls /\ (~heur.builds \/ b \notin {x.id : x \in hulls[h].builds}) -> [says |-> "no such build", legs |-> {}]
      [] OTHER -> BuildVerdict(GapSolutions(g, rules), Ranking(NativeBuilds(role, g, rules)), role, h, b)
AtStage(stage) == [DefaultPolicy EXCEPT !.stage = stage]
------------------------------------------------------------------------------
\* Scenario options: what the three legs list, by score times fit, if the fit
\* reaches scenario_fit_min_signal (three of ten).  The legs score in units of
\* their own, a refit's quality being a hundred times a capability.
Unit == [NATIVE |-> 1, RETROFIT |-> 10000, ACQUISITION |-> 40]
Options(res, scenario, role) ==
    LET all  == UNION {{[item |-> c, leg |-> leg] : c \in Range(ListedFor(res, leg, role))} : leg \in Legs}
        fits == {o \in all : o.item.build # 0 /\ Fit[scenario][o.item.build] >= 3}
        worth(o) == o.item.score * Unit[o.leg] * Fit[scenario][o.item.build]
        reasons(o) == <<worth(o), -o.item.hull, IF o.leg = "ACQUISITION" THEN 2 ELSE IF o.leg = "NATIVE" THEN 1 ELSE 0, -o.item.build>>
        ranked == InOrder(fits, {p \in fits \X fits : Exceeds(reasons(p[1]), reasons(p[2]))})
    IN  SubSeq(ranked, 1, Min({Count, Len(ranked)}))
OptionVerdict(under, options, scenario, role, h, b) ==
    [under |-> under,
     says  |-> CASE under.says \in {"unknown hull", "no such build"} -> "unavailable"
                 [] \E o \in options : o.item.hull = h /\ o.item.build = b -> "option"
                 [] ~\E leg \in Legs : Lists(result, leg, role, h, b) -> "not considered"
                 [] Fit[scenario][b] < 3 -> "low fit"
                 [] OTHER -> "below the others"]
OptionAnswer(scenario, role, h, b) ==
    OptionVerdict(BuildAnswer(role, h, b, NoGuidance, AtStage(Nil)), Range(Options(result, scenario, role)), scenario, role, h, b)
------------------------------------------------------------------------------
GapInit == world \in Worlds /\ heur \in HeuristicSets /\ policy = Nil /\ result = Nil /\ answer = Nil

Recommend(rules) ==
    /\ result = Nil
    /\ policy' = rules /\ result' = GapSolutions(guide, rules)
    /\ UNCHANGED <<world, heur, answer>>

\* run_why_not: a stage can only be given with a build.
Ask == result # Nil /\ answer = Nil /\ UNCHANGED <<world, heur, policy, result>>
AskHull(role, h)     == Ask /\ answer' = [kind |-> "hull", role |-> role, hull |-> h, is |-> HullAnswer(role, h)]
AskBuild(role, h, b) ==
    Ask /\ answer' = [kind |-> "build", role |-> role, hull |-> h, build |-> b, is |-> BuildAnswer(role, h, b, guide, AtStage(policy.stage))]
AskOption(s, role, h, b) ==
    Ask /\ answer' = [kind |-> "option", role |-> role, hull |-> h, build |-> b, scenario |-> s, is |-> OptionAnswer(s, role, h, b)]

\* What a command prints is read before the next is given.
ReadAnswer == answer # Nil /\ answer' = Nil /\ UNCHANGED <<world, heur, policy, result>>

AskedAbout == (DOMAIN hulls) \cup {0}

GapNext ==
    \/ \E rules \in Policies : Recommend(rules)
    \/ \E role \in Roles, h \in AskedAbout : AskHull(role, h)
    \/ \E role \in Roles, h \in AskedAbout, b \in DOMAIN BuildProfile : AskBuild(role, h, b)
    \/ \E s \in Scenarios, role \in Roles, h \in AskedAbout, b \in DOMAIN BuildProfile : AskOption(s, role, h, b)
    \/ ReadAnswer

GapSpec == GapInit /\ [][GapNext]_gapVars
------------------------------------------------------------------------------
\* The recommendations are honest: every leg lists as many as it counts and
\* finds, the best first, and none that is far from the best while a near one is
\* left out; what is to be acquired is not known already, nor foreign against
\* the policy; what is refitted is an own ship that gains; nothing claims more
\* certainty than its evidence; and a gap is without any answer exactly when no
\* leg has a candidate.  Hazard: diversity, policy, pack and build paths meet in
\* one choice, which a test samples at single points.
ShortlistIsHonest ==
    result # Nil =>
        /\ \A leg \in Legs, role \in Gaps :
              LET list == result.legs[leg][role]
                  pool == Pool(leg, role, guide, policy)
                  best == Max({c.score : c \in pool})
                  shown(c) == \E i \in DOMAIN list : list[i].hull = c.hull /\ list[i].build = c.build.id
              IN  /\ Len(list) = Min({Count, Cardinality(pool)})
                  /\ list # <<>> => list[1].score = best
                  /\ \A i, j \in DOMAIN list : i < j => list[i].hull # list[j].hull \/ list[i].build # list[j].build
                  /\ (\E i \in DOMAIN list : ~Competitive(list[i], best)) => \A c \in pool : Competitive(c, best) => shown(c)
                  /\ \A i \in DOMAIN list : list[i].sure <= Evidence
        /\ \A role \in Gaps, i \in 1..Count :
              /\ i \in DOMAIN result.legs["ACQUISITION"][role] =>
                    LET c == result.legs["ACQUISITION"][role][i] IN c.hull \notin Known /\ (policy.foreign \/ c.via # "FOREIGN")
              /\ i \in DOMAIN result.legs["RETROFIT"][role] =>
                    LET c == result.legs["RETROFIT"][role][i] IN
                    c.hull \in Own /\ hulls[c.hull].variants[c.via.variant].before + RefitMinGain <= c.via.after
        /\ result.fullyUnaddressed = {role \in Gaps : \A leg \in Legs : Pool(leg, role, guide, policy) = {}}

\* Why-Not agrees with the recommendations it is asked about, where it is asked
\* with what they were made with: a hull is said to be recommended exactly if
\* its leg lists it, as surely as it is listed if it ranks first or goes without
\* a build; what ranks first is recommended; a build is recommended by the legs
\* that list it; an option is only called too low if as many as may be are
\* shown.  Hazard: listings and answers are computed by calls of their own, and
\* did disagree once.
WhyNotAgrees ==
    LET fair(leg) ==
            \/ ~heur.builds /\ (leg # "ACQUISITION" \/ policy.foreign)
            \/ heur.builds /\ policy.rough /\
                 CASE leg = "NATIVE" -> guide.prefers = <<>> /\ policy.stage = Nil
                   [] leg = "RETROFIT" -> TRUE
                   [] leg = "ACQUISITION" -> policy.foreign
    IN  answer # Nil /\ answer.role \in Gaps =>
        CASE answer.kind = "hull" ->
                \A a \in answer.is : fair(a.leg) =>
                    /\ a.recommended <=> answer.hull \in ListedHulls(result, a.leg, answer.role)
                    /\ a.ranked /\ a.rank = 1 => a.recommended
                    /\ a.recommended /\ (~heur.builds \/ a.rank = 1) =>
                          \E c \in Range(ListedFor(result, a.leg, answer.role)) : c.hull = answer.hull /\ a.sure = c.sure
          [] answer.kind = "build" ->
                (answer.is.says \notin {"unknown hull", "no such build"} /\ policy.foreign /\ policy.rough) =>
                    answer.is.legs = {leg \in Legs : Lists(result, leg, answer.role, answer.hull, answer.build)}
          [] answer.kind = "option" ->
                LET shown == Options(result, answer.scenario, answer.role) IN
                /\ answer.is.says = "below the others" => Len(shown) = Count
                /\ answer.is.says = "option" => \E leg \in Legs : Lists(result, leg, answer.role, answer.hull, answer.build)
================================================================================
