------------------------------ MODULE FlagRules ------------------------------
(* The rules of a feature flag (pkg/feats): the criteria an administrator     *)
(* gives are normalised when they are saved, and evaluated for a site by the  *)
(* first that matches it. A criterion names sites, a percentage of all sites  *)
(* by a bucket of their name, or both.                                        *)
EXTENDS Integers, Sequences

CONSTANTS
    Sites,
    Bucket,         \* siteBucket: 0..99
    Percents,       \* bound: percentages given
    MaxCriteria     \* bound: criteria given

(* What the constants are, assumed by what instantiates this module.          *)
Assumptions ==
    /\ Bucket \in [Sites -> 0..99]

VARIABLE given      \* the criteria of a request

NoSite == "no site"     \* initFeats for the sites together: the empty name

Criteria == [sites : SUBSET Sites, percent : Percents, value : BOOLEAN]
Init == given \in UNION {[1..n -> Criteria] : n \in 0..MaxCriteria}
Next == UNCHANGED given
Spec == Init /\ [][Next]_given

-----------------------------------------------------------------------------
(* NormalizeCriteria: one rule for the sites on, one for those off, by the    *)
(* first criterion that names each, and then the percentage, if there is one. *)
WithPercent(cs) == {i \in 1..Len(cs) : cs[i].percent > 0}
SlipValid(cs) == \A i \in 1..Len(cs) : cs[i].percent \in 0..100
Valid(cs) ==
    /\ \A i \in 1..Len(cs) : cs[i].percent \in 0..100
    /\ \A i, j \in WithPercent(cs) : i = j

Named(cs, v) ==
    {s \in Sites : \E i \in 1..Len(cs) :
        s \in cs[i].sites /\ cs[i].value = v /\ \A j \in 1..(i - 1) : s \notin cs[j].sites}

SitesRule(cs, v) ==
    IF Named(cs, v) = {} THEN << >> ELSE << [sites |-> Named(cs, v), percent |-> 0, value |-> v] >>
PercentRule(cs) ==
    IF WithPercent(cs) = {} THEN << >>
    ELSE << [cs[CHOOSE i \in WithPercent(cs) : TRUE] EXCEPT !.sites = {}] >>
SlipNormalize(cs) == PercentRule(cs) \o SitesRule(cs, TRUE) \o SitesRule(cs, FALSE)
Normalize(cs) == SitesRule(cs, TRUE) \o SitesRule(cs, FALSE) \o PercentRule(cs)

-----------------------------------------------------------------------------
(* matches, Evaluate.                                                         *)
SlipMatches(c, s) ==
    s # NoSite /\ (s \in c.sites \/ (c.percent > 0 /\ Bucket[s] < c.percent))
Matches(c, s) ==
    \/ c.percent >= 100
    \/ s # NoSite /\ (s \in c.sites \/ (c.percent > 0 /\ Bucket[s] < c.percent))

Evaluate(cs, s, default) ==
    LET hits == {i \in 1..Len(cs) : Matches(cs[i], s)} IN
    IF hits = {} THEN default ELSE cs[CHOOSE i \in hits : \A j \in hits : i <= j].value

-----------------------------------------------------------------------------
(* NormalizeCriteria "places explicit SiteIDs rules before any SitePercent    *)
(* rule": a site named keeps its value, on or off, whatever the percentage.   *)
NamedSitesDecide ==
    Valid(given) => \A s \in Sites, default \in BOOLEAN, i \in 1..Len(given) :
        s \in given[i].sites /\ (\A j \in 1..(i - 1) : s \notin given[j].sites) =>
            Evaluate(Normalize(given), s, default) = given[i].value

(* For a site that is not named, and for all sites together, the saved rules  *)
(* say what the given ones say.                                               *)
UnnamedSitesUnchanged ==
    Valid(given) => \A s \in Sites \union {NoSite}, default \in BOOLEAN :
        (\A i \in 1..Len(given) : s \notin given[i].sites) =>
            Evaluate(Normalize(given), s, default) = Evaluate(given, s, default)

(* A percentage raised takes no site out that was in, and a full one leaves  *)
(* none out: neither a site nor all sites together.                           *)
RolloutGrows ==
    \A i \in 1..Len(given), q \in Percents, s \in Sites \union {NoSite} :
        LET raised == [given[i] EXCEPT !.percent = q] IN
        /\ q >= given[i].percent /\ Matches(given[i], s) => Matches(raised, s)
        /\ q = 100 => Matches(raised, s)
=============================================================================
