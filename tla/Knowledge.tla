----------------------------- MODULE Knowledge ------------------------------
(***************************************************************************)
(* What residents know and from whom: facts are made by events and at work,  *)
(* told in conversation, printed by outlets, posted on HydraNet, spread by   *)
(* PropagationSystem, and forgotten.  A few facts are followed; the others   *)
(* are there as what crowds these out of the bounded stores.                 *)
(*                                                                         *)
(* A unit of time is a step of MediaSystem.  A resident's version of a value *)
(* is one of: "told", as the fact says; "own", what they saw or paid         *)
(* themselves; "altered" by a teller or a printer; and "zero".               *)
(***************************************************************************)
EXTENDS Integers, FiniteSets

CONSTANTS
    People, Facts, Outlets,
    None,           \* not known, or not on record
    HourUnits,      \* media steps in an hour
    PickupWindow,   \* age in units up to which a fact is news
    DayUnits,       \* media steps in a day
    MaxFresh        \* bound of the model on posts that can still be delivered

Values == {"told", "own", "altered", "zero"}
Sources == People \cup Outlets \cup {"self", "site"}
Versions == [value : Values, distorted : BOOLEAN, via : Sources]

ASSUME KnowledgeAssumption ==
    /\ {HourUnits, DayUnits} \subseteq Nat \ {0} /\ {PickupWindow, MaxFresh} \subseteq Nat
    /\ None \notin Versions
    /\ (People \cup Outlets) \cap {"self", "site"} = {} /\ People \cap Outlets = {}

VARIABLES
    kind,       \* what makes the fact: "event", "work" or the "price" of genesis
    made,       \* event facts there have been
    age,        \* KnowledgeState.facts: age in units, or None
    known,      \* KnowledgeState.knowledge
    posts,      \* NetState.posts that are still fresh
    pubs,       \* MediaState.publications
    stage, unit, \* what runs, and the unit of the hour
    forgot      \* history: facts some resident has known and forgotten

knowledgeVars == <<kind, made, age, known, posts, pubs, stage, unit, forgot>>
worldVars == <<kind, made, posts, pubs, stage, unit>>

Knows(p, f) == known[p][f] # None

\* The types of the state.
KnowledgeTypeOK ==
    /\ kind \in [Facts -> {"event", "work", "price"}] /\ made \subseteq Facts
    /\ age \in [Facts -> Nat \cup {None}]
    /\ known \in [People -> [Facts -> Versions \cup {None}]]
    /\ posts \subseteq [fact : Facts, author : People \cup Outlets, age : 0..HourUnits]
    /\ pubs \subseteq [fact : Facts, outlet : Outlets, age : 0..(DayUnits + 1)]
    /\ stage \in {"agents", "media", "propagation", "clock"}
    /\ unit \in 0..(HourUnits - 1)
    /\ forgot \subseteq Facts

Own == [value |-> "own", distorted |-> FALSE, via |-> "self"]

\* GenesisEngine._seed_knowledge: prices, which not everybody has noticed.
KnowledgeInit ==
    /\ kind \in [Facts -> {"event", "work", "price"}]
    /\ made = {}
    /\ age = [f \in Facts |-> IF kind[f] = "price" THEN 0 ELSE None]
    /\ \E noticed \in SUBSET (People \X Facts) :
        /\ \A n \in noticed : kind[n[2]] = "price"
        /\ known = [p \in People |-> [f \in Facts |-> IF <<p, f>> \in noticed THEN Own ELSE None]]
    /\ posts = {} /\ pubs = {} /\ forgot = {}
    /\ stage = "agents" /\ unit = 0

-----------------------------------------------------------------------------
(* Facts and the two stores.                                               *)

OnRecord(f) == age[f] # None

\* Mutant: the latest version replaces the one there is.
Mutant_Relearnt(old, new) == new

\* KnowledgeState.learn: of a fact that is known only the confidence grows.
Learnt(old, new) == IF old = None THEN new ELSE old

Learn(p, f, version) == known' = [known EXCEPT ![p][f] = Learnt(@, version)]

\* learn of another fact when a resident knows max_known_per_agent.
Forget(p, f) ==
    /\ Knows(p, f)
    /\ known' = [known EXCEPT ![p][f] = None]
    /\ forgot' = forgot \cup {f}
    /\ UNCHANGED <<worldVars, age>>

\* add_fact of another fact when there are max_facts.
DropFact(f) ==
    /\ OnRecord(f)
    /\ age' = [age EXCEPT ![f] = None]
    /\ UNCHANGED <<worldVars, known, forgot>>

\* FactSystem.on_event: each event makes a fact of its own.
MakeFact(f) ==
    /\ kind[f] = "event" /\ f \notin made
    /\ made' = made \cup {f}
    /\ age' = [age EXCEPT ![f] = 0]
    /\ UNCHANGED <<kind, known, posts, pubs, stage, unit, forgot>>

-----------------------------------------------------------------------------
(* The hour of the residents.                                              *)

\* PerceptionSystem: the staff of a firm in trouble make it a fact, again when
\* the fact has gone from the record.
PerceiveTrouble(p, f) ==
    /\ stage = "agents" /\ kind[f] = "work"
    /\ age' = [age EXCEPT ![f] = IF OnRecord(f) THEN @ ELSE 0]
    /\ Learn(p, f, Own)
    /\ UNCHANGED <<worldVars, forgot>>

\* GoToWorkHandler and BuyFoodHandler: what is on record is noticed at first hand.
Notice(p, f) ==
    /\ stage = "agents" /\ kind[f] \in {"work", "price"} /\ OnRecord(f)
    /\ Learn(p, f, Own)
    /\ UNCHANGED <<worldVars, age, forgot>>

\* PerceptionSystem: a known price moves towards the one that is paid; whom it
\* came from and whether it was distorted is left as it was.
TrackPrice(p, f) ==
    /\ stage = "agents" /\ kind[f] = "price" /\ Knows(p, f)
    /\ known' = [known EXCEPT ![p][f].value = "own"]
    /\ UNCHANGED <<worldVars, age, forgot>>

\* Mutant: a distortion is not marked.
Mutant_Retold(p, f) ==
    {[value |-> v, distorted |-> FALSE, via |-> p] : v \in {known[p][f].value, "altered"}}

\* SocialiseHandler: what p says of f, altered now and then.  That it was
\* altered before is not said.
Retold(p, f) ==
    {[value |-> known[p][f].value, distorted |-> FALSE, via |-> p],
     [value |-> "altered", distorted |-> TRUE, via |-> p]}

Talk(p, q, f) ==
    /\ stage = "agents" /\ p # q /\ Knows(p, f)
    /\ \E version \in Retold(p, f) : Learn(q, f, version)
    /\ UNCHANGED <<worldVars, age, forgot>>

\* ReadNewsHandler: up to three stories of an outlet, those whose facts are
\* still on record, each printed right or not.
Printed(o, right) ==
    [value |-> IF right THEN "told" ELSE "altered", distorted |-> ~right, via |-> o]

ReadNews(p, o) ==
    /\ stage = "agents"
    /\ LET stories == {f \in Facts : OnRecord(f) /\ \E b \in pubs : b.outlet = o /\ b.fact = f}
       IN  \E read \in SUBSET stories, right \in [Facts -> BOOLEAN] :
            /\ Cardinality(read) <= 3 /\ read # {}
            /\ known' = [known EXCEPT ![p] =
                [f \in Facts |-> IF f \in read THEN Learnt(@[f], Printed(o, right[f])) ELSE @[f]]]
    /\ UNCHANGED <<worldVars, age, forgot>>

\* PostOnlineHandler.
PostOnline(p, f) ==
    /\ stage = "agents" /\ Knows(p, f)
    /\ Cardinality(posts) < MaxFresh
    /\ posts' = posts \cup {[fact |-> f, author |-> p, age |-> 0]}
    /\ UNCHANGED <<kind, made, age, known, pubs, stage, unit, forgot>>

StartMedia ==
    /\ stage = "agents"
    /\ stage' = "media"
    /\ UNCHANGED <<kind, made, age, known, posts, pubs, unit, forgot>>

-----------------------------------------------------------------------------
(* MediaSystem.                                                            *)

\* Mutant: whatever is recent is a candidate.
Mutant_Candidates == {f \in Facts : OnRecord(f) /\ age[f] <= PickupWindow}

\* Recent facts of some weight that nobody has printed within a day.
Candidates ==
    {f \in Facts : /\ OnRecord(f) /\ age[f] <= PickupWindow
                   /\ kind[f] # "price"
                   /\ \A b \in pubs : b.fact = f => b.age > DayUnits}

\* Each outlet has its own appetite for each of them, and posts what it prints.
Publish ==
    /\ stage = "media"
    /\ \E stories \in SUBSET (Candidates \X Outlets) :
        /\ Cardinality({s[1] : s \in stories}) <= 4
        /\ pubs' = pubs \cup {[fact |-> s[1], outlet |-> s[2], age |-> 0] : s \in stories}
        /\ posts' = posts \cup {[fact |-> s[1], author |-> s[2], age |-> 0] : s \in stories}
    /\ stage' = IF unit = 0 THEN "propagation" ELSE "clock"
    /\ UNCHANGED <<kind, made, age, known, unit, forgot>>

\* add_publication of another story when there are max_publications.
DropPublication ==
    /\ stage = "media"
    /\ \E b \in pubs :
        /\ \A c \in pubs : c.age <= b.age
        /\ pubs' = pubs \ {b}
    /\ UNCHANGED <<kind, made, age, known, posts, stage, unit, forgot>>

-----------------------------------------------------------------------------
(* PropagationSystem.                                                      *)

\* Fresh posts reach some of those who are awake and do not know: the site is
\* all they learn about who wrote it.
Delivered(f) ==
    [value |-> IF OnRecord(f) THEN "told" ELSE "zero", distorted |-> FALSE, via |-> "site"]

Deliver ==
    /\ stage = "propagation"
    /\ LET reachable == {r \in People \X Facts :
                /\ ~Knows(r[1], r[2])
                /\ \E post \in posts : post.fact = r[2] /\ post.author # r[1]}
       IN  \E readers \in SUBSET reachable :
            known' = [p \in People |-> [f \in Facts |->
                        IF <<p, f>> \in readers THEN Learnt(known[p][f], Delivered(f))
                        ELSE known[p][f]]]
    /\ stage' = "clock"
    /\ UNCHANGED <<kind, made, age, posts, pubs, unit, forgot>>

-----------------------------------------------------------------------------

Older(a, most) == IF a < most THEN a + 1 ELSE most

\* Three ticks pass.
Tick ==
    /\ stage = "clock"
    /\ unit' = (unit + 1) % HourUnits
    /\ stage' = IF unit' = 0 THEN "agents" ELSE "media"
    /\ age' = [f \in Facts |-> IF OnRecord(f) THEN Older(age[f], PickupWindow + 1) ELSE None]
    /\ posts' = {[post EXCEPT !.age = @ + 1] : post \in {x \in posts : x.age < HourUnits}}
    /\ pubs' = {[b EXCEPT !.age = Older(@, DayUnits + 1)] : b \in pubs}
    /\ UNCHANGED <<kind, made, known, forgot>>

KnowledgeNext ==
    \/ StartMedia \/ Publish \/ DropPublication \/ Deliver \/ Tick
    \/ \E f \in Facts : MakeFact(f) \/ DropFact(f)
    \/ \E p \in People, f \in Facts :
        \/ Forget(p, f) \/ PerceiveTrouble(p, f) \/ Notice(p, f) \/ TrackPrice(p, f)
        \/ PostOnline(p, f)
        \/ \E q \in People : Talk(p, q, f)
    \/ \E p \in People, o \in Outlets : ReadNews(p, o)

KnowledgeSpec == KnowledgeInit /\ [][KnowledgeNext]_knowledgeVars

-----------------------------------------------------------------------------
(* Properties.                                                             *)

\* A rumour has an origin: no group of residents has a fact only from one
\* another, as long as nobody has forgotten it and been told again.
NoCircularRumour ==
    \A f \in Facts \ forgot : \A group \in (SUBSET People) \ {{}} :
        \E p \in group : ~(Knows(p, f) /\ known[p][f].via \in group)

\* Whoever has an altered value can trace it, from teller to teller, to one
\* whose version is marked as distorted; their own may not be.
AlteredIsTraceable ==
    \A f \in Facts \ forgot : \A p \in People :
        Knows(p, f) /\ known[p][f].value = "altered" =>
            \A tellers \in SUBSET People :
                /\ p \in tellers
                /\ \A q \in tellers : Knows(q, f) /\ known[q][f].via \in People
                                        => known[q][f].via \in tellers
                => \E q \in tellers : Knows(q, f) /\ known[q][f].distorted

\* All outlets that print a story do so in the same step, and nobody prints it
\* again within the day, also when the fact was made anew.
PublishedOnce ==
    \A b, c \in pubs : b.fact = c.fact /\ b.age <= DayUnits /\ c.age <= DayUnits => b.age = c.age
=============================================================================
