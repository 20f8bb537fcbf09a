---------------------------- MODULE SocietyProofs ----------------------------
(***************************************************************************)
(* Proofs about what residents tell one another and about who governs them. *)
(*                                                                         *)
(* Knowledge, for any residents, facts and outlets:                         *)
(*   KnowledgeTyped     KnowledgeSpec => []KnowledgeTypeOK                  *)
(*   RumoursHaveOrigin  KnowledgeSpec => []NoCircularRumour                 *)
(*   AlteredIsTraced    KnowledgeSpec => []AlteredIsTraceable               *)
(*   StoriesRunOnce     KnowledgeSpec => []PublishedOnce                    *)
(* All that anybody does to what is known is a KnowledgeGrows step, apart    *)
(* from forgetting, which puts the fact out of question; the two properties  *)
(* of rumours follow from that alone, whoever speaks to whom.               *)
(*                                                                         *)
(* Government, for any parties, payroll, rates, costs, terms and flows that   *)
(* GovernmentAssumption allows, and any length of time:                      *)
(*   TypesKept          Spec => []TypeOK                                     *)
(*   PoliciesStayPaid   Spec => []PoliciesArePaid                            *)
(*   OneGovernmentStays Spec => []OneGovernment                              *)
(*   BoostsComeBack     Spec => []WelfareComesBack                           *)
(* A policy is always paid because the overdraft is raised by whatever is    *)
(* missing; that rests on the account never being below its overdraft.  That *)
(* the welfare comes back needs to be said while a boost is in force too:    *)
(* WelfareInv keeps a hundred times the welfare between the multiples of     *)
(* 100 + rate that the rounding allows.                                      *)
(***************************************************************************)
EXTENDS Knowledge, Government, SequenceTheorems, TLAPS

\* Whoever names a resident as the teller has heard it of one who knows.
TellersKnow ==
    \A f \in Facts \ forgot, p \in People :
        Knows(p, f) /\ known[p][f].via \in People => Knows(known[p][f].via, f)

\* What is known stays known from the same source, and what is learnt comes
\* from one who knew, who passed an altered value on or altered it.
Kept(f, p) ==
    Knows(p, f) =>
        /\ Knows(p, f)'
        /\ known'[p][f].via = known[p][f].via
        /\ known'[p][f].distorted = known[p][f].distorted
        /\ known'[p][f].value = "altered" => known[p][f].value = "altered"

Heard(f, p) ==
    ~Knows(p, f) /\ Knows(p, f)' =>
        /\ known'[p][f].via \in People => Knows(known'[p][f].via, f)
        /\ known'[p][f].value = "altered" =>
            \/ known'[p][f].distorted
            \/ /\ known'[p][f].via \in People
               /\ known[known'[p][f].via][f].value = "altered"

KnowledgeGrows ==
    /\ forgot \subseteq forgot'
    /\ \A f \in Facts \ forgot', p \in People : Kept(f, p) /\ Heard(f, p)

-----------------------------------------------------------------------------
(* The two properties of rumours follow from KnowledgeGrows.               *)

LEMMA TellersKnowKept ==
  ASSUME TellersKnow, KnowledgeGrows PROVE TellersKnow'
<1> SUFFICES ASSUME NEW f \in Facts \ forgot', NEW p \in People,
                    Knows(p, f)', known'[p][f].via \in People
             PROVE  Knows(known[p][f].via, f)'
  BY DEF TellersKnow, Knows
<1>1. f \in Facts \ forgot
  BY DEF KnowledgeGrows
<1>2. PICK teller \in People : teller = known'[p][f].via
  OBVIOUS
<1>3. Kept(f, p) /\ Heard(f, p) /\ Kept(f, teller)
  BY DEF KnowledgeGrows
<1>4. Knows(teller, f)
  BY <1>1, <1>2, <1>3 DEF Kept, Heard, TellersKnow
<1> QED
  BY <1>2, <1>3, <1>4 DEF Kept, Knows

LEMMA CirclesKept ==
  ASSUME TellersKnow, NoCircularRumour, KnowledgeGrows PROVE NoCircularRumour'
<1> SUFFICES ASSUME NEW f \in Facts \ forgot', NEW group \in (SUBSET People) \ {{}}
             PROVE  \E p \in group : ~(Knows(p, f)' /\ known'[p][f].via \in group)
  BY DEF NoCircularRumour, Knows
<1> DEFINE knew == {p \in group : Knows(p, f)}
<1>1. f \in Facts \ forgot
  BY DEF KnowledgeGrows
<1>2. \A p \in group : Kept(f, p) /\ Heard(f, p)
  BY DEF KnowledgeGrows
<1>3. CASE knew = {}
  <2>1. PICK p \in group : TRUE
    OBVIOUS
  <2>2. ~Knows(p, f) /\ \A q \in group : ~Knows(q, f)
    BY <1>3
  <2> QED
    BY <1>2, <2>2 DEF Heard
<1>4. CASE knew # {}
  <2>1. PICK p \in knew : ~(Knows(p, f) /\ known[p][f].via \in knew)
    BY <1>1, <1>4 DEF NoCircularRumour
  <2>2. known'[p][f].via = known[p][f].via
    BY <1>2 DEF Kept
  <2>3. known[p][f].via \in group => Knows(known[p][f].via, f)
    BY <1>1 DEF TellersKnow
  <2> QED
    BY <2>1, <2>2, <2>3
<1> QED
  BY <1>3, <1>4

\* The sets the tellers of a fact stay in.
Closed(f, tellers) ==
    \A q \in tellers : Knows(q, f) /\ known[q][f].via \in People => known[q][f].via \in tellers

LEMMA TracesKept ==
  ASSUME AlteredIsTraceable, KnowledgeGrows PROVE AlteredIsTraceable'
<1> SUFFICES ASSUME NEW f \in Facts \ forgot', NEW p \in People, NEW tellers \in SUBSET People,
                    Knows(p, f)', known'[p][f].value = "altered",
                    p \in tellers, Closed(f, tellers)'
             PROVE  \E q \in tellers : Knows(q, f)' /\ known'[q][f].distorted
  BY DEF AlteredIsTraceable, Knows, Closed
<1>1. f \in Facts \ forgot
  BY DEF KnowledgeGrows
<1>2. \A q \in People : Kept(f, q) /\ Heard(f, q)
  BY DEF KnowledgeGrows
<1>3. Closed(f, tellers)
  BY <1>2 DEF Closed, Kept, Knows
<1>4. \A q \in tellers : Knows(q, f) /\ known[q][f].value = "altered" =>
        \E r \in tellers : Knows(r, f) /\ known[r][f].distorted
  BY <1>1, <1>3 DEF AlteredIsTraceable, Closed
<1>5. \A r \in tellers : Knows(r, f) /\ known[r][f].distorted =>
        Knows(r, f)' /\ known'[r][f].distorted
  BY <1>2 DEF Kept
<1>6. CASE Knows(p, f)
  BY <1>2, <1>4, <1>5, <1>6 DEF Kept
<1>7. CASE ~Knows(p, f)
  <2>1. CASE known'[p][f].distorted
    BY <2>1
  <2>2. CASE ~known'[p][f].distorted
    <3> DEFINE teller == known'[p][f].via
    <3>1. teller \in People /\ Knows(teller, f) /\ known[teller][f].value = "altered"
      BY <1>2, <1>7, <2>2 DEF Heard
    <3>2. teller \in tellers
      BY <3>1 DEF Closed, Knows
    <3> QED
      BY <1>4, <1>5, <3>1, <3>2
  <2> QED
    BY <2>1, <2>2
<1> QED
  BY <1>6, <1>7

-----------------------------------------------------------------------------
(* The types are kept.                                                     *)

\* What a teller says is a version that names the teller.
LEMMA RetoldTyped ==
  ASSUME KnowledgeTypeOK, NEW p \in People, NEW f \in Facts, Knows(p, f), NEW v \in Retold(p, f)
  PROVE  v \in Versions /\ v.via = p
<1>1. known[p][f].value \in Values
  BY DEF KnowledgeTypeOK, Knows, Versions
<1>2. [value |-> known[p][f].value, distorted |-> FALSE, via |-> p] \in Versions
  BY <1>1 DEF Versions, Sources
<1>3. [value |-> "altered", distorted |-> TRUE, via |-> p] \in Versions
  BY DEF Versions, Sources, Values
<1>4. CASE v = [value |-> known[p][f].value, distorted |-> FALSE, via |-> p]
  BY <1>2, <1>4
<1>5. CASE v = [value |-> "altered", distorted |-> TRUE, via |-> p]
  BY <1>3, <1>5
<1> QED
  BY <1>4, <1>5 DEF Retold

LEMMA KnowledgeInitTyped == ASSUME KnowledgeInit PROVE KnowledgeTypeOK
<1>1. PICK noticed \in SUBSET (People \X Facts) :
        known = [p \in People |-> [f \in Facts |-> IF <<p, f>> \in noticed THEN Own ELSE None]]
  BY DEF KnowledgeInit
<1>2. Own \in Versions
  BY DEF Own, Versions, Sources, Values
<1>3. known \in [People -> [Facts -> Versions \cup {None}]]
  BY <1>1, <1>2
<1> QED
  BY <1>3, KnowledgeAssumption DEF KnowledgeInit, KnowledgeTypeOK

\* One resident learns one fact.
LEMMA LearnTyped ==
  ASSUME KnowledgeTypeOK, NEW p \in People, NEW f \in Facts, NEW v \in Versions, Learn(p, f, v)
  PROVE  known' \in [People -> [Facts -> Versions \cup {None}]]
BY DEF Learn, Learnt, KnowledgeTypeOK

LEMMA KnowledgeStepTyped == ASSUME KnowledgeTypeOK, [KnowledgeNext]_knowledgeVars PROVE KnowledgeTypeOK'
<1>1. ASSUME NEW p \in People, NEW f \in Facts, Forget(p, f) PROVE KnowledgeTypeOK'
  BY <1>1 DEF Forget, KnowledgeTypeOK, worldVars
<1>2. ASSUME NEW f \in Facts, MakeFact(f) \/ DropFact(f) PROVE KnowledgeTypeOK'
  BY <1>2 DEF MakeFact, DropFact, KnowledgeTypeOK, worldVars
<1>3. ASSUME NEW p \in People, NEW f \in Facts, PerceiveTrouble(p, f) \/ Notice(p, f)
      PROVE KnowledgeTypeOK'
  <2>1. Own \in Versions
    BY DEF Own, Versions, Sources, Values
  <2>2. known' \in [People -> [Facts -> Versions \cup {None}]]
    BY <1>3, <2>1, LearnTyped DEF PerceiveTrouble, Notice
  <2>3. age' \in [Facts -> Nat \cup {None}]
    BY <1>3 DEF PerceiveTrouble, Notice, KnowledgeTypeOK
  <2> QED
    BY <1>3, <2>2, <2>3 DEF PerceiveTrouble, Notice, KnowledgeTypeOK, worldVars
<1>4. ASSUME NEW p \in People, NEW f \in Facts, TrackPrice(p, f) PROVE KnowledgeTypeOK'
  <2>1. known[p][f] \in Versions
    BY <1>4 DEF TrackPrice, Knows, KnowledgeTypeOK
  <2>2. [known[p][f] EXCEPT !.value = "own"] \in Versions
    BY <2>1 DEF Versions, Values
  <2> QED
    BY <1>4, <2>2 DEF TrackPrice, KnowledgeTypeOK, worldVars
<1>5. ASSUME NEW p \in People, NEW q \in People, NEW f \in Facts, Talk(p, q, f) PROVE KnowledgeTypeOK'
  <2>1. PICK version \in Retold(p, f) : Learn(q, f, version)
    BY <1>5 DEF Talk
  <2>2. version \in Versions
    BY <1>5, <2>1, RetoldTyped DEF Talk
  <2>3. known' \in [People -> [Facts -> Versions \cup {None}]]
    BY <2>1, <2>2, LearnTyped
  <2> QED
    BY <1>5, <2>3 DEF Talk, KnowledgeTypeOK, worldVars
<1>6. ASSUME NEW p \in People, NEW o \in Outlets, ReadNews(p, o) PROVE KnowledgeTypeOK'
  <2>1. PICK read \in SUBSET Facts, right \in [Facts -> BOOLEAN] :
          known' = [known EXCEPT ![p] =
            [f \in Facts |-> IF f \in read THEN Learnt(@[f], Printed(o, right[f])) ELSE @[f]]]
    BY <1>6 DEF ReadNews
  <2>2. \A f \in Facts : Printed(o, right[f]) \in Versions
    BY DEF Printed, Versions, Values, Sources
  <2>3. [f \in Facts |-> IF f \in read THEN Learnt(known[p][f], Printed(o, right[f]))
                         ELSE known[p][f]] \in [Facts -> Versions \cup {None}]
    BY <2>2 DEF Learnt, KnowledgeTypeOK
  <2>4. known' \in [People -> [Facts -> Versions \cup {None}]]
    BY <2>1, <2>3 DEF KnowledgeTypeOK
  <2> QED
    BY <1>6, <2>4 DEF ReadNews, KnowledgeTypeOK, worldVars
<1>7. ASSUME NEW p \in People, NEW f \in Facts, PostOnline(p, f) PROVE KnowledgeTypeOK'
  BY <1>7, KnowledgeAssumption DEF PostOnline, KnowledgeTypeOK
<1>8. CASE StartMedia
  BY <1>8 DEF StartMedia, KnowledgeTypeOK
<1>9. CASE Publish
  <2>1. PICK stories \in SUBSET (Facts \X Outlets) :
          /\ pubs' = pubs \cup {[fact |-> s[1], outlet |-> s[2], age |-> 0] : s \in stories}
          /\ posts' = posts \cup {[fact |-> s[1], author |-> s[2], age |-> 0] : s \in stories}
    BY <1>9 DEF Publish, Candidates
  <2>2. pubs' \subseteq [fact : Facts, outlet : Outlets, age : 0..(DayUnits + 1)]
    BY <2>1, KnowledgeAssumption DEF KnowledgeTypeOK
  <2>3. posts' \subseteq [fact : Facts, author : People \cup Outlets, age : 0..HourUnits]
    BY <2>1, KnowledgeAssumption DEF KnowledgeTypeOK
  <2> QED
    BY <1>9, <2>2, <2>3 DEF Publish, KnowledgeTypeOK
<1>10. CASE DropPublication
  BY <1>10 DEF DropPublication, KnowledgeTypeOK
<1>11. CASE Deliver
  <2>1. \A f \in Facts : Delivered(f) \in Versions
    BY DEF Delivered, Versions, Values, Sources
  <2>2. known' \in [People -> [Facts -> Versions \cup {None}]]
    BY <1>11, <2>1 DEF Deliver, Learnt, KnowledgeTypeOK
  <2> QED
    BY <1>11, <2>2 DEF Deliver, KnowledgeTypeOK
<1>12. CASE Tick
  <2>1. age' \in [Facts -> Nat \cup {None}]
    BY <1>12, KnowledgeAssumption DEF Tick, Older, OnRecord, KnowledgeTypeOK
  <2>2. \A b \in pubs : [b EXCEPT !.age = Older(@, DayUnits + 1)]
                           \in [fact : Facts, outlet : Outlets, age : 0..(DayUnits + 1)]
    BY KnowledgeAssumption DEF KnowledgeTypeOK, Older
  <2>3. \A b \in posts : b.age < HourUnits => [b EXCEPT !.age = @ + 1]
                           \in [fact : Facts, author : People \cup Outlets, age : 0..HourUnits]
    BY KnowledgeAssumption DEF KnowledgeTypeOK
  <2>4. unit' \in 0..(HourUnits - 1)
    BY <1>12, KnowledgeAssumption DEF Tick, KnowledgeTypeOK
  <2> QED
    BY <1>12, <2>1, <2>2, <2>3, <2>4 DEF Tick, KnowledgeTypeOK
<1>13. CASE UNCHANGED knowledgeVars
  BY <1>13 DEF knowledgeVars, KnowledgeTypeOK
<1> QED
  BY <1>1, <1>2, <1>3, <1>4, <1>5, <1>6, <1>7, <1>8, <1>9, <1>10, <1>11, <1>12, <1>13
     DEF KnowledgeNext

-----------------------------------------------------------------------------
(* Every step is one of KnowledgeGrows.                                    *)

\* One resident learns one fact at first hand or from one who knows it.
LEMMA LearnGrows ==
  ASSUME KnowledgeTypeOK, NEW p \in People, NEW f \in Facts, NEW v \in Versions,
         Learn(p, f, v), forgot' = forgot,
         v.via \in People => Knows(v.via, f),
         v.value = "altered" => \/ v.distorted
                                \/ v.via \in People /\ known[v.via][f].value = "altered"
  PROVE  KnowledgeGrows
<1> SUFFICES ASSUME NEW g \in Facts, NEW q \in People PROVE Kept(g, q) /\ Heard(g, q)
  BY DEF KnowledgeGrows
<1>1. CASE q = p /\ g = f
  BY <1>1 DEF Learn, Learnt, Kept, Heard, Knows, KnowledgeTypeOK
<1>2. CASE ~(q = p /\ g = f)
  <2>1. known'[q][g] = known[q][g]
    BY <1>2 DEF Learn, KnowledgeTypeOK
  <2> QED
    BY <2>1 DEF Kept, Heard, Knows
<1> QED
  BY <1>1, <1>2

\* Nobody learns anything.
LEMMA SameKnowledgeGrows == ASSUME UNCHANGED <<known, forgot>> PROVE KnowledgeGrows
BY DEF KnowledgeGrows, Kept, Heard, Knows

\* Some residents learn from an outlet or from the site.
LEMMA ReadersGrow ==
  ASSUME forgot' = forgot,
         \A g \in Facts, q \in People :
            \/ known'[q][g] = known[q][g]
            \/ /\ ~Knows(q, g)
               /\ known'[q][g].via \notin People
               /\ known'[q][g].value = "altered" => known'[q][g].distorted
  PROVE  KnowledgeGrows
BY DEF KnowledgeGrows, Kept, Heard, Knows

LEMMA StepGrows == ASSUME KnowledgeTypeOK, [KnowledgeNext]_knowledgeVars PROVE KnowledgeGrows
<1>o. /\ Own \in Versions /\ Own.via = "self" /\ "self" \notin People
      /\ Own.value # "altered"
  BY KnowledgeAssumption DEF Own, Versions, Sources, Values
<1>1. ASSUME NEW p \in People, NEW f \in Facts, Forget(p, f) PROVE KnowledgeGrows
  <2> SUFFICES ASSUME NEW g \in Facts \ forgot', NEW q \in People
               PROVE  Kept(g, q) /\ Heard(g, q)
    BY <1>1 DEF KnowledgeGrows, Forget
  <2>1. known'[q][g] = known[q][g]
    BY <1>1 DEF Forget, KnowledgeTypeOK
  <2> QED
    BY <2>1 DEF Kept, Heard, Knows
<1>2. ASSUME NEW p \in People, NEW f \in Facts, PerceiveTrouble(p, f) \/ Notice(p, f)
      PROVE KnowledgeGrows
  <2>1. Learn(p, f, Own) /\ forgot' = forgot
    BY <1>2 DEF PerceiveTrouble, Notice
  <2> QED
    BY <1>o, <2>1, LearnGrows
<1>3. ASSUME NEW p \in People, NEW f \in Facts, TrackPrice(p, f) PROVE KnowledgeGrows
  <2> SUFFICES ASSUME NEW g \in Facts, NEW q \in People PROVE Kept(g, q) /\ Heard(g, q)
    BY <1>3 DEF KnowledgeGrows, TrackPrice
  <2>1. CASE q = p /\ g = f
    <3>1. known[p][f] \in Versions /\ known'[p][f] = [known[p][f] EXCEPT !.value = "own"]
      BY <1>3 DEF TrackPrice, Knows, KnowledgeTypeOK
    <3>2. /\ known'[p][f].via = known[p][f].via /\ known'[p][f].value = "own"
          /\ known'[p][f].distorted = known[p][f].distorted
      BY <3>1 DEF Versions
    <3>3. Knows(p, f) /\ Knows(p, f)'
      <4>1. known'[p][f] \in Versions
        BY <3>1 DEF Versions, Values
      <4> QED
        BY <1>3, <4>1, KnowledgeAssumption DEF TrackPrice, Knows
    <3> QED
      BY <2>1, <3>2, <3>3 DEF Kept, Heard, Knows
  <2>2. CASE ~(q = p /\ g = f)
    <3>1. known'[q][g] = known[q][g]
      BY <1>3, <2>2 DEF TrackPrice, KnowledgeTypeOK
    <3> QED
      BY <3>1 DEF Kept, Heard, Knows
  <2> QED
    BY <2>1, <2>2
<1>4. ASSUME NEW p \in People, NEW q \in People, NEW f \in Facts, Talk(p, q, f)
      PROVE KnowledgeGrows
  <2>1. PICK version \in Retold(p, f) : Learn(q, f, version)
    BY <1>4 DEF Talk
  <2>2. Knows(p, f) /\ forgot' = forgot
    BY <1>4 DEF Talk
  <2>3. version \in Versions /\ version.via = p
    BY <2>1, <2>2, RetoldTyped
  <2>4. version.value = "altered" => version.distorted \/ known[p][f].value = "altered"
    BY <2>1 DEF Retold
  <2> QED
    BY <2>1, <2>2, <2>3, <2>4, LearnGrows
<1>5. ASSUME NEW p \in People, NEW o \in Outlets, ReadNews(p, o) PROVE KnowledgeGrows
  <2>1. PICK read \in SUBSET Facts, right \in [Facts -> BOOLEAN] :
          known' = [known EXCEPT ![p] =
            [f \in Facts |-> IF f \in read THEN Learnt(@[f], Printed(o, right[f])) ELSE @[f]]]
    BY <1>5 DEF ReadNews
  <2>2. \A g \in Facts, q \in People :
            \/ known'[q][g] = known[q][g]
            \/ /\ ~Knows(q, g)
               /\ known'[q][g].via \notin People
               /\ known'[q][g].value = "altered" => known'[q][g].distorted
    <3> SUFFICES ASSUME NEW g \in Facts, NEW q \in People, known'[q][g] # known[q][g]
                 PROVE  /\ ~Knows(q, g) /\ known'[q][g].via \notin People
                        /\ known'[q][g].value = "altered" => known'[q][g].distorted
      OBVIOUS
    <3>1. q = p /\ known'[q][g] = Learnt(known[q][g], Printed(o, right[g]))
      BY <2>1 DEF KnowledgeTypeOK
    <3>2. ~Knows(q, g) /\ known'[q][g] = Printed(o, right[g])
      BY <3>1 DEF Learnt, Knows
    <3>3. CASE right[g]
      BY <3>2, <3>3, KnowledgeAssumption DEF Printed
    <3>4. CASE ~right[g]
      <4>1. right[g] = FALSE
        BY <3>4
      <4>2. Printed(o, FALSE) = [value |-> "altered", distorted |-> TRUE, via |-> o]
        BY DEF Printed
      <4>3. known'[q][g] = [value |-> "altered", distorted |-> TRUE, via |-> o]
        BY <3>2, <4>1, <4>2
      <4>4. known'[q][g].via = o /\ known'[q][g].distorted
        BY <4>3
      <4> QED
        BY <3>2, <4>4, KnowledgeAssumption
    <3> QED
      BY <3>3, <3>4
  <2> QED
    BY <1>5, <2>2, ReadersGrow DEF ReadNews
<1>6. CASE Deliver
  <2>1. \A f \in Facts : Delivered(f).via \notin People /\ Delivered(f).value # "altered"
    BY KnowledgeAssumption DEF Delivered
  <2>2. \A g \in Facts, q \in People :
            \/ known'[q][g] = known[q][g]
            \/ /\ ~Knows(q, g)
               /\ known'[q][g].via \notin People
               /\ known'[q][g].value = "altered" => known'[q][g].distorted
    BY <1>6, <2>1 DEF Deliver, Learnt, Knows, KnowledgeTypeOK
  <2> QED
    BY <1>6, <2>2, ReadersGrow DEF Deliver
<1>7. CASE \/ StartMedia \/ Publish \/ DropPublication \/ Tick \/ UNCHANGED knowledgeVars
           \/ \E f \in Facts : MakeFact(f) \/ DropFact(f)
           \/ \E p \in People, f \in Facts : PostOnline(p, f)
  BY <1>7, SameKnowledgeGrows DEF StartMedia, Publish, DropPublication, Tick, MakeFact,
     DropFact,
     PostOnline, worldVars, knowledgeVars
<1> QED
  BY <1>1, <1>2, <1>3, <1>4, <1>5, <1>6, <1>7 DEF KnowledgeNext

-----------------------------------------------------------------------------
(* A story is printed once.                                                *)

LEMMA StepPublishesOnce ==
  ASSUME KnowledgeTypeOK, PublishedOnce, [KnowledgeNext]_knowledgeVars PROVE PublishedOnce'
<1>1. CASE Publish
  <2>1. PICK stories \in SUBSET (Candidates \X Outlets) :
          pubs' = pubs \cup {[fact |-> s[1], outlet |-> s[2], age |-> 0] : s \in stories}
    BY <1>1 DEF Publish
  <2>2. \A b \in pubs' : b \in pubs \/ (b.fact \in Candidates /\ b.age = 0)
    BY <2>1
  <2>3. \A b \in pubs, c \in pubs' : b.fact = c.fact /\ b.age =< DayUnits => c \in pubs
    BY <2>2, KnowledgeAssumption DEF Candidates, KnowledgeTypeOK
  <2> QED
    BY <2>2, <2>3 DEF PublishedOnce
<1>2. CASE Tick
  <2>1. pubs' = {[b EXCEPT !.age = Older(@, DayUnits + 1)] : b \in pubs}
    BY <1>2 DEF Tick
  <2>2. \A b \in pubs : b.age \in 0..(DayUnits + 1)
    BY DEF KnowledgeTypeOK
  <2>3. \A b \in pubs' : \E a \in pubs :
          a.fact = b.fact /\ b.age = Older(a.age, DayUnits + 1)
    BY <2>1 DEF KnowledgeTypeOK
  <2>4. \A a \in pubs : Older(a.age, DayUnits + 1) =< DayUnits
          => a.age =< DayUnits /\ Older(a.age, DayUnits + 1) = a.age + 1
    BY <2>2, KnowledgeAssumption DEF Older
  <2>5. ASSUME NEW b \in pubs', NEW c \in pubs', b.fact = c.fact, b.age =< DayUnits,
               c.age =< DayUnits
        PROVE  b.age = c.age
    <3>1. PICK x \in pubs : x.fact = b.fact /\ b.age = Older(x.age, DayUnits + 1)
      BY <2>3
    <3>2. PICK y \in pubs : y.fact = c.fact /\ c.age = Older(y.age, DayUnits + 1)
      BY <2>3
    <3>3. x.age = y.age
      BY <2>4, <2>5, <3>1, <3>2 DEF PublishedOnce
    <3> QED
      BY <3>1, <3>2, <3>3
  <2> QED
    BY <2>5 DEF PublishedOnce
<1>3. CASE pubs' \subseteq pubs
  BY <1>3 DEF PublishedOnce
<1>4. CASE ~Publish /\ ~Tick
  BY <1>3, <1>4 DEF KnowledgeNext, StartMedia, DropPublication, Deliver, MakeFact,
     DropFact, Forget,
     PerceiveTrouble, Notice, TrackPrice, PostOnline, Talk, ReadNews, worldVars, knowledgeVars
<1> QED
  BY <1>1, <1>2, <1>4

-----------------------------------------------------------------------------
(* The theorems about Knowledge.                                           *)

\* The types of the state hold for ever.
THEOREM KnowledgeTyped == KnowledgeSpec => []KnowledgeTypeOK
<1>1. KnowledgeInit => KnowledgeTypeOK
  BY KnowledgeInitTyped
<1>2. KnowledgeTypeOK /\ [KnowledgeNext]_knowledgeVars => KnowledgeTypeOK'
  BY KnowledgeStepTyped
<1> QED
  BY <1>1, <1>2, PTL DEF KnowledgeSpec

\* Of a fact nobody has forgotten, no group of residents knows only from one
\* another.
THEOREM RumoursHaveOrigin == KnowledgeSpec => []NoCircularRumour
<1>1. KnowledgeInit => TellersKnow /\ NoCircularRumour
  <2> SUFFICES ASSUME KnowledgeInit PROVE TellersKnow /\ NoCircularRumour
    OBVIOUS
  <2>1. \A p \in People, f \in Facts : Knows(p, f) => known[p][f].via \notin People
    BY KnowledgeAssumption DEF KnowledgeInit, Own, Knows
  <2> QED
    BY <2>1 DEF TellersKnow, NoCircularRumour
<1>2. KnowledgeTypeOK /\ TellersKnow /\ NoCircularRumour /\ [KnowledgeNext]_knowledgeVars
        => TellersKnow' /\ NoCircularRumour'
  BY StepGrows, TellersKnowKept, CirclesKept
<1> QED
  BY <1>1, <1>2, KnowledgeTyped, PTL DEF KnowledgeSpec

\* An altered value leads back, from teller to teller, to a version that is
\* marked as distorted.
THEOREM AlteredIsTraced == KnowledgeSpec => []AlteredIsTraceable
<1>1. KnowledgeInit => AlteredIsTraceable
  <2> SUFFICES ASSUME KnowledgeInit PROVE AlteredIsTraceable
    OBVIOUS
  <2>1. \A p \in People, f \in Facts : Knows(p, f) => known[p][f].value # "altered"
    BY DEF KnowledgeInit, Own, Knows
  <2> QED
    BY <2>1 DEF AlteredIsTraceable
<1>2. KnowledgeTypeOK /\ AlteredIsTraceable /\ [KnowledgeNext]_knowledgeVars => AlteredIsTraceable'
  BY StepGrows, TracesKept
<1> QED
  BY <1>1, <1>2, KnowledgeTyped, PTL DEF KnowledgeSpec

\* No story is printed in two steps within a day.
THEOREM StoriesRunOnce == KnowledgeSpec => []PublishedOnce
<1>1. KnowledgeInit => PublishedOnce
  BY DEF KnowledgeInit, PublishedOnce
<1>2. KnowledgeTypeOK /\ PublishedOnce /\ [KnowledgeNext]_knowledgeVars => PublishedOnce'
  BY StepPublishesOnce
<1> QED
  BY <1>1, <1>2, KnowledgeTyped, PTL DEF KnowledgeSpec

-----------------------------------------------------------------------------
(* Government.                                                             *)

\* The payments of the day: only what is in force waits for one, and what lapses
\* today is taken out of force before the day ends.
PaymentsInTurn ==
    /\ toPay \subseteq {k \in Kinds : Active(k)}
    /\ turn # "policies" => toPay = {}
    /\ turn \in {"election", "taxes"} => \A k \in Kinds : Active(k) => day < policies[k].expires

IInv == TypeOK /\ PaymentsInTurn /\ PoliciesArePaid

Terms_ == [active : BOOLEAN, rate : 0..99, cost : Nat, enacted : Nat, expires : Nat, paid : Nat]

-----------------------------------------------------------------------------
(* Arithmetic.                                                             *)

LEMMA PartOf ==
  ASSUME NEW x \in Nat, NEW pct \in 0..100
  PROVE  (x * pct) \div 100 \in Nat /\ (x * pct) \div 100 =< x
<1>1. x * pct \in Nat /\ x * pct =< x * 100
  OBVIOUS
<1> QED
  BY <1>1

LEMMA TruncatedIsNat ==
  ASSUME NEW n \in Nat, NEW d \in Nat \ {0} PROVE Truncated(n, d) \subseteq Nat
BY DEF Truncated, Larger

LEMMA ProductIsNat == ASSUME NEW a \in Nat, NEW b \in Nat PROVE a * b \in Nat
OBVIOUS

LEMMA ChangedIsNat ==
  ASSUME NEW w \in Nat, NEW k \in Kinds, NEW rate \in 1..99
  PROVE  Changed(w, k, rate) \subseteq Nat /\ (w * (100 - rate)) \div 100 \in Nat
<1>1. 100 + rate \in Nat /\ 100 - rate \in Nat
  OBVIOUS
<1>2. w * (100 + rate) \in Nat /\ w * (100 - rate) \in Nat
  BY <1>1, ProductIsNat
<1>3. Truncated(w * (100 + rate), 100) \subseteq Nat /\ Truncated(w * (100 - rate), 100) \subseteq Nat
  BY <1>2, TruncatedIsNat
<1> QED
  BY <1>2, <1>3 DEF Changed

-----------------------------------------------------------------------------
(* The types, the payments and the debt, action by action.                 *)

\* The account as the invariant has it.
LEMMA AccountKept ==
  ASSUME IInv
  PROVE  /\ treasury \in Int /\ overdraft \in Nat /\ debt \in Nat
         /\ Available = treasury + overdraft /\ Available \in Nat /\ overdraft =< debt
BY DEF IInv, TypeOK, PoliciesArePaid, BorrowingIsDebt, Available

LEMMA InitHolds == ASSUME Init PROVE IInv
<1>1. NotInForce \in Terms_ /\ ~NotInForce.active
  BY DEF NotInForce, Terms_
<1>2. TypeOK
  <2>1. policies \in [Kinds -> Terms_] /\ toPay \subseteq Kinds
    BY <1>1 DEF Init
  <2>2. /\ inPower \subseteq Parties /\ ruling \in Parties
        /\ mayor \in {FirstMayor} \cup {Leader[p] : p \in Parties}
        /\ elections \in Seq([scheduled : Nat, held : BOOLEAN, winner : Parties \cup {Nobody}])
    BY DEF Init
  <2>3. OpeningTreasury \in Int /\ OpeningWelfare \in Nat /\ 0 \in 0..LastDay
    BY GovernmentAssumption
  <2> QED
    BY <2>1, <2>2, <2>3 DEF Init, TypeOK, Terms_
<1>3. PaymentsInTurn /\ PolicyIsPaid
  BY <1>1 DEF Init, PaymentsInTurn, PolicyIsPaid, Active
<1>4. BorrowingIsDebt
  BY GovernmentAssumption DEF Init, BorrowingIsDebt, Available
<1> QED
  BY <1>2, <1>3, <1>4 DEF IInv, PoliciesArePaid

LEMMA CityHolds == ASSUME IInv, City PROVE IInv'
<1>1. PICK flow \in Flows : /\ flow >= 0 \/ Available + flow >= 0
                            /\ treasury' = treasury + flow
                            /\ deficit' = (treasury + flow < 0)
  BY DEF City
<1>2. flow \in Int
  BY GovernmentAssumption
<1>3. treasury' \in Int /\ treasury' + overdraft >= 0
  BY <1>1, <1>2, AccountKept
<1>4. TypeOK'
  BY <1>1, <1>3 DEF City, IInv, TypeOK, policyVars, officeVars
<1>5. PaymentsInTurn' /\ PolicyIsPaid'
  BY DEF City, IInv, PaymentsInTurn, PoliciesArePaid, PolicyIsPaid, Active, policyVars
<1>6. BorrowingIsDebt'
  BY <1>3, AccountKept DEF City, BorrowingIsDebt, Available
<1> QED
  BY <1>4, <1>5, <1>6 DEF IInv, PoliciesArePaid

LEMMA PublicSectorHolds == ASSUME IInv, PublicSector PROVE IInv'
<1>1. PICK n \in 0..PublicCohorts :
        /\ Payroll[n] =< Larger(0, Available)
        /\ \E bought \in 0..((Larger(0, treasury - Payroll[n]) * ProcurementPct) \div 100) :
             treasury' = treasury - Payroll[n] - bought
  BY DEF PublicSector
<1> DEFINE left == treasury - Payroll[n]
<1>2. PICK bought \in 0..((Larger(0, left) * ProcurementPct) \div 100) : treasury' = left - bought
  BY <1>1
<1>3. Payroll[n] \in Nat
  BY GovernmentAssumption
<1>4. left \in Int /\ left + overdraft >= 0
  BY <1>1, <1>3, AccountKept DEF Larger
<1>5. Larger(0, left) \in Nat
  BY <1>4 DEF Larger
<1>6. bought \in Nat /\ bought =< Larger(0, left)
  <2>1. ProcurementPct \in 0..100
    BY GovernmentAssumption
  <2>2. /\ (Larger(0, left) * ProcurementPct) \div 100 \in Nat
        /\ (Larger(0, left) * ProcurementPct) \div 100 =< Larger(0, left)
    BY <1>5, <2>1, PartOf
  <2> QED
    BY <1>5, <2>2
<1>7. treasury' \in Int /\ treasury' + overdraft >= 0
  BY <1>2, <1>4, <1>6, AccountKept DEF Larger
<1>8. TypeOK'
  BY <1>7 DEF PublicSector, IInv, TypeOK, officeVars
<1>9. PaymentsInTurn' /\ PolicyIsPaid'
  BY DEF PublicSector, IInv, PaymentsInTurn, PoliciesArePaid, PolicyIsPaid, Active
<1>10. BorrowingIsDebt'
  BY <1>7, AccountKept DEF PublicSector, BorrowingIsDebt, Available
<1> QED
  BY <1>8, <1>9, <1>10 DEF IInv, PoliciesArePaid

LEMMA PayPolicyHolds == ASSUME IInv, NEW k \in Kinds, PayPolicy(k) PROVE IInv'
<1> DEFINE cost == policies[k].cost
<1>1. policies \in [Kinds -> Terms_] /\ policies[k] \in Terms_ /\ cost \in Nat
  BY DEF IInv, TypeOK, Terms_
<1>2. Borrowed(cost) \in Nat /\ Available + Borrowed(cost) >= cost
  BY <1>1, AccountKept DEF Borrowed
<1>3. /\ treasury' = treasury - cost /\ overdraft' = overdraft + Borrowed(cost)
      /\ debt' = debt + Borrowed(cost)
      /\ policies' = [policies EXCEPT ![k] = Paid(policies[k])]
      /\ toPay' = toPay \ {k} /\ k \in toPay /\ turn = "policies"
  BY <1>2 DEF PayPolicy, Owed
<1>4. /\ Paid(policies[k]) \in Terms_ /\ Paid(policies[k]).paid = policies[k].paid + 1
      /\ Paid(policies[k]).active = policies[k].active
      /\ Paid(policies[k]).enacted = policies[k].enacted
      /\ Paid(policies[k]).expires = policies[k].expires
  BY <1>1 DEF Paid, Terms_
<1>5. policies' \in [Kinds -> Terms_]
  BY <1>1, <1>3, <1>4
<1>6. /\ treasury' \in Int /\ overdraft' \in Nat /\ debt' \in Nat /\ overdraft' =< debt'
      /\ treasury' + overdraft' >= 0
  <2> HIDE DEF cost
  <2> QED
    BY <1>1, <1>2, <1>3, AccountKept
<1>7. TypeOK'
  BY <1>3, <1>5, <1>6 DEF PayPolicy, IInv, TypeOK, Terms_, officeVars
<1>8. PaymentsInTurn'
  BY <1>1, <1>3, <1>4 DEF PayPolicy, IInv, PaymentsInTurn, Active
<1>9. BorrowingIsDebt'
  BY <1>6 DEF BorrowingIsDebt, Available
<1>10. PolicyIsPaid'
  <2>1. UNCHANGED <<day, turn>>
    BY DEF PayPolicy
  <2>2. \A j \in Kinds : policies[j].paid \in Nat /\ policies[j].enacted \in Nat /\ day \in Nat
    BY DEF IInv, TypeOK
  <2>3. ASSUME NEW j \in Kinds, Active(j)'
        PROVE  /\ day =< policies'[j].expires
               /\ policies'[j].paid = day - policies'[j].enacted
                     - (IF turn \in {"city", "staff"} \/ j \in toPay' THEN 1 ELSE 0)
    <3>1. CASE j = k
      BY <1>1, <1>3, <1>4, <2>2, <2>3, <3>1 DEF IInv, PoliciesArePaid, PolicyIsPaid,
         Active
    <3>2. CASE j # k
      <4>1. policies'[j] = policies[j] /\ (j \in toPay' <=> j \in toPay)
        BY <1>1, <1>3, <3>2
      <4> QED
        BY <2>3, <4>1 DEF IInv, PoliciesArePaid, PolicyIsPaid, Active
    <3> QED
      BY <3>1, <3>2
  <2> QED
    BY <2>1, <2>3 DEF PolicyIsPaid
<1> QED
  BY <1>7, <1>8, <1>9, <1>10 DEF IInv, PoliciesArePaid

LEMMA EndPoliciesHolds == ASSUME IInv, EndPolicies PROVE IInv'
BY DEF EndPolicies, IInv, TypeOK, PaymentsInTurn, PoliciesArePaid, PolicyIsPaid,
   BorrowingIsDebt, Available, Active, accountVars, policyVars, officeVars

LEMMA EnactTyped ==
  ASSUME TypeOK, NEW k \in Kinds, Enact(k)
  PROVE  /\ welfare' \in Nat /\ lastDecision' = day /\ base' \in Nat /\ rounded' \in Nat
         /\ \E p \in Terms_ : /\ policies' = [policies EXCEPT ![k] = p]
                              /\ p.enacted = day /\ p.expires > day /\ p.paid = 0
<1> DEFINE New(rate, term, newWelfare, cost) ==
            /\ welfare' = newWelfare
            /\ policies' = [policies EXCEPT ![k] =
                  [active |-> TRUE, rate |-> rate, cost |-> cost, enacted |-> day,
                   expires |-> day + term, paid |-> 0]]
            /\ lastDecision' = day
            /\ base' = IF k = "austerity" THEN (base * (100 - rate)) \div 100 ELSE base
            /\ rounded' = IF ChangesWelfare(k) THEN rounded + 1 ELSE rounded
<1>1. PICK rate \in Rates, term \in Terms : \E newWelfare \in Changed(welfare, k, rate) :
        \E cost \in CostOf(k, newWelfare) : New(rate, term, newWelfare, cost)
  BY DEF Enact
<1>2. PICK newWelfare \in Changed(welfare, k, rate) :
        \E cost \in CostOf(k, newWelfare) : New(rate, term, newWelfare, cost)
  BY <1>1
<1>3. PICK cost \in CostOf(k, newWelfare) : New(rate, term, newWelfare, cost)
  BY <1>2
<1>4. rate \in 1..99 /\ term \in Nat \ {0} /\ welfare \in Nat /\ base \in Nat /\ day \in Nat
  BY GovernmentAssumption DEF TypeOK
<1>5. newWelfare \in Nat /\ (base * (100 - rate)) \div 100 \in Nat
  BY <1>4, ChangedIsNat
<1>6. cost \in Nat
  BY <1>5, GovernmentAssumption DEF CostOf
<1> DEFINE p == [active |-> TRUE, rate |-> rate, cost |-> cost, enacted |-> day,
                 expires |-> day + term, paid |-> 0]
<1>7. p \in Terms_ /\ p.enacted = day /\ p.expires > day /\ p.paid = 0
  BY <1>4, <1>6 DEF Terms_
<1>8. policies' = [policies EXCEPT ![k] = p] /\ welfare' = newWelfare /\ lastDecision' = day
  BY <1>3
<1>9. base' \in Nat /\ rounded' \in Nat
  BY <1>3, <1>4, <1>5 DEF TypeOK
<1> HIDE DEF p
<1> QED
  BY <1>5, <1>7, <1>8, <1>9

LEMMA DecideHolds == ASSUME IInv, Decide PROVE IInv'
<1>0. /\ turn = "decision" /\ turn' = "expiry" /\ toPay = {}
      /\ UNCHANGED <<accountVars, toPay, officeVars, day>>
  BY DEF Decide, IInv, PaymentsInTurn
<1>1. CASE UNCHANGED <<welfare, policies, lastDecision, base, rounded>>
  BY <1>0, <1>1 DEF IInv, TypeOK, PaymentsInTurn, PoliciesArePaid, PolicyIsPaid,
     BorrowingIsDebt, Available, Active, accountVars, officeVars
<1>2. ASSUME NEW k \in Kinds, Enact(k) PROVE IInv'
  <2>1. PICK p \in Terms_ : /\ policies' = [policies EXCEPT ![k] = p]
                            /\ p.enacted = day /\ p.expires > day /\ p.paid = 0
    BY <1>2, EnactTyped DEF IInv
  <2>2. TypeOK'
    BY <1>0, <1>2, <2>1, EnactTyped DEF IInv, TypeOK, Terms_, accountVars, officeVars
  <2>3. PolicyIsPaid'
    <3>1. policies' \in [Kinds -> Terms_] /\ policies'[k] = p
      BY <2>1 DEF IInv, TypeOK, Terms_
    <3>2. day \in Nat
      BY DEF IInv, TypeOK
    <3>3. ASSUME NEW j \in Kinds, Active(j)'
          PROVE  day =< policies'[j].expires /\ policies'[j].paid = day - policies'[j].enacted
      <4>1. CASE j = k
        BY <2>1, <3>1, <3>2, <4>1 DEF Terms_
      <4>2. CASE j # k
        <5>1. policies'[j] = policies[j]
          BY <2>1, <4>2 DEF IInv, TypeOK
        <5>2. policies[j].enacted \in Nat
          BY DEF IInv, TypeOK
        <5> QED
          BY <1>0, <3>2, <3>3, <5>1, <5>2 DEF IInv, PoliciesArePaid, PolicyIsPaid,
             Active
      <4> QED
        BY <4>1, <4>2
    <3>4. \A j \in Kinds : policies'[j].enacted \in Nat
      BY <3>1 DEF Terms_
    <3> QED
      BY <1>0, <3>2, <3>3, <3>4 DEF PolicyIsPaid
  <2>4. BorrowingIsDebt'
    BY <1>0 DEF IInv, PoliciesArePaid, BorrowingIsDebt, Available, accountVars
  <2> QED
    BY <1>0, <2>2, <2>3, <2>4 DEF IInv, PoliciesArePaid, PaymentsInTurn
<1>3. \A trouble \in Troubles \ {"none"} : Answer(trouble) \in Kinds
  BY DEF Troubles, Answer, Kinds
<1> QED
  BY <1>1, <1>2, <1>3 DEF Decide

LEMMA ExpireHolds == ASSUME IInv, Expire PROVE IInv'
<1>1. NotInForce \in Terms_ /\ ~NotInForce.active
  BY DEF NotInForce, Terms_
<1>2. policies' = [k \in Kinds |-> IF Lapses(k) THEN NotInForce ELSE policies[k]]
  BY DEF Expire
<1>3. policies' \in [Kinds -> Terms_]
  BY <1>1, <1>2 DEF IInv, TypeOK, Terms_
<1>4. \A k \in Kinds : Active(k)' => Active(k) /\ policies'[k] = policies[k] /\ day < policies[k].expires
  BY <1>1, <1>2 DEF Active, Lapses, IInv, TypeOK
<1>5. welfare' \in Nat /\ rounded' \in Nat
  <2>1. CASE Lapses("welfare_boost")
    <3>1. policies["welfare_boost"].rate \in 0..99
      BY DEF IInv, TypeOK, Kinds
    <3>2. 100 * welfare \in Nat
      BY DEF IInv, TypeOK
    <3>3. 100 + policies["welfare_boost"].rate \in Nat \ {0}
      BY <3>1
    <3>4. Unboosted(welfare, policies["welfare_boost"].rate) \subseteq Nat
      BY <3>2, <3>3, TruncatedIsNat DEF Unboosted
    <3> QED
      BY <2>1, <3>4 DEF Expire, IInv, TypeOK
  <2>2. CASE ~Lapses("welfare_boost")
    BY <2>2 DEF Expire, IInv, TypeOK
  <2> QED
    BY <2>1, <2>2
<1>6. TypeOK'
  BY <1>3, <1>5 DEF Expire, IInv, TypeOK, Terms_, accountVars, officeVars
<1>7. PaymentsInTurn' /\ PolicyIsPaid'
  BY <1>4 DEF Expire, IInv, PaymentsInTurn, PoliciesArePaid, PolicyIsPaid, officeVars
<1>8. BorrowingIsDebt'
  BY DEF Expire, IInv, PoliciesArePaid, BorrowingIsDebt, Available, accountVars
<1> QED
  BY <1>6, <1>7, <1>8 DEF IInv, PoliciesArePaid

Election_ == [scheduled : Nat, held : BOOLEAN, winner : Parties \cup {Nobody}]

\* The list of elections ends with the coming one.
LEMMA ScheduledTyped ==
  ASSUME TypeOK
  PROVE  /\ Scheduled \in Seq(Election_) /\ Len(Scheduled) \in Nat \ {0}
         /\ Coming \in Election_ /\ (elections # <<>> => Scheduled = elections)
         /\ (elections = <<>> => Scheduled = <<Called(ElectionPeriod)>>)
<1>1. Called(ElectionPeriod) \in Election_
  BY GovernmentAssumption DEF Called, Election_
<1>2. elections \in Seq(Election_)
  BY DEF TypeOK, Election_
<1>3. CASE elections = <<>>
  BY <1>1, <1>3 DEF Scheduled, Coming
<1>4. CASE elections # <<>>
  BY <1>2, <1>4 DEF Scheduled, Coming
<1> QED
  BY <1>3, <1>4

\* The last of a sequence is replaced and another one appended.
LEMMA LastReplaced ==
  ASSUME NEW S, NEW seq \in Seq(S), Len(seq) # 0, NEW x \in S, NEW y \in S, NEW new,
         new = Append([seq EXCEPT ![Len(seq)] = x], y)
  PROVE  /\ new \in Seq(S) /\ Len(new) = Len(seq) + 1
         /\ \A i \in 1..(Len(seq) - 1) : new[i] = seq[i]
         /\ new[Len(seq)] = x
<1>1. PICK n \in Nat \ {0} : n = Len(seq)
  OBVIOUS
<1>2. n \in 1..n /\ \A i \in 1..(n - 1) : i \in 1..n /\ i # n
  OBVIOUS
<1>3. /\ [seq EXCEPT ![n] = x] \in Seq(S) /\ Len([seq EXCEPT ![n] = x]) = n
      /\ \A j \in 1..n : [seq EXCEPT ![n] = x][j] = IF j = n THEN x ELSE seq[j]
  BY <1>1, <1>2, ExceptSeq
<1>4. PICK mid : mid = [seq EXCEPT ![n] = x]
  OBVIOUS
<1>5. /\ mid \in Seq(S) /\ Len(mid) = n /\ mid[n] = x
      /\ \A j \in 1..(n - 1) : mid[j] = seq[j]
  BY <1>2, <1>3, <1>4
<1>6. new = Append(mid, y)
  BY <1>1, <1>4
<1>7. new \in Seq(S) /\ Len(new) = n + 1 /\ \A i \in 1..n : new[i] = mid[i]
  BY <1>5, <1>6, AppendProperties
<1> QED
  BY <1>1, <1>2, <1>5, <1>7

\* An election that is held appends the one that comes next.
LEMMA HeldTyped ==
  ASSUME TypeOK, NEW winner \in Parties,
         elections' = Append([Scheduled EXCEPT ![Len(Scheduled)] = Held(@, winner)],
                             Called(day + ElectionPeriod))
  PROVE  /\ elections' \in Seq(Election_) /\ Len(elections') = Len(Scheduled) + 1
         /\ \A i \in 1..(Len(Scheduled) - 1) : elections'[i] = Scheduled[i]
         /\ elections'[Len(Scheduled)].held
         /\ elections'[Len(Scheduled)].winner = winner
<1>1. Scheduled \in Seq(Election_) /\ Len(Scheduled) # 0 /\ Coming \in Election_
  BY ScheduledTyped
<1>2. /\ Held(Coming, winner) \in Election_ /\ Held(Coming, winner).held
      /\ Held(Coming, winner).winner = winner
  BY <1>1 DEF Election_, Held
<1>3. PICK won \in Election_ : won = Held(Coming, winner) /\ won.held /\ won.winner = winner
  BY <1>2
<1>4. elections' = Append([Scheduled EXCEPT ![Len(Scheduled)] = won], Called(day + ElectionPeriod))
  BY <1>1, <1>3 DEF Coming
<1>5. Called(day + ElectionPeriod) \in Election_
  BY GovernmentAssumption DEF Called, Election_, TypeOK
<1>6. /\ elections' \in Seq(Election_) /\ Len(elections') = Len(Scheduled) + 1
      /\ \A i \in 1..(Len(Scheduled) - 1) : elections'[i] = Scheduled[i]
      /\ elections'[Len(Scheduled)] = won
  BY <1>1, <1>4, <1>5, LastReplaced
<1> QED
  BY <1>3, <1>6

LEMMA ElectionHolds == ASSUME IInv, Election PROVE IInv'
<1>1. /\ turn = "election" /\ turn' = "taxes"
      /\ UNCHANGED <<accountVars, policyVars, day>>
  BY DEF Election
<1>2. /\ inPower' \subseteq Parties /\ ruling' \in Parties
      /\ mayor' \in {FirstMayor} \cup {Leader[p] : p \in Parties}
      /\ elections' \in Seq(Election_)
  <2>1. CASE IsDue
    <3>1. PICK winner \in Parties :
            /\ inPower' = Seated(winner) /\ ruling' = winner
            /\ mayor' = MayorOf(winner)
            /\ elections' = Append([Scheduled EXCEPT ![Len(Scheduled)] = Held(@, winner)],
                                   Called(day + ElectionPeriod))
      BY <2>1 DEF Election
    <3>2. elections' \in Seq(Election_)
      BY <3>1, HeldTyped DEF IInv
    <3> QED
      BY <3>1, <3>2 DEF Seated, MayorOf, IInv, TypeOK
  <2>2. CASE ~IsDue
    BY <2>2, ScheduledTyped DEF Election, IInv, TypeOK
  <2> QED
    BY <2>1, <2>2
<1>3. TypeOK'
  BY <1>1, <1>2 DEF IInv, TypeOK, Election_, accountVars, policyVars
<1>4. PaymentsInTurn' /\ PolicyIsPaid'
  BY <1>1 DEF IInv, PaymentsInTurn, PoliciesArePaid, PolicyIsPaid, Active, policyVars
<1>5. BorrowingIsDebt'
  BY <1>1 DEF IInv, PoliciesArePaid, BorrowingIsDebt, Available, accountVars
<1> QED
  BY <1>3, <1>4, <1>5 DEF IInv, PoliciesArePaid

LEMMA TaxesHolds == ASSUME IInv, Taxes PROVE IInv'
<1>1. /\ turn = "taxes" /\ turn' = "city" /\ day' = day + 1 /\ day < LastDay
      /\ UNCHANGED <<overdraft, deficit, policyVars, officeVars>>
  BY DEF Taxes
<1>2. /\ treasury' \in Int /\ debt' \in Nat /\ treasury' >= treasury /\ debt' >= debt
  <2>1. CASE (day + 1) % MonthDays = 0
    <3>1. PICK collected \in {f \in Flows : f >= 0} :
            /\ treasury' = treasury + collected
            /\ debt' = debt + Larger(0, -(treasury + collected))
      BY <2>1 DEF Taxes
    <3>2. collected \in Nat
      BY GovernmentAssumption
    <3> QED
      BY <3>1, <3>2, AccountKept DEF Larger
  <2>2. CASE (day + 1) % MonthDays # 0
    BY <2>2, AccountKept DEF Taxes
  <2> QED
    BY <2>1, <2>2
<1>3. day \in Nat /\ day' \in 0..LastDay
  BY <1>1, GovernmentAssumption DEF IInv, TypeOK
<1>4. TypeOK'
  BY <1>1, <1>2, <1>3 DEF IInv, TypeOK, policyVars, officeVars
<1>5. PaymentsInTurn'
  BY <1>1 DEF IInv, PaymentsInTurn, Active, policyVars
<1>6. PolicyIsPaid'
  <2>1. \A k \in Kinds : /\ policies[k].expires \in Nat /\ policies[k].enacted \in Nat
                        /\ policies'[k] = policies[k]
    BY <1>1 DEF IInv, TypeOK, policyVars
  <2>2. \A k \in Kinds : Active(k) => /\ day < policies[k].expires
                                     /\ policies[k].paid = day - policies[k].enacted
    BY <1>1, <1>3, <2>1 DEF IInv, PaymentsInTurn, PoliciesArePaid, PolicyIsPaid
  <2> QED
    BY <1>1, <1>3, <2>1, <2>2 DEF PolicyIsPaid, Active
<1>7. BorrowingIsDebt'
  BY <1>1, <1>2, AccountKept DEF BorrowingIsDebt, Available
<1> QED
  BY <1>4, <1>5, <1>6, <1>7 DEF IInv, PoliciesArePaid

LEMMA StepHolds == ASSUME IInv, [Next]_vars PROVE IInv'
<1>1. CASE UNCHANGED vars
  BY <1>1 DEF vars, accountVars, policyVars, officeVars, IInv, TypeOK, PaymentsInTurn,
     PoliciesArePaid, PolicyIsPaid, BorrowingIsDebt, Available, Active
<1> QED
  BY <1>1, CityHolds, PublicSectorHolds, PayPolicyHolds, EndPoliciesHolds, DecideHolds,
     ExpireHolds, ElectionHolds, TaxesHolds DEF Next

-----------------------------------------------------------------------------
(* The welfare.                                                            *)

\* How far the quotient is from the whole.
LEMMA TruncatedNear ==
  ASSUME NEW n \in Nat, NEW d \in Nat \ {0}, NEW x \in Truncated(n, d)
  PROVE  x \in Nat /\ d * x =< n /\ n - d =< d * x
<1>1. \A m \in Nat : m \div d \in Nat /\ d * (m \div d) =< m /\ m < d * (m \div d) + d
  OBVIOUS
<1>2. CASE x = n \div d
  BY <1>1, <1>2
<1>3. CASE x # n \div d
  <2>1. x = (Larger(1, n) - 1) \div d
    BY <1>3 DEF Truncated
  <2>2. CASE n = 0
    <3>1. x = 0 \div d
      BY <2>1, <2>2 DEF Larger
    <3> QED
      BY <1>1, <1>3, <2>2, <3>1
  <2>3. CASE n # 0
    <3>1. n - 1 \in Nat /\ x = (n - 1) \div d
      BY <2>1, <2>3 DEF Larger
    <3>2. x \in Nat /\ d * x =< n - 1 /\ n - 1 < d * x + d /\ d * x \in Nat
      BY <1>1, <3>1
    <3> QED
      BY <3>2
  <2> QED
    BY <2>2, <2>3
<1> QED
  BY <1>2, <1>3

\* A product grows with its factor,
LEMMA TimesIsMonotone ==
  ASSUME NEW x \in Int, NEW y \in Int, NEW m \in Nat, x =< y PROVE x * m =< y * m
OBVIOUS

\* and a positive factor can be taken out again.
LEMMA TimesCancels ==
  ASSUME NEW x \in Int, NEW y \in Int, NEW m \in Nat \ {0}, x * m =< y * m PROVE x =< y
<1>1. SUFFICES ASSUME y + 1 =< x PROVE FALSE
  OBVIOUS
<1>2. (y + 1) * m =< x * m
  BY <1>1, TimesIsMonotone
<1>3. (y + 1) * m = y * m + m
  OBVIOUS
<1>4. y * m \in Int /\ x * m \in Int
  OBVIOUS
<1> QED
  BY <1>2, <1>3, <1>4

\* Welfare w with a boost of r percent in force is near what b would be with it: to
\* within s units of b.
Near(w, b, s, r) == (b - s) * (100 + r) =< 100 * w /\ 100 * w =< (b + s) * (100 + r)

\* A boost keeps it near,
LEMMA BoostNear ==
  ASSUME NEW w \in Nat, NEW b \in Nat, NEW s \in Nat, NEW r \in 0..99, Near(w, b, s, 0),
         NEW new \in Truncated(w * (100 + r), 100)
  PROVE  Near(new, b, s + 1, r)
<1>1. PICK m \in Nat : m = 100 + r
  OBVIOUS
<1>2. w * m \in Nat
  BY <1>1
<1>3. new \in Nat /\ 100 * new =< w * m /\ w * m - 100 =< 100 * new
  BY <1>1, <1>2, TruncatedNear
<1>4. b - s =< w /\ w =< b + s
  BY DEF Near
<1>5. (b - s) * m =< w * m /\ w * m =< (b + s) * m
  BY <1>4, TimesIsMonotone
<1>6. (b - (s + 1)) * m = (b - s) * m - m /\ (b + (s + 1)) * m = (b + s) * m + m
  OBVIOUS
<1>7. (b - s) * m \in Int /\ (b + s) * m \in Int
  OBVIOUS
<1>8. (b - (s + 1)) * m =< 100 * new /\ 100 * new =< (b + (s + 1)) * m
  BY <1>1, <1>2, <1>3, <1>5, <1>6, <1>7
<1> QED
  BY <1>1, <1>8 DEF Near

\* and so does the end of one,
LEMMA LapseNear ==
  ASSUME NEW w \in Nat, NEW b \in Nat, NEW s \in Nat, NEW r \in 0..99, Near(w, b, s, r),
         NEW new \in Truncated(100 * w, 100 + r)
  PROVE  Near(new, b, s + 1, 0)
<1>1. PICK m \in Nat \ {0} : m = 100 + r
  OBVIOUS
<1>2. new \in Nat /\ m * new =< 100 * w /\ 100 * w - m =< m * new
  BY <1>1, TruncatedNear
<1>3. (b - s) * m =< 100 * w /\ 100 * w =< (b + s) * m
  BY <1>1 DEF Near
<1>4. m * new = new * m /\ new * m \in Nat /\ (b - s) * m \in Int /\ (b + s) * m \in Int
  BY <1>2
<1>5. (b - s) * m - m = (b - s - 1) * m
  OBVIOUS
<1>6. (b - s - 1) * m =< new * m /\ new * m =< (b + s) * m
  BY <1>2, <1>3, <1>4, <1>5
<1>7. b - s - 1 =< new /\ new =< b + s
  BY <1>2, <1>6, TimesCancels
<1> QED
  BY <1>2, <1>7 DEF Near

\* and austerity, which rounds the two apart by one more unit.
LEMMA AusterityNear ==
  ASSUME NEW w \in Nat, NEW b \in Nat, NEW s \in Nat, NEW r \in 0..99, Near(w, b, s, r),
         NEW a \in 1..99, NEW new \in Truncated(w * (100 - a), 100)
  PROVE  Near(new, (b * (100 - a)) \div 100, s + 1, r)
<1>1. PICK m \in Nat, c \in 1..99 : m = 100 + r /\ c = 100 - a /\ m >= 100
  OBVIOUS
<1>2. w * c \in Nat /\ b * c \in Nat
  OBVIOUS
<1>3. new \in Nat /\ 100 * new =< w * c /\ w * c - 100 =< 100 * new
  BY <1>1, <1>2, TruncatedNear
<1>4. PICK cut \in Nat : cut = (b * c) \div 100 /\ 100 * cut =< b * c /\ b * c =< 100 * cut + 99
  BY <1>2
<1>5. (b - s) * m =< 100 * w /\ 100 * w =< (b + s) * m
  BY <1>1 DEF Near
<1>6. ((b - s) * m) * c =< (100 * w) * c /\ (100 * w) * c =< ((b + s) * m) * c
  BY <1>5, TimesIsMonotone
<1>7. s * c =< 100 * s /\ s * c \in Nat
  BY <1>1
<1>8. 100 * cut - 100 * s - 100 =< (b * c) - (s * c) - 100 /\ (b * c) + (s * c) =< 100 * cut + 100 * s + 99
  BY <1>2, <1>4, <1>7
<1>9. /\ (100 * cut - 100 * s - 100) * m =< ((b * c) - (s * c) - 100) * m
      /\ ((b * c) + (s * c)) * m =< (100 * cut + 100 * s + 99) * m
  BY <1>2, <1>7, <1>8, TimesIsMonotone
<1>10. /\ (100 * cut - 100 * s - 100) * m = 100 * ((cut - (s + 1)) * m)
       /\ (100 * cut + 100 * s + 99) * m = 100 * ((cut + (s + 1)) * m) - m
       /\ ((b * c) - (s * c) - 100) * m = ((b - s) * m) * c - 100 * m
       /\ ((b * c) + (s * c)) * m = ((b + s) * m) * c
       /\ (100 * w) * c = 100 * (w * c)
  OBVIOUS
<1>11. PICK low \in Int, high \in Int, lowC \in Int, highC \in Int :
          /\ low = (cut - (s + 1)) * m /\ high = (cut + (s + 1)) * m
          /\ lowC = ((b - s) * m) * c /\ highC = ((b + s) * m) * c
  OBVIOUS
<1>12. /\ 100 * low =< lowC - 100 * m /\ highC =< 100 * high - m
       /\ lowC =< 100 * (w * c) /\ 100 * (w * c) =< highC
  BY <1>6, <1>9, <1>10, <1>11
<1>13. low =< 100 * new /\ 100 * new =< high
  BY <1>1, <1>2, <1>3, <1>12
<1> QED
  BY <1>1, <1>4, <1>11, <1>13 DEF Near

\* The welfare is near what it would be with the boost in force, or with none.
WelfareInv ==
    /\ Near(welfare, base, rounded, policies["welfare_boost"].rate)
    /\ ~Active("welfare_boost") => policies["welfare_boost"].rate = 0

\* What a policy does to the welfare when it is enacted.
LEMMA EnactKeepsWelfare ==
  ASSUME TypeOK, WelfareInv, NEW k \in Kinds, ~Active(k), Enact(k) PROVE WelfareInv'
<1> DEFINE New(rate, term, newWelfare, cost) ==
            /\ welfare' = newWelfare
            /\ policies' = [policies EXCEPT ![k] =
                  [active |-> TRUE, rate |-> rate, cost |-> cost, enacted |-> day,
                   expires |-> day + term, paid |-> 0]]
            /\ lastDecision' = day
            /\ base' = IF k = "austerity" THEN (base * (100 - rate)) \div 100 ELSE base
            /\ rounded' = IF ChangesWelfare(k) THEN rounded + 1 ELSE rounded
<1>1. PICK rate \in Rates, term \in Terms : \E newWelfare \in Changed(welfare, k, rate) :
        \E cost \in CostOf(k, newWelfare) : New(rate, term, newWelfare, cost)
  BY DEF Enact
<1>2. PICK newWelfare \in Changed(welfare, k, rate) :
        \E cost \in CostOf(k, newWelfare) : New(rate, term, newWelfare, cost)
  BY <1>1
<1>3. PICK cost \in CostOf(k, newWelfare) : New(rate, term, newWelfare, cost)
  BY <1>2
<1>4. /\ rate \in 1..99 /\ rate \in 0..99 /\ welfare \in Nat /\ base \in Nat /\ rounded \in Nat
      /\ policies["welfare_boost"].rate \in 0..99
  <2>1. policies["welfare_boost"].rate \in 0..99
    BY DEF TypeOK, Kinds
  <2>2. rate \in 1..99 /\ welfare \in Nat /\ base \in Nat /\ rounded \in Nat
    BY GovernmentAssumption DEF TypeOK
  <2> QED
    BY <2>1, <2>2
<1> DEFINE p == [active |-> TRUE, rate |-> rate, cost |-> cost, enacted |-> day,
                 expires |-> day + term, paid |-> 0]
<1>5. policies' = [policies EXCEPT ![k] = p] /\ p.active /\ p.rate = rate
  BY <1>3
<1> HIDE DEF p
<1>6. policies'[k] = p /\ (k # "welfare_boost" => policies'["welfare_boost"] = policies["welfare_boost"])
  BY <1>5 DEF TypeOK, Kinds
<1>7. CASE k = "welfare_boost"
  <2>1. Near(welfare, base, rounded, 0)
    BY <1>7 DEF WelfareInv
  <2>2. newWelfare \in Truncated(welfare * (100 + rate), 100)
    BY <1>2, <1>7 DEF Changed
  <2>3. Near(newWelfare, base, rounded + 1, rate)
    BY <1>4, <2>1, <2>2, BoostNear
  <2>4. welfare' = newWelfare /\ base' = base /\ rounded' = rounded + 1
    BY <1>3, <1>7 DEF ChangesWelfare
  <2> QED
    BY <1>5, <1>6, <1>7, <2>3, <2>4 DEF WelfareInv, Active
<1>8. CASE k = "austerity"
  <2>1. newWelfare \in Truncated(welfare * (100 - rate), 100)
    BY <1>2, <1>8 DEF Changed
  <2>2. Near(newWelfare, (base * (100 - rate)) \div 100, rounded + 1, policies["welfare_boost"].rate)
    BY <1>4, <2>1, AusterityNear DEF WelfareInv
  <2>3. /\ welfare' = newWelfare /\ base' = (base * (100 - rate)) \div 100 /\ rounded' = rounded + 1
    BY <1>3, <1>8 DEF ChangesWelfare
  <2> QED
    BY <1>6, <1>8, <2>2, <2>3 DEF WelfareInv, Active
<1>9. CASE k \notin {"welfare_boost", "austerity"}
  <2>1. UNCHANGED <<welfare, base, rounded>>
    BY <1>2, <1>3, <1>9 DEF Changed, ChangesWelfare
  <2> QED
    BY <1>6, <1>9, <2>1 DEF WelfareInv, Active
<1> QED
  BY <1>7, <1>8, <1>9

\* Nothing else a day does to the policies touches a rate.
LEMMA StepKeepsWelfare ==
  ASSUME TypeOK, WelfareInv, [Next]_vars PROVE WelfareInv'
<1>1. CASE Decide
  <2>1. CASE UNCHANGED <<welfare, policies, lastDecision, base, rounded>>
    BY <2>1 DEF WelfareInv, Active
  <2>2. CASE ~UNCHANGED <<welfare, policies, lastDecision, base, rounded>>
    <3>1. PICK trouble \in Troubles : /\ trouble # "none"
                                      /\ MayEnact(Answer(trouble)) /\ Enact(Answer(trouble))
      BY <1>1, <2>2 DEF Decide
    <3>2. Answer(trouble) \in Kinds
      BY <3>1 DEF Troubles, Answer, Kinds
    <3> QED
      BY <3>1, <3>2, EnactKeepsWelfare DEF MayEnact
  <2> QED
    BY <2>1, <2>2
<1>2. CASE Expire
  <2>1. /\ welfare \in Nat /\ base \in Nat /\ rounded \in Nat
        /\ policies["welfare_boost"].rate \in 0..99
    BY DEF TypeOK, Kinds
  <2>2. policies'["welfare_boost"] = IF Lapses("welfare_boost") THEN NotInForce
                                     ELSE policies["welfare_boost"]
    BY <1>2 DEF Expire, Kinds
  <2>3. CASE Lapses("welfare_boost")
    <3>1. /\ welfare' \in Truncated(100 * welfare, 100 + policies["welfare_boost"].rate)
          /\ rounded' = rounded + 1 /\ base' = base
      BY <1>2, <2>3 DEF Expire, Unboosted
    <3>2. Near(welfare', base, rounded + 1, 0)
      BY <2>1, <3>1, LapseNear DEF WelfareInv
    <3>3. policies'["welfare_boost"].rate = 0
      BY <2>2, <2>3 DEF NotInForce
    <3> QED
      BY <3>1, <3>2, <3>3 DEF WelfareInv
  <2>4. CASE ~Lapses("welfare_boost")
    BY <1>2, <2>2, <2>4 DEF Expire, WelfareInv, Active
  <2> QED
    BY <2>3, <2>4
<1>3. ASSUME NEW k \in Kinds, PayPolicy(k) PROVE WelfareInv'
  <2>1. UNCHANGED <<welfare, base, rounded>>
    BY <1>3 DEF PayPolicy
  <2>2. policies' = policies \/ policies' = [policies EXCEPT ![k] = Paid(policies[k])]
    BY <1>3 DEF PayPolicy
  <2>3. /\ policies'["welfare_boost"].rate = policies["welfare_boost"].rate
        /\ policies'["welfare_boost"].active = policies["welfare_boost"].active
    <3>1. "welfare_boost" \in Kinds /\ policies \in [Kinds -> Terms_]
      BY DEF TypeOK, Kinds, Terms_
    <3>2. CASE policies' = [policies EXCEPT ![k] = Paid(policies[k])]
      <4>1. CASE k = "welfare_boost"
        <5>1. policies[k] \in Terms_ /\ policies'[k] = Paid(policies[k])
          BY <3>1, <3>2
        <5>2. Paid(policies[k]).rate = policies[k].rate /\ Paid(policies[k]).active = policies[k].active
          BY <5>1 DEF Paid, Terms_
        <5> QED
          BY <4>1, <5>1, <5>2
      <4>2. CASE k # "welfare_boost"
        BY <3>1, <3>2, <4>2
      <4> QED
        BY <4>1, <4>2
    <3> QED
      BY <2>2, <3>2
  <2> QED
    BY <2>1, <2>3 DEF WelfareInv, Active
<1>4. CASE UNCHANGED <<welfare, policies, base, rounded>>
  BY <1>4 DEF WelfareInv, Active
<1> QED
  BY <1>1, <1>2, <1>3, <1>4 DEF Next, City, PublicSector, EndPolicies, Election, Taxes,
     policyVars, vars

-----------------------------------------------------------------------------
(* The office.                                                             *)

LEMMA StepKeepsOffice ==
  ASSUME TypeOK, OneGovernment, [Next]_vars PROVE OneGovernment'
<1>1. CASE Election /\ IsDue
  <2>1. PICK winner \in Parties :
          /\ inPower' = Seated(winner) /\ ruling' = winner
          /\ mayor' = MayorOf(winner)
          /\ elections' = Append([Scheduled EXCEPT ![Len(Scheduled)] = Held(@, winner)],
                                 Called(day + ElectionPeriod))
    BY <1>1 DEF Election
  <2> DEFINE n == Len(Scheduled)
  <2>2. /\ n \in Nat \ {0} /\ Len(elections') = n + 1
        /\ \A i \in 1..(n - 1) : elections'[i] = Scheduled[i]
        /\ elections'[n].held /\ elections'[n].winner = winner
    BY <2>1, HeldTyped, ScheduledTyped
  <2>3. \A i \in 1..(n - 1) : Scheduled[i].held
    <3>1. CASE elections = <<>>
      <4>1. n = 1
        BY <3>1, ScheduledTyped
      <4> QED
        BY <4>1
    <3>2. CASE elections # <<>>
      BY <3>2, ScheduledTyped DEF OneGovernment
    <3> QED
      BY <3>1, <3>2
  <2>4. \A i \in 1..n : elections'[i].held
    BY <2>2, <2>3
  <2> QED
    BY <2>1, <2>2, <2>4 DEF OneGovernment, Seated, MayorOf
<1>2. CASE Election /\ ~IsDue
  <2>1. elections' = Scheduled /\ UNCHANGED <<inPower, ruling, mayor>>
    BY <1>2 DEF Election
  <2>2. CASE elections = <<>>
    <3>1. Len(elections') = 1 /\ UNCHANGED <<inPower, ruling>>
      BY <2>1, <2>2, ScheduledTyped
    <3> QED
      BY <3>1 DEF OneGovernment
  <2>3. CASE elections # <<>>
    BY <2>1, <2>3, ScheduledTyped DEF OneGovernment
  <2> QED
    BY <2>2, <2>3
<1>3. CASE UNCHANGED officeVars
  BY <1>3 DEF OneGovernment, officeVars
<1> QED
  BY <1>1, <1>2, <1>3 DEF Next, City, PublicSector, EndPolicies, Decide, Expire, Taxes,
     PayPolicy,
     vars

-----------------------------------------------------------------------------
(* The theorems.                                                           *)

\* The payments are in turn, and types and debt are right, for ever.
LEMMA InvariantHolds == Spec => []IInv
<1>1. Init => IInv
  BY InitHolds
<1>2. IInv /\ [Next]_vars => IInv'
  BY StepHolds
<1> QED
  BY <1>1, <1>2, PTL DEF Spec

\* The types of the state hold for ever.
THEOREM TypesKept == Spec => []TypeOK
<1>1. IInv => TypeOK
  BY DEF IInv
<1> QED
  BY <1>1, InvariantHolds, PTL

\* The city pays for every policy on every day it is in force, and what it draws
\* beyond its money is on the books as debt.
THEOREM PoliciesStayPaid == Spec => []PoliciesArePaid
<1>1. IInv => PoliciesArePaid
  BY DEF IInv
<1> QED
  BY <1>1, InvariantHolds, PTL

\* One party is in power, and it is the one that won the last election.
THEOREM OneGovernmentStays == Spec => []OneGovernment
<1>1. Init => OneGovernment
  BY DEF Init, OneGovernment
<1>2. TypeOK /\ OneGovernment /\ [Next]_vars => OneGovernment'
  BY StepKeepsOffice
<1> QED
  BY <1>1, <1>2, TypesKept, PTL DEF Spec

\* What a boost adds to the benefits goes when it lapses, and what austerity takes
\* stays gone, whatever came between: only the rounding is left.
THEOREM BoostsComeBack == Spec => []WelfareComesBack
<1>1. Init => WelfareInv
  <2>1. OpeningWelfare \in Nat /\ "welfare_boost" \in Kinds
    BY GovernmentAssumption DEF Kinds
  <2> QED
    BY <2>1 DEF Init, WelfareInv, Near, NotInForce, Active
<1>2. TypeOK /\ WelfareInv /\ [Next]_vars => WelfareInv'
  BY StepKeepsWelfare
<1>3. TypeOK /\ WelfareInv => WelfareComesBack
  BY DEF TypeOK, WelfareInv, WelfareComesBack, Near
<1> QED
  BY <1>1, <1>2, <1>3, TypesKept, PTL DEF Spec
=============================================================================
