----------------------- MODULE ArchitectIntakeProofs -----------------------
(***************************************************************************)
(* What the interview promises its user, for any users, requirements,      *)
(* milestones, updates and kills, however the commands overlap: only       *)
(* complete specs are planned, and until a command saves a stale copy      *)
(* nothing told is forgotten and no boundary is crossed alone.             *)
(***************************************************************************)
EXTENDS ArchitectIntake, WellFoundedInduction, SequenceTheorems, TLAPS

(* Lists of milestones as _upsert_by_id leaves them: no id twice.          *)
Lists ==
    {items \in Seq(Milestone) :
        \A i, j \in DOMAIN items : items[i].id = items[j].id => i = j}

(* What was listed keeps its place.                                        *)
Continues(new, old) ==
    /\ Len(old) <= Len(new)
    /\ \A i \in DOMAIN old : new[i].id = old[i].id

(* One of the two continues the other.                                     *)
Agree(a, b) == \A i \in DOMAIN a \cap DOMAIN b : a[i].id = b[i].id

Specs ==
    [described : BOOLEAN, requirements : Functions(Requirements, SUBSET Criteria),
     acceptance : Functions(Criteria, {None} \cup Requirements),
     milestones : Lists, open : BOOLEAN]
Sessions == [spec : Specs, interview : Nat]
Files == [spec : Specs, interview : Nat, forced : BOOLEAN]
Jobs ==
    [at : {"idle", "asking", "gate", "passed", "roadmap", "delegation", "compiled"},
     spec : Specs, interview : Nat, stale : BOOLEAN, overwrite : BOOLEAN,
     forced : BOOLEAN]

IntakeTypeOK ==
    /\ session # None => session \in Sessions
    /\ job \in [Users -> Jobs]
    /\ \A file \in {roadmap, delegation} : file # None => file \in Files
    /\ interviews \in Nat

(* What is compiled, and what was, is complete, unless --allow-incomplete  *)
(* was given: it is checked when it is loaded and does not change until it *)
(* is written.                                                             *)
CompiledWhole ==
    /\ \A u \in Users :
         job[u].at \in {"roadmap", "delegation", "compiled"} /\ ~job[u].forced =>
             Complete(job[u].spec)
    /\ roadmap # None /\ ~roadmap.forced => Complete(roadmap.spec)
    /\ delegation # None /\ ~delegation.forced => Complete(delegation.spec)

(* The copies there are of a spec: the session, the two files, and what    *)
(* the commands have loaded.  The session and the copies that are not      *)
(* stale lead the others.                                                  *)
Holding(u) == job[u].at \notin {"idle", "passed"}
Copies ==
    ({session, roadmap, delegation} \ {None})
    \cup {job[u] : u \in {v \in Users : Holding(v)}}
Leaders ==
    ({session} \ {None})
    \cup {job[u] : u \in {v \in Users : Holding(v) /\ ~job[v].stale}}

(* The interviews are numbered as they begin.                              *)
Numbered == \A a \in Copies : a.interview <= interviews

(* The copies of one interview are stages of one list: those that lead are *)
(* the same and continue all others, and the others agree, also when there *)
(* is none that leads.                                                     *)
OneInterview(a, b) == a.interview = b.interview /\ a.interview \notin overtaken
OneHistory ==
    /\ \A a, b \in Copies :
         OneInterview(a, b) => Agree(a.spec.milestones, b.spec.milestones)
    /\ \A a \in Leaders, b \in Copies :
         OneInterview(a, b) => Continues(a.spec.milestones, b.spec.milestones)
    /\ \A a, b \in Leaders : OneInterview(a, b) => a.spec = b.spec
----------------------------------------------------------------------------
(* Induction up to a bound, as a fact about a set.                         *)
LEMMA UpTo ==
  ASSUME NEW N \in Nat, NEW S, 0 \in S,
         \A k \in 1..N : k - 1 \in S => k \in S
  PROVE  0..N \subseteq S
<1> DEFINE T == (0..N) \ S
<1>1. SUFFICES ASSUME T # {} PROVE FALSE
  OBVIOUS
<1>2. PICK k \in T : \A n \in T : ~(<<n, k>> \in OpToRel(<, Nat))
  <2>1. T \subseteq Nat
    OBVIOUS
  <2> HIDE DEF T
  <2> QED
    BY <1>1, <2>1, NatLessThanWellFounded, WFMin
<1>3. k \in 1..N /\ k - 1 \in S
  <2>1. k # 0 /\ k \in 0..N
    OBVIOUS
  <2>2. k - 1 \in Nat /\ k - 1 \in 0..N
    BY <2>1
  <2>3. <<k - 1, k>> \in OpToRel(<, Nat)
    BY <2>1, <2>2 DEF OpToRel
  <2>4. k - 1 \notin T
    BY <1>2, <2>3
  <2> QED
    BY <2>1, <2>2, <2>4
<1> QED
  BY <1>3

(* An entry changes the item it names, or adds one.                        *)
LEMMA FilledTyped ==
  ASSUME NEW covers \in SUBSET Requirements, NEW done \in SUBSET Criteria,
         NEW entry \in Entry
  PROVE  Filled(covers, done, entry) \in Milestone
         /\ Filled(covers, done, entry).id = entry.id
<1>1. /\ entry.id \in Milestones
      /\ entry.covers \in {None} \cup SUBSET Requirements
      /\ entry.done \in {None} \cup SUBSET Criteria
  BY DEF Entry
<1>2. Given(covers, entry.covers) \in SUBSET Requirements
  BY <1>1 DEF Given
<1>3. Given(done, entry.done) \in SUBSET Criteria
  BY <1>1 DEF Given
<1> QED
  BY <1>1, <1>2, <1>3 DEF Filled, Milestone

LEMMA MergedKeeps ==
  ASSUME NEW items \in Lists, NEW entry \in Entry
  PROVE  Merged(items, entry) \in Lists /\ Continues(Merged(items, entry), items)
<1>1. items \in Seq(Milestone)
  BY DEF Lists
<1>2. CASE entry.id \in Ids(items)
  <2> DEFINE n == Named(items, entry.id)
             item == Filled(items[n].covers, items[n].done, entry)
  <2>1. n \in DOMAIN items /\ items[n].id = entry.id
    BY <1>2 DEF Ids, Named
  <2>2. Merged(items, entry) = [items EXCEPT ![n] = item]
    BY <1>2 DEF Merged
  <2>8. item \in Milestone /\ item.id = entry.id
    <3>1. items[n] \in Milestone
      BY <1>1, <2>1
    <3>2. items[n].covers \in SUBSET Requirements /\ items[n].done \in SUBSET Criteria
      BY <3>1 DEF Milestone
    <3> QED
      BY <3>2, FilledTyped
  <2> HIDE DEF n, item
  <2>3. [items EXCEPT ![n] = item] \in Seq(Milestone)
    BY <1>1, <2>1, <2>8
  <2>4. \A i \in DOMAIN items : [items EXCEPT ![n] = item][i].id = items[i].id
    BY <1>1, <2>1, <2>8
  <2>5. DOMAIN [items EXCEPT ![n] = item] = DOMAIN items
    OBVIOUS
  <2>6. Len([items EXCEPT ![n] = item]) = Len(items)
    BY <1>1, <2>1
  <2>7. [items EXCEPT ![n] = item] \in Lists
    BY <2>3, <2>4, <2>5 DEF Lists
  <2> QED
    BY <1>1, <2>2, <2>4, <2>6, <2>7 DEF Continues
<1>3. CASE entry.id \notin Ids(items)
  <2> DEFINE item == Filled({}, {}, entry)
             all == Append(items, item)
  <2>1. Merged(items, entry) = all
    BY <1>3 DEF Merged
  <2>8. item \in Milestone /\ item.id = entry.id
    BY FilledTyped
  <2> HIDE DEF item
  <2>2. /\ all \in Seq(Milestone)
        /\ Len(all) = Len(items) + 1
        /\ DOMAIN all = 1..(Len(items) + 1) /\ DOMAIN items = 1..Len(items)
        /\ \A i \in DOMAIN items : all[i] = items[i]
        /\ all[Len(items) + 1] = item
        /\ Len(items) \in Nat
    BY <1>1, <2>8
  <2> HIDE DEF all
  <2>3. \A i \in DOMAIN items : items[i].id # item.id
    BY <1>3, <2>8 DEF Ids
  <2>4. \A i, j \in DOMAIN items : items[i].id = items[j].id => i = j
    BY DEF Lists
  <2>5. \A i \in DOMAIN all : i \in DOMAIN items \/ i = Len(items) + 1
    BY <2>2
  <2>6. \A i, j \in DOMAIN all : all[i].id = all[j].id => i = j
    BY <2>2, <2>3, <2>4, <2>5
  <2>7. all \in Lists
    BY <2>2, <2>6 DEF Lists
  <2> QED
    BY <2>1, <2>2, <2>7 DEF Continues
<1> QED
  BY <1>2, <1>3

LEMMA ContinuesOn ==
  ASSUME NEW a \in Lists, NEW b \in Lists, NEW c \in Lists,
         Continues(b, a), Continues(c, b)
  PROVE  Continues(c, a)
<1>1. /\ a \in Seq(Milestone) /\ b \in Seq(Milestone) /\ c \in Seq(Milestone)
      /\ DOMAIN a = 1..Len(a) /\ DOMAIN b = 1..Len(b)
      /\ Len(a) \in Nat /\ Len(b) \in Nat /\ Len(c) \in Nat
  BY DEF Lists
<1>2. DOMAIN a \subseteq DOMAIN b
  BY <1>1 DEF Continues
<1> QED
  BY <1>1, <1>2 DEF Continues

LEMMA ContinuesSelf ==
  ASSUME NEW a \in Lists PROVE Continues(a, a)
<1>1. Len(a) \in Nat
  BY DEF Lists
<1> QED
  BY <1>1 DEF Continues

LEMMA ContinuesAgrees ==
  ASSUME NEW a \in Lists, NEW b \in Lists, Continues(b, a)
  PROVE  Agree(a, b) /\ Agree(b, a)
BY DEF Continues, Agree

(* The loop of _upsert_by_id ends, whatever it is given, ...               *)
LEMMA UpsertedDefined ==
  ASSUME NEW old, NEW new \in Seq(Entry)
  PROVE  \E f : /\ f = [k \in 0..Len(new) |->
                          IF k = 0 THEN old ELSE Merged(f[k - 1], new[k])]
                /\ Upserted(old, new) = f[Len(new)]
<1> DEFINE N == Len(new)
           Loop(f, n) == f = [k \in 0..n |->
                               IF k = 0 THEN old ELSE Merged(f[k - 1], new[k])]
           S == {n \in 0..N : \E f : Loop(f, n)}
<1>1. N \in Nat
  OBVIOUS
<1>2. 0 \in S
  <2> DEFINE f0 == [k \in 0..0 |-> old]
  <2>1. Loop(f0, 0)
    OBVIOUS
  <2>2. \E f : Loop(f, 0)
    <3> HIDE DEF f0, Loop
    <3> QED
      BY <2>1
  <2>3. 0 \in 0..N
    BY <1>1
  <2> HIDE DEF Loop
  <2> QED
    BY <2>2, <2>3
<1>3. ASSUME NEW k \in 1..N, k - 1 \in S PROVE k \in S
  <2>1. PICK f : Loop(f, k - 1)
    BY <1>3
  <2> DEFINE g == [i \in 0..k |-> IF i = k THEN Merged(f[k - 1], new[k]) ELSE f[i]]
  <2>2. ASSUME NEW i \in 0..k
        PROVE  g[i] = IF i = 0 THEN old ELSE Merged(g[i - 1], new[i])
    <3>1. CASE i = k
      <4>1. g[i] = Merged(f[k - 1], new[k]) /\ i # 0
        BY <3>1
      <4>2. g[i - 1] = f[k - 1]
        BY <3>1
      <4> HIDE DEF g
      <4> QED
        BY <4>1, <4>2, <3>1
    <3>2. CASE i # k
      <4>1. i \in 0..(k - 1) /\ g[i] = f[i]
        BY <3>2
      <4>2. i # 0 => g[i - 1] = f[i - 1]
        BY <3>2
      <4>3. f[i] = IF i = 0 THEN old ELSE Merged(f[i - 1], new[i])
        BY <2>1, <4>1
      <4> HIDE DEF g
      <4> QED
        BY <4>1, <4>2, <4>3
    <3> QED
      BY <3>1, <3>2
  <2>3. g = [i \in 0..k |-> g[i]]
    OBVIOUS
  <2> HIDE DEF g
  <2>4. Loop(g, k)
    BY <2>2, <2>3
  <2> QED
    BY <1>1, <2>4
<1>4. N \in S
  <2> HIDE DEF S
  <2>1. 0..N \subseteq S
    BY <1>1, <1>2, <1>3, UpTo
  <2> QED
    BY <1>1, <2>1
<1>5. \E f : Loop(f, N)
  BY <1>4
<1>6. Loop(CHOOSE f : Loop(f, N), N)
  BY <1>5
<1>7. Upserted(old, new) = (CHOOSE f : Loop(f, N))[Len(new)]
  BY Zenon DEF Upserted
<1> QED
  BY <1>6, <1>7

(* ... and nothing that was listed is moved, dropped or listed twice.      *)
LEMMA UpsertedKeeps ==
  ASSUME NEW old \in Lists, NEW new \in Seq(Entry)
  PROVE  Upserted(old, new) \in Lists /\ Continues(Upserted(old, new), old)
<1> DEFINE N == Len(new)
<1>1. PICK f : /\ f = [k \in 0..N |->
                        IF k = 0 THEN old ELSE Merged(f[k - 1], new[k])]
               /\ Upserted(old, new) = f[N]
  BY UpsertedDefined
<1>2. N \in Nat
  OBVIOUS
<1> DEFINE S == {k \in 0..N : f[k] \in Lists /\ Continues(f[k], old)}
<1>3. 0 \in S
  <2>1. f[0] = old
    BY <1>1, <1>2
  <2> QED
    BY <1>2, <2>1, ContinuesSelf
<1>4. ASSUME NEW k \in 1..N, k - 1 \in S PROVE k \in S
  <2>1. k \in 0..N /\ k # 0
    OBVIOUS
  <2>2. f[k] = Merged(f[k - 1], new[k])
    BY <1>1, <2>1
  <2>3. new[k] \in Entry
    OBVIOUS
  <2>4. f[k - 1] \in Lists /\ Continues(f[k - 1], old)
    BY <1>4
  <2>5. f[k] \in Lists /\ Continues(f[k], f[k - 1])
    BY <2>2, <2>3, <2>4, MergedKeeps
  <2>6. Continues(f[k], old)
    BY <2>4, <2>5, ContinuesOn
  <2> QED
    BY <2>1, <2>5, <2>6
<1>5. N \in S
  <2> HIDE DEF S
  <2>1. 0..N \subseteq S
    BY <1>2, <1>3, <1>4, UpTo
  <2> QED
    BY <1>2, <2>1
<1> QED
  BY <1>1, <1>5
----------------------------------------------------------------------------
LEMMA NoneYetTyped == \A S, T : NoneYet \in Functions(S, T) /\ DOMAIN NoneYet = {}
<1>1. ASSUME NEW S, NEW T PROVE NoneYet \in Functions(S, T)
  <2>1. NoneYet \in [{} -> T]
    BY DEF NoneYet
  <2>2. [{} -> T] \in {[D -> T] : D \in SUBSET S}
    OBVIOUS
  <2> QED
    BY <2>1, <2>2 DEF Functions
<1>2. DOMAIN NoneYet = {}
  BY DEF NoneYet
<1> QED
  BY <1>1, <1>2

LEMMA NewSpecTyped ==
  /\ NewSpec \in Specs /\ ~Complete(NewSpec)
  /\ NewSpec.milestones = <<>>
<1>1. <<>> \in Lists
  BY DEF Lists
<1> QED
  BY <1>1, NoneYetTyped DEF NewSpec, Specs, Complete

(* What was known stays known, and only fields that are given change.      *)
LEMMA MergeKeeps ==
  ASSUME NEW S, NEW T, NEW old \in Functions(S, T), NEW absent \in T,
         NEW new \in Functions(S, {None} \cup T)
  PROVE  Merge(old, new, absent) \in Functions(S, T)
         /\ DOMAIN old \subseteq DOMAIN Merge(old, new, absent)
<1> DEFINE D == DOMAIN old \cup DOMAIN new
           value(x) == Given(IF x \in DOMAIN old THEN old[x] ELSE absent,
                             IF x \in DOMAIN new THEN new[x] ELSE None)
<1>1. /\ DOMAIN old \in SUBSET S /\ \A x \in DOMAIN old : old[x] \in T
      /\ DOMAIN new \in SUBSET S /\ \A x \in DOMAIN new : new[x] \in {None} \cup T
  <2>1. PICK E \in SUBSET S : old \in [E -> T]
    BY DEF Functions
  <2>2. PICK F \in SUBSET S : new \in [F -> {None} \cup T]
    BY DEF Functions
  <2> QED
    BY <2>1, <2>2
<1>2. ASSUME NEW x \in D PROVE value(x) \in T
  <2>1. (IF x \in DOMAIN old THEN old[x] ELSE absent) \in T
    BY <1>1
  <2>2. (IF x \in DOMAIN new THEN new[x] ELSE None) \in {None} \cup T
    BY <1>1
  <2> QED
    BY <2>1, <2>2 DEF Given
<1>3. Merge(old, new, absent) = [x \in D |-> value(x)]
  BY DEF Merge
<1>4. D \in SUBSET S
  BY <1>1
<1> HIDE DEF value
<1>5. Merge(old, new, absent) \in [D -> T]
  BY <1>2, <1>3
<1> QED
  BY <1>4, <1>5 DEF Functions

(* An answer adds to the spec it is merged into.                           *)
LEMMA AppliedKeeps ==
  ASSUME NEW spec \in Specs, NEW update \in Updates
  PROVE  Applied(spec, update) \in Specs /\ Extends(Applied(spec, update), spec)
         /\ Continues(Applied(spec, update).milestones, spec.milestones)
<1> DEFINE described == Given(spec.described, update.described)
           requirements == Merge(spec.requirements, update.requirements, {})
           acceptance == Merge(spec.acceptance, update.acceptance, None)
           merged == Upserted(spec.milestones, update.milestones)
           open == Given(spec.open, update.open)
<1>1. update \in Update
  BY IntakeAssumption
<1>2. spec.milestones \in Lists /\ update.milestones \in Seq(Entry)
  BY <1>1 DEF Specs, Update
<1>3. merged \in Lists /\ Continues(merged, spec.milestones)
  BY <1>2, UpsertedKeeps
<1>4. described \in BOOLEAN /\ open \in BOOLEAN
  <2>1. /\ update.described \in {None} \cup BOOLEAN /\ update.open \in {None} \cup BOOLEAN
        /\ spec.described \in BOOLEAN /\ spec.open \in BOOLEAN
    BY <1>1 DEF Specs, Update
  <2> QED
    BY <2>1, Zenon DEF Given
<1>5. requirements \in Functions(Requirements, SUBSET Criteria)
      /\ DOMAIN spec.requirements \subseteq DOMAIN requirements
  <2>1. /\ update.requirements \in Functions(Requirements, {None} \cup SUBSET Criteria)
        /\ spec.requirements \in Functions(Requirements, SUBSET Criteria)
        /\ {} \in SUBSET Criteria
    BY <1>1 DEF Specs, Update
  <2> QED
    BY <2>1, MergeKeeps
<1>6. acceptance \in Functions(Criteria, {None} \cup Requirements)
      /\ DOMAIN spec.acceptance \subseteq DOMAIN acceptance
  <2>1. /\ update.acceptance \in Functions(Criteria, {None} \cup Requirements)
        /\ spec.acceptance \in Functions(Criteria, {None} \cup Requirements)
        /\ None \in {None} \cup Requirements
    BY <1>1 DEF Specs, Update
  <2>2. {None} \cup ({None} \cup Requirements) = {None} \cup Requirements
    OBVIOUS
  <2> QED
    BY <2>1, <2>2, MergeKeeps
<1>7. Applied(spec, update) =
        [described |-> described, requirements |-> requirements,
         acceptance |-> acceptance, milestones |-> merged, open |-> open]
  BY Zenon DEF Applied
<1> HIDE DEF described, requirements, acceptance, merged, open
<1>8. Applied(spec, update) \in Specs
  BY <1>3, <1>4, <1>5, <1>6, <1>7 DEF Specs
<1>9. /\ Applied(spec, update).requirements = requirements
      /\ Applied(spec, update).acceptance = acceptance
      /\ Applied(spec, update).milestones = merged
  BY <1>7
<1> QED
  BY <1>3, <1>5, <1>6, <1>8, <1>9 DEF Extends, Continues, Required, Agreed

LEMMA ExtendsSelf ==
  ASSUME NEW spec \in Specs PROVE Extends(spec, spec)
<1>1. spec.milestones \in Lists
  BY DEF Specs
<1> QED
  BY <1>1, ContinuesSelf DEF Extends, Continues
----------------------------------------------------------------------------
LEMMA LoadedTyped ==
  ASSUME IntakeTypeOK
  PROVE  /\ Loaded.spec \in Specs /\ Loaded.interview \in Nat
         /\ session # None => Loaded.spec = session.spec
                              /\ Loaded.interview = session.interview
         /\ session = None => Loaded.spec = NewSpec
                              /\ Loaded.interview = interviews + 1
<1>1. CASE session # None
  BY <1>1 DEF IntakeTypeOK, Sessions, Loaded
<1>2. CASE session = None
  BY <1>2, NewSpecTyped DEF IntakeTypeOK, Loaded
<1> QED
  BY <1>1, <1>2

LEMMA IdleTyped ==
  /\ Idle \in Jobs /\ Idle.at = "idle"
  /\ [Idle EXCEPT !.at = "passed"] \in Jobs
  /\ [Idle EXCEPT !.at = "passed"].at = "passed"
  BY NewSpecTyped DEF Idle, Jobs

(* What a command that starts to work leaves behind.                       *)
LEMMA Started ==
  ASSUME IntakeTypeOK, NEW u \in Users, NEW overwrite \in BOOLEAN, NEW forced \in BOOLEAN,
         NEW at \in {"asking", "gate", "roadmap"}, Start(u, at, overwrite, forced)
  PROVE  /\ job' \in [Users -> Jobs]
         /\ job'[u].at = at /\ job'[u].spec = Loaded.spec /\ job'[u].forced = forced
         /\ job'[u].interview = Loaded.interview
         /\ \A v \in Users \ {u} : job'[v] = job[v]
         /\ interviews' \in Nat /\ interviews <= interviews'
         /\ Loaded.interview <= interviews'
<1>1. Loaded.spec \in Specs /\ Loaded.interview \in Nat /\ interviews \in Nat
  BY LoadedTyped DEF IntakeTypeOK
<1> DEFINE new == [at |-> at, spec |-> Loaded.spec, interview |-> Loaded.interview,
                   stale |-> FALSE, overwrite |-> overwrite, forced |-> forced]
<1>2. new \in Jobs
  BY <1>1 DEF Jobs
<1>3. /\ new.at = at /\ new.spec = Loaded.spec /\ new.interview = Loaded.interview
      /\ new.forced = forced
  OBVIOUS
<1>4. job' = [job EXCEPT ![u] = new]
  BY DEF Start
<1>5. interviews' = IF Loaded.interview > interviews THEN Loaded.interview ELSE interviews
  BY DEF Start
<1>6. interviews' \in Nat /\ interviews <= interviews' /\ Loaded.interview <= interviews'
  BY <1>1, <1>5
<1> HIDE DEF new
<1> QED
  BY <1>2, <1>3, <1>4, <1>6 DEF IntakeTypeOK

(* What a command that is done, was killed, or waits for the compiler      *)
(* leaves behind.                                                          *)
LEMMA Rested ==
  ASSUME IntakeTypeOK, NEW u \in Users,
         NEW new \in {Idle, [Idle EXCEPT !.at = "passed"]}, job' = [job EXCEPT ![u] = new]
  PROVE  /\ job' \in [Users -> Jobs]
         /\ job'[u].at \in {"idle", "passed"}
         /\ \A v \in Users \ {u} : job'[v] = job[v]
  BY IdleTyped DEF IntakeTypeOK

(* ... and what one that goes on does.                                     *)
LEMMA WentOn ==
  ASSUME IntakeTypeOK, NEW u \in Users,
         NEW at \in {"delegation", "compiled"}, job' = [job EXCEPT ![u].at = at]
  PROVE  /\ job' \in [Users -> Jobs]
         /\ job'[u].at = at /\ job'[u].spec = job[u].spec
         /\ job'[u].interview = job[u].interview
         /\ job'[u].forced = job[u].forced /\ job'[u].stale = job[u].stale
         /\ \A v \in Users \ {u} : job'[v] = job[v]
<1> DEFINE new == [job[u] EXCEPT !.at = at]
<1>1. job[u] \in Jobs
  BY DEF IntakeTypeOK
<1>2. /\ new \in Jobs /\ new.at = at
      /\ new.spec = job[u].spec /\ new.interview = job[u].interview
      /\ new.forced = job[u].forced /\ new.stale = job[u].stale
  BY <1>1 DEF Jobs
<1>3. job' = [job EXCEPT ![u] = new]
  OBVIOUS
<1> HIDE DEF new
<1> QED
  BY <1>2, <1>3 DEF IntakeTypeOK

LEMMA WrittenTyped ==
  ASSUME IntakeTypeOK, NEW u \in Users, NEW file, file # None => file \in Files
  PROVE  /\ Written(u, file) # None => Written(u, file) \in Files
         /\ \/ Written(u, file) = file /\ file # None
            \/ /\ Written(u, file).spec = job[u].spec
               /\ Written(u, file).interview = job[u].interview
               /\ Written(u, file).forced = job[u].forced
<1>1. job[u].spec \in Specs /\ job[u].interview \in Nat /\ job[u].forced \in BOOLEAN
  BY DEF IntakeTypeOK, Jobs
<1> QED
  BY <1>1 DEF Written, Files

(* What a command that saves leaves behind, and to whom.                   *)
LEMMA Saved ==
  ASSUME IntakeTypeOK, NEW u \in Users, NEW spec \in Specs, Save(u, spec)
  PROVE  /\ session' \in Sessions /\ session'.spec = spec
         /\ session'.interview = job[u].interview
         /\ job' \in [Users -> Jobs] /\ job'[u].at = "idle"
         /\ \A v \in Users \ {u} :
              /\ job'[v].at = job[v].at /\ job'[v].spec = job[v].spec
              /\ job'[v].interview = job[v].interview
              /\ job'[v].forced = job[v].forced
              /\ ~job'[v].stale =>
                   /\ ~job[v].stale
                   /\ job[v].interview = job[u].interview => job[v].spec = spec
         /\ overtaken \subseteq overtaken'
         /\ ~job[u].stale => overtaken' = overtaken
         /\ job[u].stale => job[u].interview \in overtaken'
<1> DEFINE outrun(v) ==
             job[v].stale \/ (job[v].interview = job[u].interview /\ job[v].spec # spec)
           other(v) == [job[v] EXCEPT !.stale = outrun(v)]
<1>1. \A v \in Users : job[v] \in Jobs
  BY DEF IntakeTypeOK
<1>2. /\ session' = [spec |-> spec, interview |-> job[u].interview]
      /\ job' = [v \in Users |-> IF v = u THEN Idle ELSE other(v)]
      /\ overtaken' = IF job[u].stale THEN overtaken \cup {job[u].interview} ELSE overtaken
  BY Zenon DEF Save
<1>3. session' \in Sessions /\ session'.spec = spec /\ session'.interview = job[u].interview
  BY <1>1, <1>2 DEF Sessions, Jobs
<1>4. ASSUME NEW v \in Users
      PROVE  /\ other(v) \in Jobs
             /\ other(v).at = job[v].at /\ other(v).spec = job[v].spec
             /\ other(v).interview = job[v].interview
             /\ other(v).forced = job[v].forced
             /\ other(v).stale = outrun(v)
  <2>1. outrun(v) \in BOOLEAN
    <3>1. job[v].stale \in BOOLEAN
      BY <1>1 DEF Jobs
    <3> QED
      BY <3>1, Zenon
  <2> HIDE DEF outrun
  <2> QED
    BY <1>1, <2>1 DEF Jobs
<1> HIDE DEF other
<1>5. job' \in [Users -> Jobs] /\ job'[u] = Idle /\ \A v \in Users \ {u} : job'[v] = other(v)
  BY <1>2, <1>4, IdleTyped
<1>6. /\ overtaken \subseteq overtaken'
      /\ ~job[u].stale => overtaken' = overtaken
      /\ job[u].stale => job[u].interview \in overtaken'
  BY <1>2
<1> QED
  BY <1>3, <1>4, <1>5, <1>6, IdleTyped
----------------------------------------------------------------------------
LEMMA IntakeTypeInit == Init => IntakeTypeOK /\ CompiledWhole
<1> SUFFICES ASSUME Init PROVE IntakeTypeOK /\ CompiledWhole
  OBVIOUS
<1>1. session \in Sessions
  BY NewSpecTyped DEF Init, Sessions
<1>2. job \in [Users -> Jobs] /\ \A u \in Users : job[u].at = "idle"
  BY IdleTyped DEF Init
<1>3. interviews \in Nat /\ roadmap = None /\ delegation = None
  BY DEF Init
<1> QED
  BY <1>1, <1>2, <1>3 DEF IntakeTypeOK, CompiledWhole

LEMMA IntakeTypeStep ==
  ASSUME IntakeTypeOK, [Next]_vars PROVE IntakeTypeOK'
<1>0. /\ session # None => session \in Sessions
      /\ roadmap # None => roadmap \in Files
      /\ delegation # None => delegation \in Files
      /\ interviews \in Nat
      /\ \A u \in Users : job[u] \in Jobs
  BY DEF IntakeTypeOK
<1>1. ASSUME NEW u \in Users,
             \/ Ask(u)
             \/ Gate(u)
             \/ \E overwrite, forced \in BOOLEAN : Compile(u, overwrite, forced)
      PROVE  IntakeTypeOK'
  <2>1. /\ UNCHANGED <<session, roadmap, delegation>>
        /\ \E at \in {"asking", "gate", "roadmap"}, overwrite, forced \in BOOLEAN :
             Start(u, at, overwrite, forced)
    BY <1>1 DEF Ask, Gate, Compile
  <2>2. job' \in [Users -> Jobs] /\ interviews' \in Nat
    BY <2>1, Started
  <2> QED
    BY <1>0, <2>1, <2>2 DEF IntakeTypeOK
<1>2. ASSUME NEW u \in Users, NEW spec \in Specs, Save(u, spec),
             UNCHANGED <<roadmap, delegation, interviews>>
      PROVE  IntakeTypeOK'
  <2>1. session' \in Sessions /\ job' \in [Users -> Jobs]
    BY <1>2, Saved
  <2> QED
    BY <1>0, <1>2, <2>1 DEF IntakeTypeOK
<1>3. ASSUME NEW u \in Users, NEW update \in Updates, Answer(u, update)
      PROVE  IntakeTypeOK'
  <2>1. Applied(job[u].spec, update) \in Specs
    BY <1>0, AppliedKeeps DEF Jobs
  <2> QED
    BY <1>2, <1>3, <2>1 DEF Answer, bounds
<1>4. ASSUME NEW u \in Users, SaveCompiled(u) PROVE IntakeTypeOK'
  <2>1. job[u].spec \in Specs
    BY <1>0 DEF Jobs
  <2> QED
    BY <1>2, <1>4, <2>1 DEF SaveCompiled, bounds
<1>5. ASSUME NEW u \in Users, NEW new \in {Idle, [Idle EXCEPT !.at = "passed"]},
             job' = [job EXCEPT ![u] = new], session' = session \/ session' = None,
             UNCHANGED <<roadmap, delegation, interviews>>
      PROVE  IntakeTypeOK'
  <2>1. job' \in [Users -> Jobs]
    BY <1>5, Rested
  <2> QED
    BY <1>0, <1>5, <2>1 DEF IntakeTypeOK
<1>6. ASSUME NEW u \in Users,
             PanelReady(u) \/ PanelObjects(u) \/ CompileRefused(u) \/ Dies(u)
      PROVE  IntakeTypeOK'
  BY <1>5, <1>6 DEF PanelReady, PanelObjects, CompileRefused, Dies, Ends, bounds
<1>7. ASSUME NEW u \in Users, WriteRoadmap(u) PROVE IntakeTypeOK'
  <2>1. job' \in [Users -> Jobs]
    BY <1>7, WentOn DEF WriteRoadmap
  <2>2. roadmap' # None => roadmap' \in Files
    BY <1>0, <1>7, WrittenTyped DEF WriteRoadmap
  <2> QED
    BY <1>0, <1>7, <2>1, <2>2 DEF IntakeTypeOK, WriteRoadmap, bounds
<1>8. ASSUME NEW u \in Users, WriteDelegation(u) PROVE IntakeTypeOK'
  <2>1. job' \in [Users -> Jobs]
    BY <1>8, WentOn DEF WriteDelegation
  <2>2. delegation' # None => delegation' \in Files
    BY <1>0, <1>8, WrittenTyped DEF WriteDelegation
  <2> QED
    BY <1>0, <1>8, <2>1, <2>2 DEF IntakeTypeOK, WriteDelegation, bounds
<1>9. ASSUME UNCHANGED vars PROVE IntakeTypeOK'
  BY <1>9 DEF vars, IntakeTypeOK
<1> QED
  BY <1>1, <1>3, <1>4, <1>6, <1>7, <1>8, <1>9 DEF Next

(* The interview's data always have the shape the code reads them with.    *)
THEOREM IntakeTyped == Spec => []IntakeTypeOK
<1>1. IntakeTypeOK /\ [Next]_vars => IntakeTypeOK'
  BY IntakeTypeStep
<1>2. Init => IntakeTypeOK
  BY IntakeTypeInit
<1> QED
  BY <1>1, <1>2, PTL DEF Spec

LEMMA CompiledStep ==
  ASSUME IntakeTypeOK, CompiledWhole, [Next]_vars PROVE CompiledWhole'
<1> DEFINE Compiling == {"roadmap", "delegation", "compiled"}
           Whole(v) == job[v].at \in Compiling /\ ~job[v].forced => Complete(job[v].spec)
<1>1. ASSUME NEW u \in Users, Whole(u)', \A v \in Users \ {u} : job'[v] = job[v],
             UNCHANGED <<roadmap, delegation>>
      PROVE  CompiledWhole'
  BY <1>1 DEF CompiledWhole
<1>2. ASSUME NEW u \in Users, Ask(u) \/ Gate(u) PROVE CompiledWhole'
  <2>1. /\ UNCHANGED <<roadmap, delegation>>
        /\ \E at \in {"asking", "gate"} : Start(u, at, FALSE, FALSE)
    BY <1>2 DEF Ask, Gate
  <2>2. job'[u].at \notin Compiling /\ \A v \in Users \ {u} : job'[v] = job[v]
    BY <2>1, Started
  <2> QED
    BY <1>1, <2>1, <2>2
<1>3. ASSUME NEW u \in Users, NEW overwrite \in BOOLEAN, NEW forced \in BOOLEAN,
             Compile(u, overwrite, forced)
      PROVE  CompiledWhole'
  <2>1. /\ UNCHANGED <<roadmap, delegation>> /\ (Complete(Loaded.spec) \/ forced)
        /\ Start(u, "roadmap", overwrite, forced)
    BY <1>3 DEF Compile, MayCompile
  <2>2. /\ job'[u].spec = Loaded.spec /\ job'[u].forced = forced
        /\ \A v \in Users \ {u} : job'[v] = job[v]
    BY <2>1, Started
  <2> QED
    BY <1>1, <2>1, <2>2
<1>4. ASSUME NEW u \in Users,
             PanelReady(u) \/ PanelObjects(u) \/ CompileRefused(u) \/ Dies(u)
      PROVE  CompiledWhole'
  <2>1. PICK new \in {Idle, [Idle EXCEPT !.at = "passed"]} :
           job' = [job EXCEPT ![u] = new] /\ UNCHANGED <<roadmap, delegation>>
    BY <1>4 DEF PanelReady, PanelObjects, CompileRefused, Dies, Ends
  <2>2. job'[u].at \notin Compiling /\ \A v \in Users \ {u} : job'[v] = job[v]
    BY <2>1, Rested
  <2> QED
    BY <1>1, <2>1, <2>2
<1>5. ASSUME NEW u \in Users, NEW spec \in Specs, Save(u, spec),
             UNCHANGED <<roadmap, delegation>>
      PROVE  CompiledWhole'
  <2>1. /\ job'[u].at \notin Compiling
        /\ \A v \in Users \ {u} :
              job'[v].at = job[v].at /\ job'[v].spec = job[v].spec
              /\ job'[v].forced = job[v].forced
    BY <1>5, Saved
  <2>2. \A v \in Users : Whole(v)'
    BY <2>1 DEF CompiledWhole
  <2> QED
    BY <1>5, <2>2 DEF CompiledWhole
<1>6. ASSUME NEW u \in Users,
             (\E update \in Updates : Answer(u, update)) \/ SaveCompiled(u)
      PROVE  CompiledWhole'
  <2>1. job[u].spec \in Specs
    BY DEF IntakeTypeOK, Jobs
  <2> QED
    BY <1>5, <1>6, <2>1, AppliedKeeps DEF Answer, SaveCompiled
<1>7. ASSUME NEW u \in Users, NEW at \in {"delegation", "compiled"},
             job[u].at \in Compiling, job' = [job EXCEPT ![u].at = at]
      PROVE  \A v \in Users : Whole(v)'
  <2>1. /\ job'[u].spec = job[u].spec /\ job'[u].forced = job[u].forced
        /\ \A v \in Users \ {u} : job'[v] = job[v]
    BY <1>7, WentOn
  <2> QED
    BY <1>7, <2>1 DEF CompiledWhole
<1>8. ASSUME NEW u \in Users, NEW file, file # None => file \in Files,
             job[u].at \in Compiling, file # None /\ ~file.forced => Complete(file.spec)
      PROVE  Written(u, file) # None /\ ~Written(u, file).forced =>
                 Complete(Written(u, file).spec)
  BY <1>8, WrittenTyped DEF CompiledWhole
<1>9. ASSUME NEW u \in Users, WriteRoadmap(u) PROVE CompiledWhole'
  <2>1. \A v \in Users : Whole(v)'
    BY <1>7, <1>9 DEF WriteRoadmap
  <2>2. roadmap # None => roadmap \in Files
    BY DEF IntakeTypeOK
  <2>3. roadmap' # None /\ ~roadmap'.forced => Complete(roadmap'.spec)
    BY <1>8, <1>9, <2>2 DEF WriteRoadmap, CompiledWhole
  <2> QED
    BY <1>9, <2>1, <2>3 DEF WriteRoadmap, CompiledWhole
<1>10. ASSUME NEW u \in Users, WriteDelegation(u) PROVE CompiledWhole'
  <2>1. \A v \in Users : Whole(v)'
    BY <1>7, <1>10 DEF WriteDelegation
  <2>2. delegation # None => delegation \in Files
    BY DEF IntakeTypeOK
  <2>3. delegation' # None /\ ~delegation'.forced => Complete(delegation'.spec)
    BY <1>8, <1>10, <2>2 DEF WriteDelegation, CompiledWhole
  <2> QED
    BY <1>10, <2>1, <2>3 DEF WriteDelegation, CompiledWhole
<1>11. ASSUME UNCHANGED vars PROVE CompiledWhole'
  BY <1>11 DEF vars, CompiledWhole
<1> QED
  BY <1>2, <1>3, <1>4, <1>6, <1>9, <1>10, <1>11 DEF Next

(* The planning files are those of specs in which nothing was missing,     *)
(* whatever commands overlap and whenever they are killed, unless          *)
(* --allow-incomplete was given: architect_compile.py checks the very      *)
(* session it renders.                                                     *)
THEOREM PlansComplete == Spec => []PlanWasComplete
<1>1. IntakeTypeOK /\ CompiledWhole /\ [Next]_vars => CompiledWhole'
  BY CompiledStep
<1>2. Init => CompiledWhole
  BY IntakeTypeInit
<1>3. CompiledWhole => PlanWasComplete
  <2> SUFFICES ASSUME CompiledWhole, NEW file \in {roadmap, delegation} \ {None},
                      ~file.forced
               PROVE  /\ ~file.spec.open
                      /\ \A r \in Required(file.spec) :
                           /\ HasCriterion(file.spec, r)
                           /\ \E i \in DOMAIN file.spec.milestones :
                                r \in file.spec.milestones[i].covers
    BY DEF PlanWasComplete
  <2>1. Complete(file.spec)
    BY DEF CompiledWhole
  <2>2. \A r \in Required(file.spec) : r \in Covered(file.spec)
    BY <2>1 DEF Complete
  <2> QED
    BY <2>1, <2>2 DEF Complete, Covered
<1> QED
  BY <1>1, <1>2, <1>3, IntakeTyped, PTL DEF Spec
----------------------------------------------------------------------------
(* A copy stands for another of the same spec and interview.               *)
Twin(a, b) == b.spec = a.spec /\ b.interview = a.interview

LEMMA CopiesTyped ==
  ASSUME IntakeTypeOK
  PROVE  \A a \in Copies : a.spec \in Specs /\ a.interview \in Nat
                           /\ a.spec.milestones \in Lists
<1>1. \A a \in Copies : a.spec \in Specs /\ a.interview \in Nat
  BY DEF IntakeTypeOK, Copies, Sessions, Files, Jobs
<1> QED
  BY <1>1 DEF Specs

LEMMA LeadersAreCopies == Leaders \subseteq Copies
  BY DEF Leaders, Copies

(* Nothing new is told: every copy was there before, or is of an interview *)
(* in which a stale copy was saved, or alone in its own.                   *)
LEMMA HistorySame ==
  ASSUME IntakeTypeOK', OneHistory, overtaken \subseteq overtaken',
         \A a \in Copies' :
            \/ a.interview \in overtaken'
            \/ \E b \in Copies : Twin(a, b)
            \/ \A c \in Copies' : c.interview = a.interview => c.spec = a.spec,
         \A a \in Leaders' :
            \/ a.interview \in overtaken'
            \/ \E b \in Leaders : Twin(a, b)
            \/ \A c \in Copies' : c.interview = a.interview => c.spec = a.spec
  PROVE  OneHistory'
<1> DEFINE Only(a) == \A c \in Copies' : c.interview = a.interview => c.spec = a.spec
<1>1. \A a \in Copies' : a.spec.milestones \in Lists
  BY DEF IntakeTypeOK, Copies, Sessions, Files, Jobs, Specs
<1>2. Leaders' \subseteq Copies'
  BY DEF Leaders, Copies
<1>3. ASSUME NEW a \in Copies', NEW b \in Copies', OneInterview(a, b)'
      PROVE  Agree(a.spec.milestones, b.spec.milestones)
  <2>1. a.interview = b.interview /\ a.interview \notin overtaken'
    BY <1>3 DEF OneInterview
  <2>2. CASE Only(a) \/ Only(b)
    <3>1. a.spec = b.spec
      BY <2>1, <2>2
    <3> QED
      BY <3>1, <1>1 DEF Agree
  <2>3. CASE ~Only(a) /\ ~Only(b)
    <3>1. PICK c \in Copies, d \in Copies : Twin(a, c) /\ Twin(b, d)
      BY <2>1, <2>3
    <3>2. OneInterview(c, d)
      BY <2>1, <3>1 DEF Twin, OneInterview
    <3> QED
      BY <3>1, <3>2 DEF OneHistory, Twin
  <2> QED
    BY <2>2, <2>3
<1>4. ASSUME NEW a \in Leaders', NEW b \in Copies', OneInterview(a, b)'
      PROVE  Continues(a.spec.milestones, b.spec.milestones)
  <2>1. a.interview = b.interview /\ a.interview \notin overtaken'
    BY <1>4 DEF OneInterview
  <2>2. CASE Only(a) \/ Only(b)
    <3>1. a.spec = b.spec
      BY <1>2, <2>1, <2>2
    <3> QED
      BY <3>1, <1>1, ContinuesSelf
  <2>3. CASE ~Only(a) /\ ~Only(b)
    <3>1. PICK c \in Leaders, d \in Copies : Twin(a, c) /\ Twin(b, d)
      BY <2>1, <2>3
    <3>2. OneInterview(c, d)
      BY <2>1, <3>1 DEF Twin, OneInterview
    <3> QED
      BY <3>1, <3>2 DEF OneHistory, Twin
  <2> QED
    BY <2>2, <2>3
<1>5. ASSUME NEW a \in Leaders', NEW b \in Leaders', OneInterview(a, b)'
      PROVE  a.spec = b.spec
  <2>1. a.interview = b.interview /\ a.interview \notin overtaken'
    BY <1>5 DEF OneInterview
  <2>2. CASE Only(a) \/ Only(b)
    BY <1>2, <2>1, <2>2
  <2>3. CASE ~Only(a) /\ ~Only(b)
    <3>1. PICK c \in Leaders, d \in Leaders : Twin(a, c) /\ Twin(b, d)
      BY <2>1, <2>3
    <3>2. OneInterview(c, d)
      BY <2>1, <3>1 DEF Twin, OneInterview
    <3> QED
      BY <3>1, <3>2 DEF OneHistory, Twin
  <2> QED
    BY <2>2, <2>3
<1> HIDE DEF Only
<1> QED
  BY <1>3, <1>4, <1>5 DEF OneHistory

(* One that leads saves what continues its own: it leads from now on, with *)
(* those that have loaded the same.                                        *)
LEMMA HistoryLed ==
  ASSUME IntakeTypeOK, OneHistory, NEW lead \in Leaders, NEW spec \in Specs,
         Continues(spec.milestones, lead.spec.milestones), overtaken' = overtaken,
         \A a \in Copies' :
            \/ a.spec = spec /\ a.interview = lead.interview
            \/ \E b \in Copies : Twin(a, b),
         \A a \in Leaders' :
            \/ a.spec = spec /\ a.interview = lead.interview
            \/ a.interview # lead.interview /\ \E b \in Leaders : Twin(a, b)
  PROVE  OneHistory'
<1> DEFINE New(a) == a.spec = spec /\ a.interview = lead.interview
<1>1. Leaders' \subseteq Copies'
  BY DEF Leaders, Copies
<1>2. \A a \in Copies : a.spec.milestones \in Lists
  BY CopiesTyped
<1>3. spec.milestones \in Lists /\ lead.spec.milestones \in Lists
  BY <1>2, LeadersAreCopies DEF Specs
<1>4. ASSUME NEW b \in Copies, OneInterview(lead, b)
      PROVE  /\ Continues(spec.milestones, b.spec.milestones)
             /\ Agree(spec.milestones, b.spec.milestones)
             /\ Agree(b.spec.milestones, spec.milestones)
  <2>1. b.spec.milestones \in Lists
    BY <1>2
  <2>2. Continues(lead.spec.milestones, b.spec.milestones)
    BY <1>4 DEF OneHistory
  <2>3. Continues(spec.milestones, b.spec.milestones)
    BY <1>3, <2>1, <2>2, ContinuesOn
  <2> QED
    BY <1>3, <2>1, <2>3, ContinuesAgrees
<1>5. ASSUME NEW a \in Copies', NEW b \in Copies', OneInterview(a, b)'
      PROVE  Agree(a.spec.milestones, b.spec.milestones)
  <2>1. a.interview = b.interview /\ a.interview \notin overtaken
    BY <1>5 DEF OneInterview
  <2>2. CASE New(a) /\ New(b)
    BY <2>2, <1>3 DEF Agree
  <2>3. CASE New(a) /\ ~New(b)
    <3>1. PICK d \in Copies : Twin(b, d)
      BY <2>3
    <3> QED
      BY <1>4, <2>1, <2>3, <3>1 DEF Twin, OneInterview
  <2>4. CASE ~New(a) /\ New(b)
    <3>1. PICK d \in Copies : Twin(a, d)
      BY <2>4
    <3> QED
      BY <1>4, <2>1, <2>4, <3>1 DEF Twin, OneInterview
  <2>5. CASE ~New(a) /\ ~New(b)
    <3>1. PICK c \in Copies, d \in Copies : Twin(a, c) /\ Twin(b, d)
      BY <2>5
    <3>2. OneInterview(c, d)
      BY <2>1, <3>1 DEF Twin, OneInterview
    <3> QED
      BY <3>1, <3>2 DEF OneHistory, Twin
  <2> QED
    BY <2>2, <2>3, <2>4, <2>5
<1>6. ASSUME NEW a \in Leaders', NEW b \in Copies', OneInterview(a, b)'
      PROVE  Continues(a.spec.milestones, b.spec.milestones)
  <2>1. a.interview = b.interview /\ a.interview \notin overtaken
    BY <1>6 DEF OneInterview
  <2>2. CASE New(a) /\ New(b)
    BY <2>2, <1>3, ContinuesSelf
  <2>3. CASE New(a) /\ ~New(b)
    <3>1. PICK d \in Copies : Twin(b, d)
      BY <2>3
    <3> QED
      BY <1>4, <2>1, <2>3, <3>1 DEF Twin, OneInterview
  <2>4. CASE ~New(a)
    <3>1. PICK c \in Leaders : Twin(a, c) /\ a.interview # lead.interview
      BY <2>4
    <3>2. PICK d \in Copies : Twin(b, d)
      BY <2>1, <3>1
    <3>3. OneInterview(c, d)
      BY <2>1, <3>1, <3>2 DEF Twin, OneInterview
    <3> QED
      BY <3>1, <3>2, <3>3 DEF OneHistory, Twin
  <2> QED
    BY <2>2, <2>3, <2>4
<1>7. ASSUME NEW a \in Leaders', NEW b \in Leaders', OneInterview(a, b)'
      PROVE  a.spec = b.spec
  <2>1. a.interview = b.interview /\ a.interview \notin overtaken
    BY <1>7 DEF OneInterview
  <2>2. CASE New(a) \/ New(b)
    BY <2>1, <2>2
  <2>3. CASE ~New(a) /\ ~New(b)
    <3>1. PICK c \in Leaders, d \in Leaders : Twin(a, c) /\ Twin(b, d)
      BY <2>3
    <3>2. OneInterview(c, d)
      BY <2>1, <3>1 DEF Twin, OneInterview
    <3> QED
      BY <3>1, <3>2 DEF OneHistory, Twin
  <2> QED
    BY <2>2, <2>3
<1> HIDE DEF New
<1> QED
  BY <1>5, <1>6, <1>7 DEF OneHistory

(* No interview is older than its number says.                             *)
LEMMA NumberedSame ==
  ASSUME IntakeTypeOK, Numbered, interviews' \in Nat, interviews <= interviews',
         \A a \in Copies' : \/ a.interview <= interviews'
                            \/ \E b \in Copies : a.interview = b.interview
  PROVE  Numbered'
<1>1. \A b \in Copies : b.interview \in Nat /\ b.interview <= interviews
  BY CopiesTyped DEF Numbered
<1>2. interviews \in Nat
  BY DEF IntakeTypeOK
<1>3. \A b \in Copies : b.interview <= interviews'
  BY <1>1, <1>2
<1> QED
  BY <1>3 DEF Numbered
----------------------------------------------------------------------------
(* A command loads the session: it leads from now on, also alone.          *)
LEMMA HistoryStart ==
  ASSUME IntakeTypeOK, IntakeTypeOK', Numbered, OneHistory, NEW u \in Users,
         NEW overwrite \in BOOLEAN, NEW forced \in BOOLEAN,
         NEW at \in {"asking", "gate", "roadmap"}, Start(u, at, overwrite, forced),
         UNCHANGED <<session, roadmap, delegation, overtaken>>
  PROVE  Numbered' /\ OneHistory'
<1>1. /\ job'[u].spec = Loaded.spec /\ job'[u].interview = Loaded.interview
      /\ \A v \in Users \ {u} : job'[v] = job[v]
      /\ interviews' \in Nat /\ interviews <= interviews'
      /\ Loaded.interview <= interviews'
  BY Started
<1>2. /\ session # None => Loaded.spec = session.spec
                           /\ Loaded.interview = session.interview
      /\ session = None => Loaded.interview = interviews + 1
  BY LoadedTyped
<1>3. Copies' \subseteq Copies \cup {job'[u]}
  BY <1>1 DEF Copies, Holding
<1>4. Leaders' \subseteq Leaders \cup {job'[u]}
  BY <1>1 DEF Leaders, Holding
<1>5. Numbered'
  BY <1>1, <1>3, NumberedSame
<1>6. CASE session # None
  <2>1. session \in Leaders /\ session \in Copies /\ Twin(job'[u], session)
    BY <1>1, <1>2, <1>6 DEF Leaders, Copies, Twin
  <2>2. \A a \in Copies' : \E b \in Copies : Twin(a, b)
    BY <1>3, <2>1 DEF Twin
  <2>3. \A a \in Leaders' : \E b \in Leaders : Twin(a, b)
    BY <1>4, <2>1 DEF Twin
  <2> QED
    BY <1>5, <2>2, <2>3, HistorySame
<1>7. CASE session = None
  <2>1. job'[u].interview = interviews + 1
    BY <1>1, <1>2, <1>7
  <2>2. \A b \in Copies : b.interview # interviews + 1
    <3>1. \A b \in Copies : b.interview \in Nat /\ b.interview <= interviews
      BY CopiesTyped DEF Numbered
    <3>2. interviews \in Nat
      BY DEF IntakeTypeOK
    <3> QED
      BY <3>1, <3>2
  <2>3. \A c \in Copies' : c.interview = job'[u].interview => c.spec = job'[u].spec
    BY <1>3, <2>1, <2>2
  <2>4. \A a \in Copies' :
           \/ \E b \in Copies : Twin(a, b)
           \/ \A c \in Copies' : c.interview = a.interview => c.spec = a.spec
    BY <1>3, <2>3 DEF Twin
  <2>5. \A a \in Leaders' :
           \/ \E b \in Leaders : Twin(a, b)
           \/ \A c \in Copies' : c.interview = a.interview => c.spec = a.spec
    BY <1>4, <2>3 DEF Twin
  <2> QED
    BY <1>5, <2>4, <2>5, HistorySame
<1> QED
  BY <1>6, <1>7

(* A command ends, or is killed, without having saved.                     *)
LEMMA HistoryEnd ==
  ASSUME IntakeTypeOK, IntakeTypeOK', Numbered, OneHistory, NEW u \in Users,
         NEW new \in {Idle, [Idle EXCEPT !.at = "passed"]}, job' = [job EXCEPT ![u] = new],
         session' = session \/ session' = None,
         UNCHANGED <<roadmap, delegation, overtaken, interviews>>
  PROVE  Numbered' /\ OneHistory'
<1>1. job'[u].at \in {"idle", "passed"} /\ \A v \in Users \ {u} : job'[v] = job[v]
  BY Rested
<1>2. Copies' \subseteq Copies
  BY <1>1 DEF Copies, Holding
<1>3. Leaders' \subseteq Leaders
  BY <1>1 DEF Leaders, Holding
<1>4. (\A a \in Copies' : \E b \in Copies : Twin(a, b))
      /\ (\A a \in Leaders' : \E b \in Leaders : Twin(a, b))
  BY <1>2, <1>3 DEF Twin
<1>5. Numbered'
  BY <1>2 DEF Numbered
<1> QED
  BY <1>4, <1>5, HistorySame

(* A file is written from what was loaded.                                 *)
LEMMA HistoryWrite ==
  ASSUME IntakeTypeOK, IntakeTypeOK', Numbered, OneHistory, NEW u \in Users,
         job[u].at \in {"roadmap", "delegation"},
         NEW at \in {"delegation", "compiled"}, job' = [job EXCEPT ![u].at = at],
         \/ roadmap' = Written(u, roadmap) /\ delegation' = delegation
         \/ delegation' = Written(u, delegation) /\ roadmap' = roadmap,
         UNCHANGED <<session, overtaken, interviews>>
  PROVE  Numbered' /\ OneHistory'
<1>1. /\ job'[u].at = at /\ job'[u].spec = job[u].spec
      /\ job'[u].interview = job[u].interview /\ job'[u].stale = job[u].stale
      /\ \A v \in Users \ {u} : job'[v] = job[v]
  BY WentOn
<1>2. job[u] \in Copies /\ Twin(job'[u], job[u])
  BY <1>1 DEF Copies, Holding, Twin
<1>3. ASSUME NEW file \in {roadmap, delegation}
      PROVE  Written(u, file) \in Copies \/ Twin(Written(u, file), job[u])
  <2>1. file # None => file \in Files
    BY DEF IntakeTypeOK
  <2> QED
    BY <1>3, <2>1, WrittenTyped DEF Copies, Twin
<1>4. \A a \in Copies' : a \in Copies \/ Twin(a, job[u])
  BY <1>1, <1>2, <1>3 DEF Copies, Holding
<1>5. \A a \in Copies' : \E b \in Copies : Twin(a, b)
  BY <1>2, <1>4 DEF Twin
<1>6. \A a \in Leaders' : a \in Leaders \/ (a = job'[u] /\ ~job'[u].stale)
  BY <1>1 DEF Leaders, Holding
<1>7. ~job'[u].stale => job[u] \in Leaders
  BY <1>1 DEF Leaders, Holding
<1>8. \A a \in Leaders' : \E b \in Leaders : Twin(a, b)
  BY <1>2, <1>6, <1>7 DEF Twin
<1>9. Numbered'
  <2>1. interviews \in Nat
    BY DEF IntakeTypeOK
  <2> QED
    BY <1>5, <2>1, NumberedSame DEF Twin
<1> QED
  BY <1>5, <1>8, <1>9, HistorySame

(* A command saves what continues the spec it has loaded.                  *)
LEMMA HistorySave ==
  ASSUME IntakeTypeOK, IntakeTypeOK', Numbered, OneHistory, NEW u \in Users, Holding(u),
         NEW spec \in Specs, Save(u, spec),
         Continues(spec.milestones, job[u].spec.milestones),
         UNCHANGED <<roadmap, delegation, interviews>>
  PROVE  Numbered' /\ OneHistory'
<1>1. /\ session'.spec = spec /\ session'.interview = job[u].interview
      /\ job'[u].at = "idle"
      /\ \A v \in Users \ {u} :
           /\ job'[v].at = job[v].at /\ job'[v].spec = job[v].spec
           /\ job'[v].interview = job[v].interview
           /\ ~job'[v].stale =>
                /\ ~job[v].stale
                /\ job[v].interview = job[u].interview => job[v].spec = spec
      /\ overtaken \subseteq overtaken'
      /\ ~job[u].stale => overtaken' = overtaken
      /\ job[u].stale => job[u].interview \in overtaken'
  BY Saved
<1>2. job[u] \in Copies /\ (~job[u].stale => job[u] \in Leaders)
  BY DEF Copies, Leaders
<1> DEFINE New(a) == a.spec = spec /\ a.interview = job[u].interview
<1>3. ASSUME NEW a \in Copies' PROVE New(a) \/ \E b \in Copies : Twin(a, b)
  <2>1. CASE a = session'
    BY <1>1, <2>1
  <2>2. CASE a \in {roadmap, delegation} \ {None}
    BY <2>2 DEF Copies, Twin
  <2>3. CASE \E v \in Users : a = job'[v] /\ Holding(v)'
    <3>1. PICK v \in Users : a = job'[v] /\ Holding(v)'
      BY <2>3
    <3>2. v # u /\ Holding(v)
      BY <1>1, <3>1 DEF Holding
    <3>3. job[v] \in Copies /\ Twin(a, job[v])
      BY <1>1, <3>1, <3>2 DEF Copies, Twin
    <3> QED
      BY <3>3
  <2> QED
    BY <2>1, <2>2, <2>3 DEF Copies
<1>4. ASSUME NEW a \in Leaders'
      PROVE  \/ New(a)
             \/ a.interview # job[u].interview /\ \E b \in Leaders : Twin(a, b)
  <2>1. CASE a = session'
    BY <1>1, <2>1
  <2>2. CASE \E v \in Users : a = job'[v] /\ Holding(v)' /\ ~job'[v].stale
    <3>1. PICK v \in Users : a = job'[v] /\ Holding(v)' /\ ~job'[v].stale
      BY <2>2
    <3>2. v # u /\ Holding(v)
      BY <1>1, <3>1 DEF Holding
    <3>3. job[v] \in Leaders /\ Twin(a, job[v])
      BY <1>1, <3>1, <3>2 DEF Leaders, Twin
    <3>4. job[v].interview = job[u].interview => New(a)
      BY <1>1, <3>1, <3>2
    <3> QED
      BY <3>3, <3>4 DEF Twin
  <2> QED
    BY <2>1, <2>2 DEF Leaders
<1>5. Numbered'
  <2>1. interviews \in Nat
    BY DEF IntakeTypeOK
  <2> QED
    BY <1>2, <1>3, <2>1, NumberedSame DEF Twin
<1>6. CASE job[u].stale
  <2>1. \A a \in Copies' : a.interview \in overtaken' \/ \E b \in Copies : Twin(a, b)
    BY <1>1, <1>3, <1>6
  <2>2. \A a \in Leaders' : a.interview \in overtaken' \/ \E b \in Leaders : Twin(a, b)
    BY <1>1, <1>4, <1>6
  <2> QED
    BY <1>1, <1>5, <2>1, <2>2, HistorySame
<1>7. CASE ~job[u].stale
  <2>1. job[u] \in Leaders /\ overtaken' = overtaken
    BY <1>1, <1>2, <1>7
  <2> QED
    BY <1>3, <1>4, <1>5, <2>1, HistoryLed
<1> QED
  BY <1>6, <1>7

LEMMA HistoryStep ==
  ASSUME IntakeTypeOK, IntakeTypeOK', Numbered, OneHistory, [Next]_vars
  PROVE  Numbered' /\ OneHistory'
<1>1. ASSUME NEW u \in Users,
             \/ Ask(u)
             \/ Gate(u)
             \/ \E overwrite, forced \in BOOLEAN : Compile(u, overwrite, forced)
      PROVE  Numbered' /\ OneHistory'
  <2>1. /\ UNCHANGED <<session, roadmap, delegation, overtaken>>
        /\ \E at \in {"asking", "gate", "roadmap"}, overwrite, forced \in BOOLEAN :
             Start(u, at, overwrite, forced)
    BY <1>1 DEF Ask, Gate, Compile
  <2> QED
    BY <2>1, HistoryStart
<1>2. ASSUME NEW u \in Users,
             PanelReady(u) \/ PanelObjects(u) \/ CompileRefused(u) \/ Dies(u)
      PROVE  Numbered' /\ OneHistory'
  <2>1. PICK new \in {Idle, [Idle EXCEPT !.at = "passed"]} :
           /\ job' = [job EXCEPT ![u] = new] /\ (session' = session \/ session' = None)
           /\ UNCHANGED <<roadmap, delegation, overtaken, interviews>>
    BY <1>2 DEF PanelReady, PanelObjects, CompileRefused, Dies, Ends, bounds
  <2> QED
    BY <2>1, HistoryEnd
<1>3. ASSUME NEW u \in Users, NEW update \in Updates, Answer(u, update)
      PROVE  Numbered' /\ OneHistory'
  <2> DEFINE spec == Applied(job[u].spec, update)
  <2>1. job[u].spec \in Specs
    BY DEF IntakeTypeOK, Jobs
  <2>2. spec \in Specs /\ Continues(spec.milestones, job[u].spec.milestones)
    BY <2>1, AppliedKeeps
  <2>3. Holding(u) /\ Save(u, spec) /\ UNCHANGED <<roadmap, delegation, interviews>>
    BY <1>3 DEF Answer, Holding, bounds
  <2> HIDE DEF spec
  <2> QED
    BY <2>2, <2>3, HistorySave
<1>4. ASSUME NEW u \in Users, SaveCompiled(u) PROVE Numbered' /\ OneHistory'
  <2>1. job[u].spec \in Specs
    BY DEF IntakeTypeOK, Jobs
  <2>2. Continues(job[u].spec.milestones, job[u].spec.milestones)
    BY <2>1, ContinuesSelf DEF Specs
  <2>3. Holding(u) /\ Save(u, job[u].spec) /\ UNCHANGED <<roadmap, delegation, interviews>>
    BY <1>4 DEF SaveCompiled, Holding, bounds
  <2> QED
    BY <2>1, <2>2, <2>3, HistorySave
<1>5. ASSUME NEW u \in Users, WriteRoadmap(u) \/ WriteDelegation(u)
      PROVE  Numbered' /\ OneHistory'
  BY <1>5, HistoryWrite DEF WriteRoadmap, WriteDelegation, bounds
<1>6. ASSUME UNCHANGED vars PROVE Numbered' /\ OneHistory'
  BY <1>6 DEF vars, Numbered, OneHistory, Copies, Leaders, Holding, OneInterview
<1> QED
  BY <1>1, <1>2, <1>3, <1>4, <1>5, <1>6 DEF Next

LEMMA HistoryInit == Init => Numbered /\ OneHistory
<1> SUFFICES ASSUME Init PROVE Numbered /\ OneHistory
  OBVIOUS
<1>1. /\ \A u \in Users : ~Holding(u)
      /\ roadmap = None /\ delegation = None /\ interviews = 1
      /\ session.interview = 1 /\ session.spec = NewSpec
  BY IdleTyped DEF Init, Holding
<1>2. Copies \subseteq {session} /\ Leaders \subseteq {session}
  BY <1>1 DEF Copies, Leaders
<1>3. NewSpec.milestones \in Lists
  BY NewSpecTyped DEF Specs
<1>4. Agree(NewSpec.milestones, NewSpec.milestones)
      /\ Continues(NewSpec.milestones, NewSpec.milestones)
  BY <1>3, ContinuesSelf, ContinuesAgrees
<1> QED
  BY <1>1, <1>2, <1>4 DEF Numbered, OneHistory

LEMMA HistoryKept == Spec => [](IntakeTypeOK /\ Numbered /\ OneHistory)
<1>1. IntakeTypeOK /\ IntakeTypeOK' /\ Numbered /\ OneHistory /\ [Next]_vars =>
        Numbered' /\ OneHistory'
  BY HistoryStep
<1>2. Init => Numbered /\ OneHistory
  BY HistoryInit
<1> QED
  BY <1>1, <1>2, IntakeTyped, PTL DEF Spec

(* Until a command saves a stale copy in its interview, no milestone past  *)
(* the delegated ones starts without a person, also when a crash, an       *)
(* interview that went on or commands that overlap left a roadmap and a    *)
(* delegation of different compilations: the later milestones only follow  *)
(* the earlier.                                                            *)
THEOREM BoundariesHold == Spec => []BoundaryMatchesRoadmap
<1>1. IntakeTypeOK /\ OneHistory => BoundaryMatchesRoadmap
  <2> SUFFICES ASSUME IntakeTypeOK, OneHistory, roadmap # None, delegation # None,
                      roadmap.interview = delegation.interview,
                      roadmap.interview \notin overtaken,
                      NEW i \in DOMAIN Order(roadmap.spec), i > Delegate
               PROVE  NeedsReview(Delegation(delegation.spec),
                                  Order(roadmap.spec)[i])
    BY DEF BoundaryMatchesRoadmap
  <2> DEFINE listed == roadmap.spec.milestones
             known == delegation.spec.milestones
  <2>1. listed \in Lists /\ known \in Lists /\ Agree(listed, known)
    <3>1. roadmap \in Copies /\ delegation \in Copies /\ OneInterview(roadmap, delegation)
      BY DEF Copies, OneInterview
    <3> QED
      BY <3>1, CopiesTyped DEF OneHistory
  <2>2. i \in DOMAIN listed /\ Order(roadmap.spec)[i] = listed[i].id
    BY DEF Order
  <2>3. ASSUME NEW j \in DOMAIN known, j \in 1..Delegate
        PROVE  known[j].id # listed[i].id
    <3>1. j \in DOMAIN listed /\ j # i
      <4>1. listed \in Seq(Milestone) /\ DOMAIN listed = 1..Len(listed)
            /\ Len(listed) \in Nat
        BY <2>1 DEF Lists
      <4> HIDE DEF listed, known
      <4> QED
        BY <2>2, <2>3, <4>1, IntakeAssumption
    <3>2. listed[j].id = known[j].id
      BY <2>1, <2>3, <3>1 DEF Agree
    <3>3. listed[j].id # listed[i].id
      BY <2>1, <2>2, <3>1 DEF Lists
    <3> QED
      BY <3>2, <3>3
  <2>4. Delegation(delegation.spec).delegated =
           {known[j].id : j \in DOMAIN known \cap 1..Delegate}
    BY DEF Delegation, Order
  <2> QED
    BY <2>2, <2>3, <2>4 DEF NeedsReview
<1> QED
  BY <1>1, HistoryKept, PTL

(* Until a command saves a stale copy in an interview, no save of it loses *)
(* a requirement, a criterion or a milestone, or moves one: apply_update   *)
(* adds to what interview_turn loaded, and what is not stale is what is    *)
(* there.                                                                  *)
THEOREM InterviewKeepsAll == Spec => NothingForgotten
<1> DEFINE Kept ==
             /\ session # None /\ session' # None
             /\ session.interview = session'.interview
             /\ session.interview \notin overtaken'
             => Extends(session'.spec, session.spec)
<1>1. ASSUME IntakeTypeOK, OneHistory, NEW u \in Users, Holding(u), NEW spec \in Specs,
             Save(u, spec), Extends(spec, job[u].spec)
      PROVE  Kept
  <2> SUFFICES ASSUME session # None, session.interview = session'.interview,
                      session.interview \notin overtaken'
               PROVE  Extends(session'.spec, session.spec)
    OBVIOUS
  <2>1. /\ session'.spec = spec /\ session'.interview = job[u].interview
        /\ overtaken \subseteq overtaken'
        /\ job[u].stale => job[u].interview \in overtaken'
    BY <1>1, Saved
  <2>2. session \in Leaders /\ job[u] \in Leaders /\ OneInterview(session, job[u])
    BY <1>1, <2>1 DEF Leaders, OneInterview
  <2>3. session.spec = job[u].spec
    BY <1>1, <2>2 DEF OneHistory
  <2> QED
    BY <1>1, <2>1, <2>3
<1>2. ASSUME IntakeTypeOK, session' = session PROVE Kept
  <2>1. session # None => session.spec \in Specs
    BY <1>2 DEF IntakeTypeOK, Sessions
  <2> QED
    BY <1>2, <2>1, ExtendsSelf
<1>3. ASSUME IntakeTypeOK, OneHistory, NEW u \in Users, NEW update \in Updates,
             Answer(u, update)
      PROVE  Kept
  <2>1. job[u].spec \in Specs
    BY <1>3 DEF IntakeTypeOK, Jobs
  <2>2. Applied(job[u].spec, update) \in Specs
        /\ Extends(Applied(job[u].spec, update), job[u].spec)
    BY <2>1, AppliedKeeps
  <2>3. Holding(u) /\ Save(u, Applied(job[u].spec, update))
    BY <1>3 DEF Answer, Holding
  <2> HIDE DEF Kept
  <2> QED
    BY <1>1, <1>3, <2>2, <2>3
<1>4. ASSUME IntakeTypeOK, OneHistory, NEW u \in Users, SaveCompiled(u) PROVE Kept
  <2>1. job[u].spec \in Specs
    BY <1>4 DEF IntakeTypeOK, Jobs
  <2>2. Extends(job[u].spec, job[u].spec)
    BY <2>1, ExtendsSelf
  <2>3. Holding(u) /\ Save(u, job[u].spec)
    BY <1>4 DEF SaveCompiled, Holding
  <2> HIDE DEF Kept
  <2> QED
    BY <1>1, <1>4, <2>1, <2>2, <2>3
<1>5. IntakeTypeOK /\ OneHistory /\ [Next]_vars => Kept
  <2> SUFFICES ASSUME IntakeTypeOK, OneHistory, [Next]_vars PROVE Kept
    OBVIOUS
  <2>1. CASE session' = session
    BY <1>2, <2>1
  <2>2. CASE session' = None
    BY <2>2
  <2>3. CASE \E u \in Users :
               (\E update \in Updates : Answer(u, update)) \/ SaveCompiled(u)
    BY <1>3, <1>4, <2>3
  <2>4. session' = session \/ session' = None
        \/ \E u \in Users : (\E update \in Updates : Answer(u, update)) \/ SaveCompiled(u)
    BY DEF Next, Ask, Gate, PanelReady, PanelObjects, Compile, CompileRefused,
           WriteRoadmap, WriteDelegation, Dies, vars
  <2> QED
    BY <2>1, <2>2, <2>3, <2>4
<1>6. IntakeTypeOK /\ OneHistory /\ [Next]_vars => [Kept]_session
  BY <1>5
<1> QED
  BY <1>6, HistoryKept, PTL DEF Spec, NothingForgotten
=============================================================================
