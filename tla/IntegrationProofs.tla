-------------------------- MODULE IntegrationProofs --------------------------
(***************************************************************************)
(* Proofs about Integration, for any paths, branches and candidate, and    *)
(* any number of moves of the user and of faults.                          *)
(***************************************************************************)
EXTENDS Integration, SequenceTheorems, TLAPS

(* A commit: the commits that lead to it, the first of them the oldest.    *)
Commit == [by : {"user", "aiflow"}, tree : Trees]
Histories == Seq(Commit) \ {<<>>}

(* The steps of a transaction, before the branch is moved and after it.    *)
Preparing == {"test", "check", "record", "recorded", "swap"}
Moved == {"bound", "unedited", "withdraw", "refresh", "refreshed", "unbind", "follow",
          "applied", "preserve", "look", "back", "reset"}
Others == {"stage", "capture", "accept", "failing", "resume", "down", "done"}

Typed ==
    /\ refs \in [Branches -> Histories]
    /\ head \in Branches /\ index \in Trees /\ files \in Trees
    /\ mode \in Modes /\ gates \in BOOLEAN /\ disturbed \in {"no", "torn", "yes"}
    /\ pc \in Preparing \cup Moved \cup Others
    /\ pc # "stage" => before \in Histories
    /\ prepared \in Branches \cup {None} /\ bound \in Branches \cup {None}
    /\ pc = "done" <=> verdict # None
    /\ verdict \in {None, "accepted", "failed", "blocked"}
    /\ moves \in 0..MaxMoves /\ faults \in 0..MaxFaults

(* Whose integration it is at each step, and which branch it may move.     *)
Bound ==
    /\ pc = "stage" => mode = "fresh"
    /\ pc \in Preparing \cup {"capture", "bound", "unedited", "failing"} => Applying
    /\ pc \in Preparing \cup Moved => bound \in Branches
    /\ pc \in Moved \cup {"recorded", "swap"} => prepared = bound
    /\ pc \in {"unbind", "follow", "back", "reset"} => seen \in Histories

(* A branch has the user's commits only, or one candidate on top of before *)
(* and then what the user has committed on top of that.                    *)
OfUser(commit) == \A i \in DOMAIN commit : commit[i].by = "user"
StartsWith(commit, start) ==
    Len(start) <= Len(commit) /\ \A i \in DOMAIN start : commit[i] = start[i]
Holds(b) ==
    /\ StartsWith(refs[b], Integrated)
    /\ \A i \in (Len(before) + 2)..Len(refs[b]) : refs[b][i].by = "user"

Grown ==
    /\ pc = "stage" => \A b \in Branches : OfUser(refs[b])
    /\ pc # "stage" =>
          /\ OfUser(before)
          /\ \E b \in Branches : StartsWith(refs[b], before)
          /\ \A b \in Branches : OfUser(refs[b]) \/ Holds(b)
    /\ pc \in Preparing => OfUser(refs[bound])
    /\ pc = "accept" \/ verdict = "accepted" => \E b \in Branches : Holds(b)

BranchInv == Typed /\ Bound /\ Grown

(* Where the first try leaves the branches.                                *)
Ends(b) == Last(refs[b]).by = "aiflow"
FirstTry ==
    /\ mode = "fresh" => \A b \in Branches : Ends(b) => b = bound
    /\ mode = "fresh" /\ pc \in Preparing \cup {"stage", "capture", "follow", "reset", "failing"}
          => \A b \in Branches : ~Ends(b)
    /\ mode = "recheck" => pc = "done" /\ \A b \in Branches : ~Ends(b)
    /\ verdict = "failed" => mode = "recheck"

FailedInv == BranchInv /\ FirstTry

(* Without interference every step finds what the one before it left.      *)
Origin == <<[by |-> "user", tree |-> BaseTree]>>
NotMoved == \A b \in Branches : refs[b] = Origin
IsMoved == \A b \in Branches : refs[b] = IF b = head THEN Integrated ELSE Origin
OnCourse ==
    /\ mode \in {"fresh", "reapply", "resume"}
    /\ pc # "stage" => before = Origin
    /\ pc \in Preparing \cup Moved => bound = head
    /\ \/ pc \in Preparing \cup {"stage", "capture"} /\ NotMoved /\ CleanAt(Origin)
       \/ pc \in {"bound", "unedited", "refresh"} /\ IsMoved /\ CleanAt(Origin)
       \/ pc \in {"refreshed", "applied", "accept", "done"} /\ IsMoved /\ CleanAt(Integrated)
       \/ pc = "down" /\ NotMoved /\ CleanAt(Origin)
       \/ pc = "down" /\ IsMoved /\ prepared = head
          /\ (CleanAt(Origin) \/ CleanAt(Integrated))
    /\ pc = "accept" => prepared = head
    /\ pc = "done" => verdict = "accepted"

(* But a crash inside read-tree leaves files that recovery will not touch. *)
Torn ==
    /\ disturbed = "torn"
    /\ before = Origin /\ IsMoved
    /\ \/ pc = "down" /\ prepared = head /\ ~CleanAt(Origin) /\ ~CleanAt(Integrated)
       \/ pc = "done" /\ verdict = "blocked"

CourseInv ==
    BranchInv /\ (gates /\ disturbed # "yes" => Torn \/ (disturbed = "no" /\ OnCourse))
----------------------------------------------------------------------------
LEMMA HistoryFacts ==
  ASSUME NEW c \in Histories
  PROVE  /\ Len(c) \in Nat /\ Len(c) >= 1 /\ DOMAIN c = 1..Len(c)
         /\ \A i \in 1..Len(c) : c[i] \in Commit
         /\ Last(c) = c[Len(c)] /\ Last(c) \in Commit
         /\ Tree(c) \in Trees
<1>1. c \in Seq(Commit) /\ c # <<>>
  BY DEF Histories
<1>2. Len(c) \in Nat /\ Len(c) >= 1 /\ DOMAIN c = 1..Len(c)
  BY <1>1
<1>3. \A i \in 1..Len(c) : c[i] \in Commit
  BY <1>1
<1>4. Last(c) = c[Len(c)] /\ Last(c) \in Commit
  BY <1>2, <1>3 DEF Last
<1> QED
  BY <1>2, <1>3, <1>4 DEF Tree, Commit

LEMMA AppendFacts ==
  ASSUME NEW c \in Histories, NEW commit \in Commit
  PROVE  /\ Append(c, commit) \in Histories
         /\ Len(Append(c, commit)) = Len(c) + 1
         /\ \A i \in 1..Len(c) : Append(c, commit)[i] = c[i]
         /\ Append(c, commit)[Len(c) + 1] = commit
         /\ Last(Append(c, commit)) = commit
<1>1. c \in Seq(Commit)
  BY DEF Histories
<1>2. /\ Append(c, commit) \in Seq(Commit) /\ Len(Append(c, commit)) = Len(c) + 1
      /\ \A i \in 1..Len(c) : Append(c, commit)[i] = c[i]
      /\ Append(c, commit)[Len(c) + 1] = commit
  BY <1>1
<1>3. Append(c, commit) # <<>>
  BY <1>1, <1>2
<1> QED
  BY <1>2, <1>3 DEF Histories, Last

(* The candidate is one commit on top of before.                           *)
LEMMA CandidateFacts ==
  ASSUME before \in Histories
  PROVE  /\ Tested \in Trees /\ Integrated \in Histories
         /\ Len(Integrated) = Len(before) + 1
         /\ \A i \in 1..Len(before) : Integrated[i] = before[i]
         /\ Integrated[Len(before) + 1] = [by |-> "aiflow", tree |-> Tested]
         /\ Last(Integrated) = [by |-> "aiflow", tree |-> Tested]
         /\ Integrated # before
<1>1. Tree(before) \in Trees
  BY HistoryFacts
<1>2. Tested \in Trees
  BY <1>1, TreeAssumption DEF Tested, Trees, Merged
<1>3. [by |-> "aiflow", tree |-> Tested] \in Commit
  BY <1>2 DEF Commit
<1>4. Len(Integrated) = Len(before) + 1
  BY <1>3, AppendFacts DEF Integrated
<1>5. Integrated # before
  BY <1>4, HistoryFacts
<1> QED
  BY <1>2, <1>3, <1>4, <1>5, AppendFacts DEF Integrated

LEMMA ReadTreeTyped ==
  ASSUME index \in Trees, files \in Trees,
         NEW from \in Histories, NEW to \in Histories, ReadTree(from, to)
  PROVE  index' \in Trees /\ files' \in Trees
<1>1. Tree(to) \in Trees
  BY HistoryFacts
<1> QED
  BY <1>1 DEF ReadTree, Over, Trees

LEMMA StartFacts ==
  ASSUME NEW c \in Histories, NEW start \in Histories
  PROVE  /\ StartsWith(c, c)
         /\ OfUser(c) <=> \A i \in 1..Len(c) : c[i].by = "user"
         /\ OfUser(c) => Last(c).by = "user"
         /\ \A commit \in Commit :
               /\ StartsWith(c, start) => StartsWith(Append(c, commit), start)
               /\ OfUser(c) /\ commit.by = "user" => OfUser(Append(c, commit))
<1>1. StartsWith(c, c) /\ (OfUser(c) <=> \A i \in 1..Len(c) : c[i].by = "user")
  BY HistoryFacts DEF StartsWith, OfUser
<1>2. OfUser(c) => Last(c).by = "user"
  BY <1>1, HistoryFacts
<1>3. ASSUME NEW commit \in Commit
      PROVE  /\ StartsWith(c, start) => StartsWith(Append(c, commit), start)
             /\ OfUser(c) /\ commit.by = "user" => OfUser(Append(c, commit))
  <2>1. /\ DOMAIN Append(c, commit) = 1..(Len(c) + 1) /\ DOMAIN c = 1..Len(c)
        /\ DOMAIN start = 1..Len(start) /\ Len(start) \in Nat /\ Len(c) \in Nat
        /\ Len(Append(c, commit)) = Len(c) + 1
        /\ \A i \in 1..Len(c) : Append(c, commit)[i] = c[i]
        /\ Append(c, commit)[Len(c) + 1] = commit
    BY HistoryFacts, AppendFacts
  <2>2. StartsWith(c, start) => StartsWith(Append(c, commit), start)
    BY <2>1 DEF StartsWith
  <2>3. OfUser(c) /\ commit.by = "user" => OfUser(Append(c, commit))
    BY <2>1 DEF OfUser
  <2> QED
    BY <2>2, <2>3
<1> QED
  BY <1>1, <1>2, <1>3

LEMMA NoMixing ==
  ASSUME BranchInv, pc # "stage", NEW b \in Branches
  PROVE  /\ ~(OfUser(refs[b]) /\ Holds(b))
         /\ refs[b] = Integrated => Holds(b)
         /\ Ends(b) => refs[b] = Integrated
<1>1. before \in Histories /\ refs[b] \in Histories /\ (OfUser(refs[b]) \/ Holds(b))
  BY DEF BranchInv, Typed, Grown
<1> DEFINE n == Len(before)
<1>2. /\ Integrated \in Histories /\ Len(Integrated) = n + 1 /\ n \in Nat
      /\ DOMAIN Integrated = 1..(n + 1)
      /\ Integrated[n + 1].by = "aiflow"
  BY <1>1, CandidateFacts, HistoryFacts
<1>3. /\ Len(refs[b]) \in Nat /\ DOMAIN refs[b] = 1..Len(refs[b])
      /\ Last(refs[b]) = refs[b][Len(refs[b])]
  BY <1>1, HistoryFacts
<1>4. Holds(b) => /\ Len(refs[b]) >= n + 1
                  /\ \A i \in 1..(n + 1) : refs[b][i] = Integrated[i]
                  /\ \A i \in (n + 2)..Len(refs[b]) : refs[b][i].by = "user"
  BY <1>2 DEF Holds, StartsWith
<1> HIDE DEF n
<1>5. ~(OfUser(refs[b]) /\ Holds(b))
  <2>1. SUFFICES ASSUME OfUser(refs[b]), Holds(b) PROVE FALSE
    OBVIOUS
  <2>2. n + 1 \in DOMAIN refs[b] /\ refs[b][n + 1] = Integrated[n + 1]
    BY <1>2, <1>3, <1>4, <2>1
  <2> QED
    BY <1>2, <2>1, <2>2 DEF OfUser
<1>6. refs[b] = Integrated => Holds(b)
  <2>1. StartsWith(Integrated, Integrated)
    BY <1>2, StartFacts
  <2> QED
    BY <1>2, <2>1 DEF Holds, n
<1>7. Ends(b) => refs[b] = Integrated
  <2>1. SUFFICES ASSUME Ends(b) PROVE refs[b] = Integrated
    OBVIOUS
  <2>2. Holds(b)
    BY <1>1, <2>1, StartFacts DEF Ends
  <2>3. Len(refs[b]) = n + 1
    <3>1. ASSUME Len(refs[b]) > n + 1 PROVE FALSE
      <4>1. Len(refs[b]) \in (n + 2)..Len(refs[b])
        BY <1>2, <1>3, <3>1
      <4>2. refs[b][Len(refs[b])].by = "user"
        BY <1>4, <2>2, <4>1
      <4> QED
        BY <1>3, <2>1, <4>2 DEF Ends
    <3> QED
      BY <1>2, <1>3, <1>4, <2>2, <3>1
  <2>4. \A i \in 1..(n + 1) : refs[b][i] = Integrated[i]
    BY <1>4, <2>2
  <2> QED
    BY <1>1, <1>2, <1>3, <2>3, <2>4 DEF Histories
<1> QED
  BY <1>5, <1>6, <1>7
----------------------------------------------------------------------------
LEMMA BranchInit == Init => BranchInv
<1> SUFFICES ASSUME Init PROVE BranchInv
  OBVIOUS
<1>1. BaseTree \in Trees
  BY TreeAssumption DEF Trees, Merged, Absent, Base
<1>2. ASSUME NEW b \in Branches
      PROVE  refs[b] \in Histories /\ OfUser(refs[b])
  <2>1. refs[b] = <<[by |-> "user", tree |-> BaseTree]>>
    BY DEF Init
  <2>2. [by |-> "user", tree |-> BaseTree] \in Commit
    BY <1>1 DEF Commit
  <2> QED
    BY <2>1, <2>2 DEF Histories, OfUser
<1>3. Typed
  <2>1. refs \in [Branches -> Histories]
    BY <1>2 DEF Init
  <2>2. moves \in 0..MaxMoves /\ faults \in 0..MaxFaults
    BY TreeAssumption DEF Init
  <2>3. pc = "stage" /\ verdict = None /\ pc \in Preparing \cup Moved \cup Others
    BY DEF Init, Others
  <2> QED
    BY <1>1, <2>1, <2>2, <2>3 DEF Init, Typed, Modes
<1>4. Bound
  BY DEF Init, Bound, Applying, Preparing, Moved
<1>5. Grown
  BY <1>2, TreeAssumption DEF Init, Grown, Preparing
<1> QED
  BY <1>3, <1>4, <1>5 DEF BranchInv

(* What is said of the branches stays so while nothing moves them.         *)
LEMMA GrownStays ==
  ASSUME BranchInv, pc # "stage", pc' # "stage", UNCHANGED <<refs, before>>,
         pc' \in Preparing => (pc \in Preparing /\ bound' = bound) \/ OfUser(refs[bound']),
         pc' = "accept" \/ verdict' = "accepted" =>
            \/ pc = "accept" \/ verdict = "accepted"
            \/ \E b \in Branches : Holds(b)
  PROVE  Grown'
<1>1. Integrated' = Integrated
  BY DEF Integrated, Tested
<1> QED
  BY <1>1 DEF BranchInv, Grown, Holds

(* update-ref back from the candidate to what was before it.               *)
LEMMA MovedBack ==
  ASSUME BranchInv, pc # "stage", pc' # "stage", bound \in Branches, MoveBack,
         before' = before, pc' \notin Preparing, pc' # "accept", verdict' # "accepted"
  PROVE  /\ refs' \in [Branches -> Histories] /\ Grown'
         /\ \A b \in Branches \ {bound} : refs'[b] = refs[b]
         /\ refs'[bound] # Integrated
         /\ refs'[bound] = refs[bound] \/ (refs[bound] = Integrated /\ refs'[bound] = before)
<1>1. before \in Histories /\ OfUser(before) /\ Integrated # before
      /\ refs \in [Branches -> Histories]
  BY CandidateFacts DEF BranchInv, Typed, Grown
<1>2. Integrated' = Integrated
  BY DEF Integrated, Tested
<1>3. /\ refs' \in [Branches -> Histories]
      /\ \A b \in Branches \ {bound} : refs'[b] = refs[b]
      /\ refs'[bound] # Integrated
      /\ refs'[bound] = refs[bound] \/ (refs[bound] = Integrated /\ refs'[bound] = before)
  BY <1>1 DEF MoveBack
<1>4. StartsWith(before, before)
  BY <1>1, StartFacts
<1>5. \E b \in Branches : StartsWith(refs[b], before)'
  BY <1>1, <1>3, <1>4 DEF BranchInv, Grown
<1>6. ASSUME NEW b \in Branches PROVE OfUser(refs'[b]) \/ Holds(b)'
  <2>1. OfUser(refs[b]) \/ Holds(b)
    BY DEF BranchInv, Grown
  <2>2. CASE refs'[b] = refs[b]
    BY <1>2, <2>1, <2>2 DEF Holds
  <2>3. CASE refs'[b] = before
    BY <1>1, <2>3
  <2> QED
    BY <1>3, <2>2, <2>3
<1> QED
  BY <1>1, <1>3, <1>5, <1>6 DEF Grown

(* A branch gets the user's commit on top.                                 *)
LEMMA UserCommits ==
  ASSUME BranchInv, pc # "stage", UNCHANGED <<pc, before, bound, verdict>>,
         NEW commit \in Commit, commit.by = "user",
         refs' = [refs EXCEPT ![head] = Append(@, commit)]
  PROVE  refs' \in [Branches -> Histories] /\ Grown'
<1>1. before \in Histories /\ head \in Branches /\ refs \in [Branches -> Histories]
  BY DEF BranchInv, Typed
<1>2. Integrated' = Integrated /\ Integrated \in Histories /\ Len(Integrated) = Len(before) + 1
      /\ Len(before) \in Nat
  BY <1>1, CandidateFacts, HistoryFacts DEF Integrated, Tested
<1>3. /\ refs'[head] = Append(refs[head], commit)
      /\ \A b \in Branches \ {head} : refs'[b] = refs[b]
      /\ refs' \in [Branches -> Histories]
  BY <1>1, AppendFacts
<1>4. \A b \in Branches : StartsWith(refs[b], before) => StartsWith(refs'[b], before)
  BY <1>1, <1>3, StartFacts
<1>5. \A b \in Branches : OfUser(refs[b]) => OfUser(refs'[b])
  BY <1>1, <1>3, StartFacts
<1>6. ASSUME NEW b \in Branches, Holds(b) PROVE Holds(b)'
  <2>1. CASE b # head
    BY <1>2, <1>3, <1>6, <2>1 DEF Holds
  <2>2. CASE b = head
    <3>1. StartsWith(refs'[b], Integrated)
      BY <1>1, <1>2, <1>3, <1>6, <2>2, StartFacts DEF Holds
    <3>2. /\ Len(refs[b]) \in Nat /\ Len(refs'[b]) = Len(refs[b]) + 1
          /\ \A i \in 1..Len(refs[b]) : refs'[b][i] = refs[b][i]
          /\ refs'[b][Len(refs[b]) + 1] = commit
      BY <1>1, <1>3, <2>2, AppendFacts, HistoryFacts
    <3>3. ASSUME NEW i \in (Len(before) + 2)..Len(refs'[b]) PROVE refs'[b][i].by = "user"
      <4>1. i \in (Len(before) + 2)..Len(refs[b]) \/ i = Len(refs[b]) + 1
        BY <1>2, <3>2
      <4>2. i \in (Len(before) + 2)..Len(refs[b]) => i \in 1..Len(refs[b])
        BY <1>2, <3>2
      <4> QED
        BY <1>6, <3>2, <4>1, <4>2 DEF Holds
    <3> QED
      BY <1>2, <3>1, <3>3 DEF Holds
  <2> QED
    BY <2>1, <2>2
<1> QED
  BY <1>3, <1>4, <1>5, <1>6 DEF BranchInv, Grown

LEMMA BranchStep ==
  ASSUME BranchInv, [Next]_vars
  PROVE  BranchInv'
<1>0. Typed /\ Bound /\ Grown
  BY DEF BranchInv
<1>1. ASSUME Stage PROVE BranchInv'
  <2>1. /\ pc = "stage" /\ pc' = "capture" /\ before' = refs[head]
        /\ UNCHANGED <<refs, head, index, files, prepared, mode, bound, verdict, gates,
                       disturbed, moves, faults>>
    BY <1>1 DEF Stage, Goto, HEAD, checkout, control
  <2>2. refs[head] \in Histories /\ StartsWith(refs[head], refs[head])
    BY <1>0, StartFacts DEF Typed
  <2>3. Typed'
    BY <1>0, <2>1, <2>2 DEF Typed, Others, Preparing, Moved
  <2>4. Bound'
    BY <1>0, <2>1 DEF Bound, Applying, Preparing, Moved
  <2>5. Grown'
    BY <1>0, <2>1, <2>2, TreeAssumption DEF Grown, Typed, Preparing
  <2> QED
    BY <2>3, <2>4, <2>5 DEF BranchInv
<1>2. ASSUME Capture PROVE BranchInv'
  <2>1. /\ pc = "capture" /\ Applying
        /\ UNCHANGED <<refs, head, index, files, before, prepared, mode, verdict, gates,
                       disturbed, moves, faults>>
    BY <1>0, <1>2 DEF Capture, Bound, checkout, record
  <2>2. \/ pc' = "test" /\ bound' = head /\ refs[head] = before
        \/ pc' = "failing" /\ bound' = bound
    BY <1>2, <2>1 DEF Capture, Goto, Fail, HEAD
  <2>3. Typed'
    BY <1>0, <2>1, <2>2 DEF Typed, Others, Preparing, Moved
  <2>4. Bound'
    BY <1>0, <2>1, <2>2 DEF Bound, Typed, Applying, Preparing, Moved
  <2>5. pc' \in Preparing => OfUser(refs[bound'])
    BY <1>0, <2>1, <2>2 DEF Grown, Preparing
  <2>6. Grown'
    BY <2>1, <2>2, <2>5, GrownStays DEF Typed
  <2> QED
    BY <2>3, <2>4, <2>6 DEF BranchInv
<1>3. ASSUME Test PROVE BranchInv'
  <2>1. /\ pc = "test" /\ Applying
        /\ pc' \in {"check", "failing"}
        /\ UNCHANGED <<refs, head, index, files, before, prepared, mode, bound,
                       seen, verdict, gates, disturbed, moves, faults>>
    BY <1>0, <1>3 DEF Test, Bound, Goto, Fail, checkout, record, control, Preparing
  <2>2. Typed'
    BY <1>0, <2>1 DEF Typed, Others, Preparing, Moved
  <2>3. Bound'
    BY <1>0, <2>1 DEF Bound, Applying, Preparing, Moved
  <2>4. Grown'
    BY <1>0, <2>1, GrownStays DEF Typed, Preparing
  <2> QED
    BY <2>2, <2>3, <2>4 DEF BranchInv
<1>4. ASSUME Check("check", "record") PROVE BranchInv'
  <2>1. /\ pc = "check" /\ Applying
        /\ pc' \in {"record", "failing"}
        /\ UNCHANGED <<refs, head, index, files, before, prepared, mode, bound,
                       seen, verdict, gates, disturbed, moves, faults>>
    BY <1>0, <1>4 DEF Check, Bound, Goto, Fail, checkout, record, control, Preparing
  <2>2. Typed'
    BY <1>0, <2>1 DEF Typed, Others, Preparing, Moved
  <2>3. Bound'
    BY <1>0, <2>1 DEF Bound, Applying, Preparing, Moved
  <2>4. Grown'
    BY <1>0, <2>1, GrownStays DEF Typed, Preparing
  <2> QED
    BY <2>2, <2>3, <2>4 DEF BranchInv
<1>5. ASSUME Check("recorded", "swap") PROVE BranchInv'
  <2>1. /\ pc = "recorded" /\ Applying
        /\ pc' \in {"swap", "failing"}
        /\ UNCHANGED <<refs, head, index, files, before, prepared, mode, bound,
                       seen, verdict, gates, disturbed, moves, faults>>
    BY <1>0, <1>5 DEF Check, Bound, Goto, Fail, checkout, record, control, Preparing
  <2>2. Typed'
    BY <1>0, <2>1 DEF Typed, Others, Preparing, Moved
  <2>3. Bound'
    BY <1>0, <2>1 DEF Bound, Applying, Preparing, Moved
  <2>4. Grown'
    BY <1>0, <2>1, GrownStays DEF Typed, Preparing
  <2> QED
    BY <2>2, <2>3, <2>4 DEF BranchInv
<1>6. ASSUME RecordPrepared PROVE BranchInv'
  <2>1. /\ pc = "record" /\ Applying /\ bound \in Branches
        /\ UNCHANGED <<refs, head, index, files, before, mode, bound, seen, verdict,
                       gates, moves>>
        /\ \/ pc' = "recorded" /\ prepared' = bound /\ UNCHANGED <<disturbed, faults>>
           \/ /\ pc' = "failing" /\ prepared' = prepared /\ disturbed' = "yes"
              /\ faults < MaxFaults /\ faults' = faults + 1
    BY <1>0, <1>6 DEF RecordPrepared, Bound, Goto, Fail, Fault, checkout, control, Preparing
  <2>2. faults' \in 0..MaxFaults
    BY <1>0, <2>1, TreeAssumption DEF Typed
  <2>3. disturbed' \in {"no", "torn", "yes"}
    BY <1>0, <2>1 DEF Typed
  <2>4. prepared' \in Branches \cup {None} /\ pc' \in {"recorded", "failing"}
    BY <1>0, <2>1 DEF Typed
  <2>5. Typed'
    BY <1>0, <2>1, <2>2, <2>3, <2>4 DEF Typed, Others, Preparing
  <2>6. Bound'
    BY <1>0, <2>1 DEF Bound, Applying, Preparing, Moved
  <2>7. Grown'
    BY <1>0, <2>1, GrownStays DEF Typed, Preparing
  <2> QED
    BY <2>5, <2>6, <2>7 DEF BranchInv
<1>7. ASSUME Swap PROVE BranchInv'
  <2>1. /\ pc = "swap" /\ Applying /\ prepared = bound /\ bound \in Branches
        /\ UNCHANGED <<head, index, files, before, prepared, mode, bound, seen,
                       verdict, gates, disturbed, moves, faults>>
    BY <1>0, <1>7 DEF Swap, Bound, Preparing, record, control
  <2>2. CASE refs[bound] = before
    <3>1. pc' = "bound" /\ refs' = [refs EXCEPT ![bound] = Integrated]
      BY <1>7, <2>2 DEF Swap, Goto
    <3>2. before \in Histories /\ refs \in [Branches -> Histories]
      BY <1>0, <2>1 DEF Typed
    <3>3. /\ Integrated \in Histories /\ Len(Integrated) = Len(before) + 1
          /\ StartsWith(Integrated, before) /\ Len(before) \in Nat
      BY <3>2, CandidateFacts, HistoryFacts DEF StartsWith
    <3>4. StartsWith(Integrated, Integrated)
      BY <3>3, StartFacts
    <3>5. Integrated' = Integrated
      BY <2>1 DEF Integrated, Tested
    <3>6. /\ refs'[bound] = Integrated /\ refs' \in [Branches -> Histories]
          /\ \A b \in Branches \ {bound} : refs'[b] = refs[b]
      BY <2>1, <3>1, <3>2, <3>3
    <3>7. Holds(bound)'
      BY <2>1, <3>3, <3>4, <3>5, <3>6 DEF Holds
    <3>8. \A b \in Branches \ {bound} : Holds(b) => Holds(b)'
      BY <2>1, <3>5, <3>6 DEF Holds
    <3>9. Typed'
      BY <1>0, <2>1, <3>1, <3>6 DEF Typed, Moved
    <3>10. Bound'
      BY <1>0, <2>1, <3>1 DEF Bound, Applying, Preparing, Moved
    <3>11. Grown'
      BY <1>0, <2>1, <3>1, <3>3, <3>6, <3>7, <3>8 DEF Grown, Typed, Preparing
    <3> QED
      BY <3>9, <3>10, <3>11 DEF BranchInv
  <2>3. CASE refs[bound] # before
    <3>1. pc' = "failing" /\ refs' = refs
      BY <1>7, <2>1, <2>3 DEF Swap, Goto, Fail
    <3>2. Typed'
      BY <1>0, <2>1, <3>1 DEF Typed, Others
    <3>3. Bound'
      BY <1>0, <2>1, <3>1 DEF Bound, Applying, Preparing, Moved
    <3>4. Grown'
      BY <1>0, <2>1, <3>1, GrownStays DEF Typed, Preparing
    <3> QED
      BY <3>2, <3>3, <3>4 DEF BranchInv
  <2> QED
    BY <2>2, <2>3
<1>8. ASSUME CheckBranch PROVE BranchInv'
  <2>1. /\ pc = "bound" /\ Applying /\ bound \in Branches /\ prepared = bound
        /\ pc' \in {"unedited", "withdraw"}
        /\ UNCHANGED <<refs, head, index, files, before, prepared, mode, bound,
                       seen, verdict, gates, disturbed, moves, faults>>
    BY <1>0, <1>8 DEF CheckBranch, Bound, Goto, checkout, record, control, Moved
  <2>2. Typed'
    BY <1>0, <2>1 DEF Typed, Others, Preparing, Moved
  <2>3. Bound'
    BY <1>0, <2>1 DEF Bound, Applying, Preparing, Moved
  <2>4. Grown'
    BY <1>0, <2>1, GrownStays DEF Typed, Preparing
  <2> QED
    BY <2>2, <2>3, <2>4 DEF BranchInv
<1>9. ASSUME CheckFiles PROVE BranchInv'
  <2>1. /\ pc = "unedited" /\ Applying /\ bound \in Branches /\ prepared = bound
        /\ pc' \in {"refresh", "withdraw"}
        /\ UNCHANGED <<refs, head, index, files, before, prepared, mode, bound,
                       seen, verdict, gates, disturbed, moves, faults>>
    BY <1>0, <1>9 DEF CheckFiles, Bound, Goto, checkout, record, control, Moved
  <2>2. Typed'
    BY <1>0, <2>1 DEF Typed, Others, Preparing, Moved
  <2>3. Bound'
    BY <1>0, <2>1 DEF Bound, Applying, Preparing, Moved
  <2>4. Grown'
    BY <1>0, <2>1, GrownStays DEF Typed, Preparing
  <2> QED
    BY <2>2, <2>3, <2>4 DEF BranchInv
<1>10. ASSUME Withdraw PROVE BranchInv'
  <2>1. /\ pc = "withdraw" /\ bound \in Branches /\ prepared = bound /\ MoveBack
        /\ pc' \in {"failing", "preserve"}
        /\ pc' = "failing" => Applying
        /\ UNCHANGED <<head, index, files, before, prepared, mode, bound, seen,
                       verdict, gates, disturbed, moves, faults>>
    BY <1>0, <1>10 DEF Withdraw, Bound, Goto, Fail, record, control, Moved
  <2>2. verdict # "accepted" /\ verdict' # "accepted"
    BY <1>0, <2>1, TreeAssumption DEF Typed
  <2>3. refs' \in [Branches -> Histories] /\ Grown'
    BY <2>1, <2>2, MovedBack DEF Preparing
  <2>4. Typed'
    BY <1>0, <2>1, <2>3 DEF Typed, Others, Preparing, Moved
  <2>5. Bound'
    BY <1>0, <2>1 DEF Bound, Applying, Preparing, Moved
  <2> QED
    BY <2>3, <2>4, <2>5 DEF BranchInv
<1>11. ASSUME Refresh PROVE BranchInv'
  <2>1. /\ pc = "refresh" /\ bound \in Branches /\ prepared = bound
        /\ ReadTree(before, Integrated)
        /\ UNCHANGED <<refs, head, before, prepared, mode, bound, seen, verdict,
                       gates, disturbed, moves, faults>>
    BY <1>0, <1>11 DEF Refresh, Bound, record, control, Moved, Typed, End, Goto
  <2>2. pc' \in {"refreshed", "withdraw"}
    BY <1>0, <1>11, <2>1 DEF Refresh, Goto, Typed
  <2>3. before \in Histories /\ Integrated \in Histories
    BY <1>0, <2>1, CandidateFacts DEF Typed
  <2>4. index' \in Trees /\ files' \in Trees
    BY <1>0, <2>1, <2>3, ReadTreeTyped DEF Typed
  <2>5. Typed'
    BY <1>0, <2>1, <2>2, <2>4, TreeAssumption DEF Typed, Others, Preparing, Moved
  <2>6. Bound'
    BY <1>0, <2>1, <2>2 DEF Bound, Applying, Preparing, Moved
  <2>7. Grown'
    BY <1>0, <2>1, <2>2, GrownStays DEF Typed, Preparing
  <2> QED
    BY <2>5, <2>6, <2>7 DEF BranchInv
<1>12. ASSUME CheckHead PROVE BranchInv'
  <2>1. /\ pc = "refreshed" /\ bound \in Branches /\ prepared = bound
        /\ pc' \in {"applied", "unbind"} /\ seen' = refs[head] /\ refs[head] \in Histories
        /\ UNCHANGED <<refs, head, index, files, before, prepared, mode, bound,
                       verdict, gates, disturbed, moves, faults>>
    BY <1>0, <1>12 DEF CheckHead, HEAD, Bound, Goto, checkout, record, Moved, Typed
  <2>2. Typed'
    BY <1>0, <2>1 DEF Typed, Others, Preparing, Moved
  <2>3. Bound'
    BY <1>0, <2>1 DEF Bound, Applying, Preparing, Moved
  <2>4. Grown'
    BY <1>0, <2>1, GrownStays DEF Typed, Preparing
  <2> QED
    BY <2>2, <2>3, <2>4 DEF BranchInv
<1>13. ASSUME Unbind PROVE BranchInv'
  <2>1. /\ pc = "unbind" /\ bound \in Branches /\ prepared = bound /\ MoveBack
        /\ pc' \in {"follow"}
        /\ seen \in Histories
        /\ UNCHANGED <<head, index, files, before, prepared, mode, bound, seen,
                       verdict, gates, disturbed, moves, faults>>
    BY <1>0, <1>13 DEF Unbind, Bound, Goto, record, control, Moved
  <2>2. verdict # "accepted" /\ verdict' # "accepted"
    BY <1>0, <2>1, TreeAssumption DEF Typed
  <2>3. refs' \in [Branches -> Histories] /\ Grown'
    BY <2>1, <2>2, MovedBack DEF Preparing
  <2>4. Typed'
    BY <1>0, <2>1, <2>3 DEF Typed, Others, Preparing, Moved
  <2>5. Bound'
    BY <1>0, <2>1 DEF Bound, Applying, Preparing, Moved
  <2> QED
    BY <2>3, <2>4, <2>5 DEF BranchInv
<1>14. ASSUME Follow PROVE BranchInv'
  <2>1. /\ pc = "follow" /\ bound \in Branches /\ prepared = bound /\ seen \in Histories
        /\ ReadTree(Integrated, seen)
        /\ UNCHANGED <<refs, head, before, prepared, mode, bound, seen, verdict,
                       gates, disturbed, moves, faults>>
    BY <1>0, <1>14 DEF Follow, Bound, record, control, Moved, Typed, End, Goto
  <2>2. pc' \in {"failing", "preserve"} /\ (pc' = "failing" => Applying)
    BY <1>0, <1>14, <2>1 DEF Follow, Goto, Fail, Typed
  <2>3. before \in Histories /\ Integrated \in Histories
    BY <1>0, <2>1, CandidateFacts DEF Typed
  <2>4. index' \in Trees /\ files' \in Trees
    BY <1>0, <2>1, <2>3, ReadTreeTyped DEF Typed
  <2>5. Typed'
    BY <1>0, <2>1, <2>2, <2>4, TreeAssumption DEF Typed, Others, Preparing, Moved
  <2>6. Bound'
    BY <1>0, <2>1, <2>2 DEF Bound, Applying, Preparing, Moved
  <2>7. Grown'
    BY <1>0, <2>1, <2>2, GrownStays DEF Typed, Preparing
  <2> QED
    BY <2>5, <2>6, <2>7 DEF BranchInv
<1>15. ASSUME CheckApplied PROVE BranchInv'
  <2>1. /\ pc = "applied" /\ bound \in Branches /\ prepared = bound
        /\ pc' \in {"accept", "preserve"} /\ (pc' = "accept" => refs[bound] = Integrated)
        /\ UNCHANGED <<refs, head, index, files, before, prepared, mode, bound,
                       seen, verdict, gates, disturbed, moves, faults>>
    BY <1>0, <1>15 DEF CheckApplied, Undrifted, HEAD, Bound, Goto, checkout, record, control, Moved
  <2>2. Typed'
    BY <1>0, <2>1 DEF Typed, Others, Preparing, Moved
  <2>3. Bound'
    BY <1>0, <2>1 DEF Bound, Applying, Preparing, Moved
  <2>4. verdict' # "accepted"
    BY <1>0, <2>1, TreeAssumption DEF Typed
  <2>5. pc' = "accept" => \E b \in Branches : Holds(b)
    BY <2>1, NoMixing
  <2>6. Grown'
    BY <1>0, <2>1, <2>4, <2>5, GrownStays DEF Preparing
  <2> QED
    BY <2>2, <2>3, <2>6 DEF BranchInv
<1>16. ASSUME Accept PROVE BranchInv'
  <2>1. /\ pc = "accept" /\ pc' = "done" /\ verdict' = "accepted"
        /\ UNCHANGED <<refs, head, index, files, before, prepared, mode, bound,
                       seen, gates, disturbed, moves, faults>>
    BY <1>16 DEF Accept, End, Goto, checkout, record
  <2>2. Typed'
    BY <1>0, <2>1, TreeAssumption DEF Typed, Others
  <2>3. Bound'
    BY <1>0, <2>1 DEF Bound, Applying, Preparing, Moved
  <2>4. Grown'
    BY <1>0, <2>1, GrownStays DEF Preparing
  <2> QED
    BY <2>2, <2>3, <2>4 DEF BranchInv
<1>17. ASSUME Preserve PROVE BranchInv'
  <2>1. /\ pc = "preserve" /\ pc' = "look" /\ bound \in Branches /\ prepared = bound
        /\ UNCHANGED <<refs, head, index, before, prepared, mode, bound, seen,
                       verdict, gates, disturbed, moves, faults>>
    BY <1>0, <1>17 DEF Preserve, Bound, Goto, record, control, Moved
  <2>2. files' \in Trees
    BY <1>0, <1>17, TreeAssumption DEF Preserve, Typed, Trees, Absent, Merged
  <2>3. Typed'
    BY <1>0, <2>1, <2>2 DEF Typed, Others, Preparing, Moved
  <2>4. Bound'
    BY <1>0, <2>1 DEF Bound, Applying, Preparing, Moved
  <2>5. Grown'
    BY <1>0, <2>1, GrownStays DEF Typed, Preparing
  <2> QED
    BY <2>3, <2>4, <2>5 DEF BranchInv
<1>18. ASSUME Look PROVE BranchInv'
  <2>1. /\ pc = "look" /\ bound \in Branches /\ prepared = bound
        /\ pc' = "back" /\ seen' \in Histories
        /\ UNCHANGED <<refs, head, index, files, before, prepared, mode, bound,
                       verdict, gates, disturbed, moves, faults>>
    BY <1>0, <1>18 DEF Look, HEAD, Bound, Goto, checkout, record, Moved, Typed
  <2>2. Typed'
    BY <1>0, <2>1 DEF Typed, Others, Preparing, Moved
  <2>3. Bound'
    BY <1>0, <2>1 DEF Bound, Applying, Preparing, Moved
  <2>4. Grown'
    BY <1>0, <2>1, GrownStays DEF Typed, Preparing
  <2> QED
    BY <2>2, <2>3, <2>4 DEF BranchInv
<1>19. ASSUME Back PROVE BranchInv'
  <2>1. /\ pc = "back" /\ bound \in Branches /\ prepared = bound /\ MoveBack
        /\ pc' \in {"reset"}
        /\ seen \in Histories
        /\ UNCHANGED <<head, index, files, before, prepared, mode, bound, seen,
                       verdict, gates, disturbed, moves, faults>>
    BY <1>0, <1>19 DEF Back, Bound, Goto, record, control, Moved
  <2>2. verdict # "accepted" /\ verdict' # "accepted"
    BY <1>0, <2>1, TreeAssumption DEF Typed
  <2>3. refs' \in [Branches -> Histories] /\ Grown'
    BY <2>1, <2>2, MovedBack DEF Preparing
  <2>4. Typed'
    BY <1>0, <2>1, <2>3 DEF Typed, Others, Preparing, Moved
  <2>5. Bound'
    BY <1>0, <2>1 DEF Bound, Applying, Preparing, Moved
  <2> QED
    BY <2>3, <2>4, <2>5 DEF BranchInv
<1>20. ASSUME Reset PROVE BranchInv'
  <2>1. /\ pc = "reset" /\ bound \in Branches /\ prepared = bound /\ seen \in Histories
        /\ ReadTree(Integrated, seen)
        /\ UNCHANGED <<refs, head, before, prepared, mode, bound, seen, gates,
                       disturbed, moves, faults>>
    BY <1>0, <1>20 DEF Reset, Bound, record, control, Moved, Typed, End, Goto
  <2>2. \/ pc' = "failing" /\ Applying /\ verdict' = verdict
        \/ pc' = "done" /\ verdict' \in {"failed", "blocked"}
    BY <1>0, <1>20, <2>1 DEF Reset, Goto, End, Typed
  <2>3. before \in Histories /\ Integrated \in Histories
    BY <1>0, <2>1, CandidateFacts DEF Typed
  <2>4. index' \in Trees /\ files' \in Trees
    BY <1>0, <2>1, <2>3, ReadTreeTyped DEF Typed
  <2>5. Typed'
    BY <1>0, <2>1, <2>2, <2>4, TreeAssumption DEF Typed, Others, Preparing, Moved
  <2>6. Bound'
    BY <1>0, <2>1, <2>2 DEF Bound, Applying, Preparing, Moved
  <2>7. Grown'
    BY <1>0, <2>1, <2>2, GrownStays DEF Typed, Preparing
  <2> QED
    BY <2>5, <2>6, <2>7 DEF BranchInv
<1>21. ASSUME Interrupt PROVE BranchInv'
  <2>1. /\ Applying /\ bound \in Branches
        /\ pc \in {"record", "recorded", "swap", "bound", "unedited", "withdraw", "refresh",
                  "refreshed", "unbind", "follow"}
        /\ pc' = IF refs[bound] = Integrated THEN "preserve" ELSE "failing"
        /\ faults < MaxFaults /\ faults' = faults + 1 /\ disturbed' = "yes"
        /\ UNCHANGED <<refs, head, index, files, before, prepared, mode, bound,
                       seen, verdict, gates, moves>>
    BY <1>0, <1>21 DEF Interrupt, Bound, Goto, Fault, checkout, record, control, Preparing, Moved
  <2>2. pc' = "preserve" => prepared = bound
    BY <1>0, <2>1, NoMixing DEF Bound, Grown, Preparing, Moved
  <2>3. Typed'
    BY <1>0, <2>1, TreeAssumption DEF Typed, Others, Preparing, Moved
  <2>4. Bound'
    BY <1>0, <2>1, <2>2 DEF Bound, Applying, Preparing, Moved
  <2>5. Grown'
    BY <1>0, <2>1, GrownStays DEF Typed, Preparing
  <2> QED
    BY <2>3, <2>4, <2>5 DEF BranchInv
<1>22. ASSUME pc \in {"failing", "resume", "down"}, NEW caller \in {"recheck", "resume"},
              NEW otherwise \in {"failed", "blocked"}, Recover(caller, otherwise),
              UNCHANGED <<checkout, record, seen, gates, disturbed, moves, faults>>
       PROVE  BranchInv'
  <2>1. /\ mode' = caller
        /\ UNCHANGED <<refs, head, index, files, before, prepared, seen, gates,
                       disturbed, moves, faults>>
    BY <1>22 DEF Recover, checkout, record
  <2>2. \/ /\ pc' \in {"accept", "resume"} /\ UNCHANGED <<bound, verdict>>
           /\ head = prepared /\ refs[head] = Integrated
        \/ /\ pc' = "refresh" /\ bound' = prepared /\ verdict' = verdict
           /\ prepared \in Branches
        \/ pc' = "done" /\ verdict' = otherwise /\ bound' = bound
    BY <1>0, <1>22 DEF Recover, InPlace, Unrefreshed, HEAD, End, Goto, Typed
  <2>3. Typed'
    BY <1>0, <1>22, <2>1, <2>2, TreeAssumption DEF Typed, Others, Moved, Modes
  <2>4. Bound'
    BY <1>0, <1>22, <2>1, <2>2 DEF Bound, Applying, Preparing, Moved
  <2>5. pc' = "accept" => \E b \in Branches : Holds(b)
    BY <1>0, <1>22, <2>2, NoMixing DEF Typed
  <2>6. verdict # "accepted" /\ verdict' # "accepted"
    BY <1>0, <1>22, <2>2, TreeAssumption DEF Typed
  <2>7. Grown'
    BY <1>0, <1>22, <2>1, <2>2, <2>5, <2>6, GrownStays DEF Preparing
  <2> QED
    BY <2>3, <2>4, <2>7 DEF BranchInv
<1>23. ASSUME Failing PROVE BranchInv'
  <2>1. CASE mode = "fresh"
    BY <1>22, <1>23, <2>1 DEF Failing
  <2>2. CASE mode # "fresh"
    <3>1. /\ pc = "failing" /\ pc' = "done" /\ verdict' = "blocked"
          /\ UNCHANGED <<refs, head, index, files, before, prepared, mode, bound,
                         seen, gates, disturbed, moves, faults>>
      BY <1>23, <2>2 DEF Failing, End, Goto, checkout, record
    <3>2. Typed'
      BY <1>0, <3>1, TreeAssumption DEF Typed, Others
    <3>3. Bound'
      BY <1>0, <3>1 DEF Bound, Applying, Preparing, Moved
    <3>4. Grown'
      BY <1>0, <3>1, GrownStays DEF Preparing
    <3> QED
      BY <3>2, <3>3, <3>4 DEF BranchInv
  <2> QED
    BY <2>1, <2>2
<1>24. ASSUME Resume PROVE BranchInv'
  <2>1. CASE HEAD = before
    <3>1. /\ pc \in {"resume", "down"} /\ pc' = "capture" /\ mode' = "reapply"
          /\ UNCHANGED <<refs, head, index, files, before, prepared, bound, seen,
                         verdict, gates, disturbed, moves, faults>>
      BY <1>24, <2>1 DEF Resume, Goto, checkout, record
    <3>2. Typed'
      BY <1>0, <3>1, TreeAssumption DEF Typed, Others, Modes
    <3>3. Bound'
      BY <1>0, <3>1 DEF Bound, Applying, Preparing, Moved
    <3>4. Grown'
      BY <1>0, <3>1, GrownStays DEF Preparing
    <3> QED
      BY <3>2, <3>3, <3>4 DEF BranchInv
  <2>2. CASE HEAD # before
    BY <1>22, <1>24, <2>2 DEF Resume
  <2> QED
    BY <2>1, <2>2
<1>25. ASSUME Crash PROVE BranchInv'
  <2>1. /\ pc \notin {"stage", "down", "done"} /\ pc' = "down"
        /\ faults < MaxFaults /\ faults' = faults + 1
        /\ UNCHANGED <<refs, head, index, files, before, prepared, mode, bound,
                       seen, verdict, gates, disturbed, moves>>
    BY <1>25 DEF Crash, Running, Goto, Fault, checkout, record, control
  <2>2. Typed'
    BY <1>0, <2>1, TreeAssumption DEF Typed, Others
  <2>3. Bound'
    BY <1>0, <2>1 DEF Bound, Applying, Preparing, Moved
  <2>4. Grown'
    BY <1>0, <2>1, GrownStays DEF Preparing
  <2> QED
    BY <2>2, <2>3, <2>4 DEF BranchInv
<1>26. ASSUME TornRefresh PROVE BranchInv'
  <2>1. /\ pc = "refresh" /\ pc' = "down" /\ disturbed' \in {"no", "torn", "yes"}
        /\ faults < MaxFaults /\ faults' = faults + 1
        /\ \E some \in SUBSET Paths : files' = Over(files, some, Integrated)
        /\ UNCHANGED <<refs, head, index, before, prepared, mode, bound, seen,
                       verdict, gates, moves>>
    BY <1>0, <1>26 DEF Typed, TornRefresh, Updated, Changed, Goto, Fault, record, control
  <2>2. Tree(Integrated) \in Trees
    BY <1>0, <2>1, CandidateFacts, HistoryFacts DEF Typed
  <2>3. files' \in Trees
    BY <1>0, <2>1, <2>2 DEF Over, Trees, Typed
  <2>4. Typed'
    BY <1>0, <2>1, <2>3, TreeAssumption DEF Typed, Others
  <2>5. Bound'
    BY <1>0, <2>1 DEF Bound, Applying, Preparing, Moved
  <2>6. Grown'
    BY <1>0, <2>1, GrownStays DEF Preparing
  <2> QED
    BY <2>4, <2>5, <2>6 DEF BranchInv
<1>27. ASSUME NEW p \in Paths, Edit(p) PROVE BranchInv'
  <2>1. /\ pc # "stage" /\ pc' = pc /\ disturbed' = "yes"
        /\ moves < MaxMoves /\ moves' = moves + 1
        /\ files' = [files EXCEPT ![p] = Merged + moves + 1]
        /\ UNCHANGED <<refs, head, index, before, prepared, mode, bound, seen,
                       verdict, gates, faults>>
    BY <1>27 DEF Edit, Moving, Running, record, control
  <2>2. Merged + moves + 1 \in 0..(Merged + MaxMoves) /\ moves' \in 0..MaxMoves
    BY <1>0, <2>1, TreeAssumption DEF Typed, Merged
  <2>3. files' \in Trees
    BY <1>0, <2>1, <2>2 DEF Typed, Trees
  <2>4. Typed'
    BY <1>0, <2>1, <2>2, <2>3 DEF Typed
  <2>5. Bound'
    BY <1>0, <2>1 DEF Bound, Applying
  <2>6. Grown'
    BY <1>0, <2>1, GrownStays
  <2> QED
    BY <2>4, <2>5, <2>6 DEF BranchInv
<1>28. ASSUME CommitAll PROVE BranchInv'
  <2> DEFINE tree == [p \in Paths |-> IF index[p] = Absent THEN Absent ELSE files[p]]
             commit == [by |-> "user", tree |-> tree]
  <2>1. /\ pc # "stage" /\ pc' = pc /\ disturbed' = "yes"
        /\ moves < MaxMoves /\ moves' = moves + 1
        /\ refs' = [refs EXCEPT ![head] = Append(@, commit)] /\ index' = tree
        /\ UNCHANGED <<head, files, before, prepared, mode, bound, seen, verdict,
                       gates, faults>>
    BY <1>28 DEF CommitAll, Moving, Running, record, control
  <2>2. moves' \in 0..MaxMoves
    BY <1>0, <2>1, TreeAssumption DEF Typed
  <2>3. tree \in Trees /\ commit \in Commit /\ commit.by = "user"
    BY <1>0 DEF Typed, Trees, Absent, Merged, Commit
  <2> HIDE DEF tree, commit
  <2>4. refs' \in [Branches -> Histories] /\ Grown'
    BY <2>1, <2>3, UserCommits
  <2>5. Typed'
    BY <1>0, <2>1, <2>2, <2>3, <2>4 DEF Typed
  <2>6. Bound'
    BY <1>0, <2>1 DEF Bound, Applying
  <2> QED
    BY <2>4, <2>5, <2>6 DEF BranchInv
<1>29. ASSUME NEW b \in Branches, Switch(b) PROVE BranchInv'
  <2>1. /\ pc # "stage" /\ pc' = pc /\ disturbed' = "yes" /\ head' = b
        /\ moves < MaxMoves /\ moves' = moves + 1
        /\ ReadTree(refs[head], refs[b])
        /\ UNCHANGED <<refs, before, prepared, mode, bound, seen, verdict, gates,
                       faults>>
    BY <1>29 DEF Switch, Moving, Running, HEAD, record, control
  <2>2. moves' \in 0..MaxMoves
    BY <1>0, <2>1, TreeAssumption DEF Typed
  <2>3. index' \in Trees /\ files' \in Trees
    BY <1>0, <2>1, ReadTreeTyped DEF Typed
  <2>4. Typed'
    BY <1>0, <2>1, <2>2, <2>3 DEF Typed
  <2>5. Bound'
    BY <1>0, <2>1 DEF Bound, Applying
  <2>6. Grown'
    BY <1>0, <2>1, GrownStays
  <2> QED
    BY <2>4, <2>5, <2>6 DEF BranchInv
<1>30. CASE UNCHANGED vars
  <2>1. pc' = pc /\ UNCHANGED <<refs, head, index, files, before, prepared, mode, bound,
                       seen, verdict, gates, disturbed, moves, faults>>
    BY <1>30 DEF vars, checkout, record, control
  <2>2. Integrated' = Integrated
    BY <2>1 DEF Integrated, Tested
  <2> QED
    BY <1>0, <2>1, <2>2 DEF BranchInv, Typed, Bound, Grown, Holds, Applying
<1> QED
  BY <1>1, <1>2, <1>3, <1>4, <1>5, <1>6, <1>7, <1>8, <1>9, <1>10, <1>11, <1>12, <1>13,
     <1>14, <1>15, <1>16, <1>17, <1>18, <1>19, <1>20, <1>21, <1>23, <1>24, <1>25, <1>26,
     <1>27, <1>28, <1>29, <1>30 DEF Next, Transaction, User
----------------------------------------------------------------------------
LEMMA FirstInit == Init => FailedInv
<1> SUFFICES ASSUME Init PROVE FailedInv
  OBVIOUS
<1>1. BranchInv
  BY BranchInit
<1>2. \A b \in Branches : ~Ends(b)
  BY <1>1, StartFacts DEF Init, BranchInv, Grown, Typed, Ends
<1> QED
  BY <1>1, <1>2, TreeAssumption DEF Init, FailedInv, FirstTry

(* update-ref has taken the candidate back: no branch ends with it.        *)
LEMMA TakenBack ==
  ASSUME FailedInv, mode = "fresh", pc \in Moved, pc' \in Moved \cup {"failing"},
         MoveBack, UNCHANGED <<before, verdict>>
  PROVE  \A b \in Branches : ~Ends(b)'
<1>1. BranchInv /\ Typed /\ pc # "stage" /\ bound \in Branches
  BY DEF FailedInv, BranchInv, Bound, Moved
<1>2. verdict' # "accepted" /\ pc' \notin Preparing /\ pc' \notin {"stage", "accept"}
  BY <1>1, TreeAssumption DEF Typed, Moved, Preparing
<1>3. /\ refs' \in [Branches -> Histories]
      /\ \A b \in Branches \ {bound} : refs'[b] = refs[b]
      /\ refs'[bound] # Integrated
      /\ refs'[bound] = refs[bound] \/ refs'[bound] = before
  BY <1>1, <1>2, MovedBack
<1>4. \A b \in Branches : Ends(b) => b = bound /\ refs[b] = Integrated
  BY <1>1, NoMixing DEF FailedInv, FirstTry
<1>5. Last(before).by = "user"
  BY <1>1, StartFacts DEF BranchInv, Typed, Grown
<1> QED
  BY <1>1, <1>3, <1>4, <1>5 DEF Ends

LEMMA FirstStep ==
  ASSUME FailedInv, [Next]_vars
  PROVE  FailedInv'
<1>0. BranchInv /\ BranchInv' /\ Typed /\ Bound /\ Grown /\ FirstTry
  BY BranchStep DEF FailedInv, BranchInv
<1> SUFFICES FirstTry'
  BY <1>0 DEF FailedInv
(* A step that leaves the branches and the mode alone.                     *)
<1>1. ASSUME UNCHANGED <<refs, mode, bound>>, pc # "done",
             verdict' = verdict \/ verdict' \in {"accepted", "blocked"},
             mode = "fresh" /\ pc' \in Preparing \cup {"stage", "capture", "follow", "reset", "failing"}
                => \A b \in Branches : ~Ends(b)
      PROVE  FirstTry'
  BY <1>0, <1>1 DEF FirstTry, Ends
<1>2. ASSUME Stage PROVE FirstTry'
  BY <1>0, <1>1, <1>2 DEF Stage, Goto, checkout, control, FirstTry
<1>3. ASSUME Capture PROVE FirstTry'
  <2>1. pc = "capture" /\ UNCHANGED <<refs, mode, verdict>>
    BY <1>3 DEF Capture, checkout
  <2> QED
    BY <1>0, <2>1 DEF FirstTry, Ends
<1>4. ASSUME Test \/ Check("check", "record") \/ Check("recorded", "swap") \/ RecordPrepared
      PROVE  FirstTry'
  <2>1. pc \in Preparing /\ UNCHANGED <<refs, mode, bound, verdict>>
    BY <1>4 DEF Test, Check, RecordPrepared, Preparing, checkout, control
  <2> QED
    BY <1>0, <1>1, <2>1 DEF FirstTry, Preparing
<1>5. ASSUME Swap PROVE FirstTry'
  <2>1. pc = "swap" /\ UNCHANGED <<mode, bound, verdict>> /\ bound \in Branches
    BY <1>0, <1>5 DEF Swap, control, Bound, Preparing
  <2>2. mode # "recheck" /\ verdict # "failed"
    BY <1>0, <2>1 DEF FirstTry
  <2>3. mode = "fresh" => \A b \in Branches : ~Ends(b)
    BY <1>0, <2>1 DEF FirstTry, Preparing
  <2>4. CASE refs[bound] = before
    <3>1. pc' = "bound" /\ \A b \in Branches \ {bound} : refs'[b] = refs[b]
      BY <1>0, <1>5, <2>4 DEF Swap, Goto, Typed
    <3> QED
      BY <2>1, <2>2, <2>3, <3>1 DEF FirstTry, Ends, Preparing
  <2>5. CASE refs[bound] # before
    BY <1>1, <1>5, <2>1, <2>3, <2>5 DEF Swap
  <2> QED
    BY <2>4, <2>5
<1>6. ASSUME CheckBranch \/ CheckFiles \/ Refresh \/ CheckHead \/ CheckApplied \/ Accept
             \/ Preserve \/ Look
      PROVE  FirstTry'
  <2>1. UNCHANGED <<refs, mode, bound>> /\ pc # "done" /\ (verdict' = verdict \/ verdict' = "accepted")
    BY <1>6 DEF CheckBranch, CheckFiles, Refresh, CheckHead, CheckApplied, Accept, Preserve, Look,
       End, checkout, control
  <2>2. pc' \in {"unedited", "withdraw", "refresh", "refreshed", "applied", "unbind", "accept",
                 "preserve", "done", "look", "back"}
    BY <1>6 DEF CheckBranch, CheckFiles, Refresh, CheckHead, CheckApplied, Accept, Preserve, Look,
       End, Goto
  <2> QED
    BY <1>1, <2>1, <2>2 DEF Preparing
<1>7. ASSUME Withdraw \/ Unbind \/ Back PROVE FirstTry'
  <2>1. pc \in {"withdraw", "unbind", "back"} /\ MoveBack
        /\ UNCHANGED <<before, mode, bound, verdict>>
    BY <1>7 DEF Withdraw, Unbind, Back, record, control
  <2>2. pc' \in Moved \cup {"failing"}
    BY <1>7 DEF Withdraw, Unbind, Back, Goto, Fail, Moved
  <2>3. mode = "fresh" => \A b \in Branches : ~Ends(b)'
    BY <2>1, <2>2, TakenBack DEF Moved
  <2>4. mode # "recheck" /\ verdict # "failed"
    BY <1>0, <2>1 DEF FirstTry
  <2> QED
    BY <2>1, <2>3, <2>4 DEF FirstTry
<1>8. ASSUME Follow PROVE FirstTry'
  BY <1>0, <1>1, <1>8 DEF Follow, record, control, FirstTry
<1>9. ASSUME Reset PROVE FirstTry'
  <2>1. pc = "reset" /\ UNCHANGED <<refs, mode, bound>> /\ mode # "recheck"
    BY <1>0, <1>9 DEF Reset, record, FirstTry
  <2>2. verdict' = verdict \/ verdict' = "blocked"
    BY <1>9, <2>1 DEF Reset, End
  <2> QED
    BY <1>0, <1>1, <2>1, <2>2 DEF FirstTry
<1>10. ASSUME Interrupt PROVE FirstTry'
  <2>1. /\ pc \in {"record", "recorded", "swap", "bound", "unedited", "withdraw", "refresh",
                   "refreshed", "unbind", "follow"}
        /\ UNCHANGED <<refs, mode, bound, verdict>>
        /\ pc' = IF refs[bound] = Integrated THEN "preserve" ELSE "failing"
    BY <1>10 DEF Interrupt, Goto, checkout, control
  <2>2. mode = "fresh" /\ refs[bound] # Integrated => \A b \in Branches : ~Ends(b)
    BY <1>0, <2>1, NoMixing DEF FirstTry
  <2>3. mode = "fresh" /\ pc' \in Preparing \cup {"stage", "capture", "follow", "reset", "failing"}
           => \A b \in Branches : ~Ends(b)
    BY <2>1, <2>2 DEF Preparing
  <2> QED
    BY <1>1, <2>1, <2>3
<1>11. ASSUME Failing PROVE FirstTry'
  <2>1. pc = "failing" /\ refs' = refs
    BY <1>11 DEF Failing, checkout
  <2>2. CASE mode = "fresh"
    <3>1. \A b \in Branches : ~Ends(b)
      BY <1>0, <2>1, <2>2 DEF FirstTry
    <3>2. Last(Integrated).by = "aiflow" /\ head \in Branches
      BY <1>0, <2>1, CandidateFacts DEF Typed
    <3>3. ~InPlace /\ ~Unrefreshed
      BY <3>1, <3>2 DEF InPlace, Unrefreshed, HEAD, Ends
    <3>4. mode' = "recheck" /\ pc' = "done" /\ verdict' = "failed"
      BY <1>11, <2>2, <3>3 DEF Failing, Recover, End, Goto
    <3> QED
      BY <2>1, <3>1, <3>4 DEF FirstTry, Ends
  <2>3. CASE mode # "fresh"
    <3>1. mode' = mode /\ pc' = "done" /\ verdict' = "blocked" /\ mode # "recheck"
      BY <1>0, <1>11, <2>1, <2>3 DEF Failing, End, Goto, FirstTry
    <3> QED
      BY <2>3, <3>1 DEF FirstTry
  <2> QED
    BY <2>2, <2>3
<1>12. ASSUME Resume PROVE FirstTry'
  <2>1. mode' \in {"reapply", "resume"} /\ (verdict' = verdict \/ verdict' = "blocked")
    BY <1>12 DEF Resume, Recover, End
  <2>2. verdict # "failed"
    BY <1>0, <1>12, TreeAssumption DEF Resume, Typed
  <2> QED
    BY <2>1, <2>2 DEF FirstTry
<1>13. ASSUME Crash \/ TornRefresh PROVE FirstTry'
  BY <1>1, <1>13 DEF Crash, TornRefresh, Running, Goto, checkout, control, Preparing
<1>14. ASSUME NEW p \in Paths, Edit(p) PROVE FirstTry'
  BY <1>0, <1>14 DEF Edit, Moving, control, FirstTry, Ends
<1>15. ASSUME NEW b \in Branches, Switch(b) PROVE FirstTry'
  BY <1>0, <1>15 DEF Switch, Moving, control, FirstTry, Ends
<1>16. ASSUME CommitAll PROVE FirstTry'
  <2> DEFINE tree == [p \in Paths |-> IF index[p] = Absent THEN Absent ELSE files[p]]
             commit == [by |-> "user", tree |-> tree]
  <2>1. /\ UNCHANGED <<pc, mode, bound, verdict>>
        /\ refs' = [refs EXCEPT ![head] = Append(@, commit)]
    BY <1>16 DEF CommitAll, Moving, control
  <2>2. commit \in Commit /\ commit.by = "user"
    BY <1>0 DEF Typed, Trees, Absent, Merged, Commit
  <2> HIDE DEF tree, commit
  <2>3. Last(refs'[head]).by = "user" /\ \A b \in Branches \ {head} : refs'[b] = refs[b]
    <3>1. refs \in [Branches -> Histories] /\ head \in Branches
      BY <1>0 DEF Typed
    <3>2. refs'[head] = Append(refs[head], commit)
      BY <2>1, <3>1
    <3> QED
      BY <2>1, <2>2, <3>1, <3>2, AppendFacts
  <2>4. \A b \in Branches : Ends(b)' => Ends(b)
    BY <2>3 DEF Ends
  <2> QED
    BY <1>0, <2>1, <2>4 DEF FirstTry
<1>17. CASE UNCHANGED vars
  BY <1>0, <1>17 DEF vars, checkout, control, FirstTry, Ends
<1> QED
  BY <1>2, <1>3, <1>4, <1>5, <1>6, <1>7, <1>8, <1>9, <1>10, <1>11, <1>12, <1>13, <1>14,
     <1>15, <1>16, <1>17 DEF Next, Transaction, User
----------------------------------------------------------------------------
LEMMA OriginFacts ==
  /\ Origin \in Histories /\ Tree(Origin) = BaseTree
  /\ ~Contains(Authors(Origin), "aiflow")
<1>1. BaseTree \in Trees
  BY TreeAssumption DEF Trees, Merged, Absent, Base
<1>2. [by |-> "user", tree |-> BaseTree] \in Commit
  BY <1>1 DEF Commit
<1>3. Origin \in Histories
  BY <1>2 DEF Origin, Histories
<1>4. Tree(Origin) = BaseTree
  BY <1>3, HistoryFacts DEF Tree, Origin
<1>5. ~Contains(Authors(Origin), "aiflow")
  BY DEF Contains, Authors, Origin
<1> QED
  BY <1>3, <1>4, <1>5

(* read-tree brings a clean checkout to the other commit.                  *)
LEMMA CleanRead ==
  ASSUME NEW from \in Histories, NEW to \in Histories, CleanAt(from)
  PROVE  /\ CanRead(from, to)
         /\ ReadTree(from, to) => index' = Tree(to) /\ files' = Tree(to)
<1>1. Tree(from) \in Trees /\ Tree(to) \in Trees /\ index = Tree(from) /\ files = Tree(from)
  BY HistoryFacts DEF CleanAt
<1>2. CanRead(from, to)
  BY <1>1 DEF CanRead, Untracked, Updated
<1>3. ASSUME ReadTree(from, to) PROVE index' = Tree(to) /\ files' = Tree(to)
  <2>1. index' = Over(index, Updated(from, to), to) /\ files' = Over(index, Updated(from, to), to)
    BY <1>1, <1>2, <1>3 DEF ReadTree
  <2>2. Over(index, Updated(from, to), to) = [p \in Paths |-> Tree(to)[p]]
    BY <1>1 DEF Over, Updated, Changed
  <2>3. Tree(to) = [p \in Paths |-> Tree(to)[p]]
    BY <1>1 DEF Trees
  <2> QED
    BY <2>1, <2>2, <2>3
<1> QED
  BY <1>2, <1>3

LEMMA CourseInit == Init => CourseInv
<1> SUFFICES ASSUME Init PROVE CourseInv
  OBVIOUS
<1>1. BranchInv
  BY BranchInit
<1>2. NotMoved /\ CleanAt(Origin)
  BY OriginFacts DEF Init, NotMoved, Origin, CleanAt
<1> QED
  BY <1>1, <1>2 DEF Init, CourseInv, OnCourse, Preparing, Moved

(* A crash inside read-tree leaves files between the two trees, ...        *)
LEMMA TearsFiles ==
  ASSUME BranchInv, disturbed = "no", OnCourse, TornRefresh
  PROVE  Torn'
<1>1. PICK some \in (SUBSET Updated(before, Integrated)) \ {{}} :
         files' = Over(files, some, Integrated)
  BY DEF TornRefresh
<1>2. /\ pc = "refresh" /\ pc' = "down" /\ disturbed' = "torn"
      /\ UNCHANGED <<refs, head, index, before, prepared>>
  BY DEF TornRefresh, Goto, record
<1>3. /\ before = Origin /\ IsMoved /\ CleanAt(Origin) /\ bound = head /\ prepared = head
  BY <1>2 DEF OnCourse, BranchInv, Bound, Preparing, Moved
<1>4. PICK p \in some : p \in Paths /\ Tree(Origin)[p] # Tree(Integrated)[p]
  <2>1. some # {} /\ some \subseteq Updated(before, Integrated)
    BY <1>1
  <2>2. PICK p : p \in some
    BY <2>1
  <2> QED
    BY <1>3, <2>1, <2>2 DEF Updated, Changed
<1>5. index'[p] = Tree(Origin)[p] /\ files'[p] = Tree(Integrated)[p]
  BY <1>1, <1>2, <1>3, <1>4 DEF CleanAt, Over
<1>6. Integrated' = Integrated
  BY <1>2 DEF Integrated, Tested
<1>7. ~CleanAt(Origin)' /\ ~CleanAt(Integrated)'
  BY <1>4, <1>5, <1>6 DEF CleanAt
<1>8. IsMoved'
  BY <1>2, <1>3, <1>6 DEF IsMoved
<1> QED
  BY <1>2, <1>3, <1>7, <1>8 DEF Torn

(* ... and no step but the one that blocks the task follows.               *)
LEMMA TornStep ==
  ASSUME BranchInv, Torn, [Next]_vars, disturbed' # "yes"
  PROVE  Torn'
<1>1. before \in Histories /\ Integrated # before /\ head \in Branches
  BY CandidateFacts DEF BranchInv, Typed, Torn
<1>2. CASE Resume
  <2>1. /\ pc = "down" /\ prepared = head /\ ~CleanAt(Origin) /\ ~CleanAt(Integrated)
    BY <1>2 DEF Resume, Torn
  <2>2. HEAD = Integrated /\ HEAD # before /\ before = Origin
    BY <1>1 DEF Torn, IsMoved, HEAD
  <2>3. ~InPlace /\ ~Unrefreshed
    BY <2>1, <2>2 DEF InPlace, Unrefreshed, Clean
  <2>4. pc' = "done" /\ verdict' = "blocked"
    BY <1>2, <2>2, <2>3 DEF Resume, Recover, End, Goto
  <2>5. UNCHANGED <<refs, head, index, files, before, prepared, disturbed>>
    BY <1>2 DEF Resume, checkout, record
  <2> QED
    BY <2>4, <2>5 DEF Torn, IsMoved, Integrated, Tested
<1>3. CASE UNCHANGED vars
  BY <1>3 DEF vars, checkout, record, control, Torn, IsMoved, CleanAt, Integrated, Tested
<1>4. (~Failing /\ ~Transaction) \/ Resume
  BY DEF Torn, Transaction, Stage, Capture, Test, Check, RecordPrepared, Swap, CheckBranch,
     CheckFiles, Withdraw, Refresh, CheckHead, Unbind, Follow, CheckApplied, Accept,
     Preserve, Look, Back, Reset, Interrupt, Failing, Crash, Running, TornRefresh
<1>5. ~User
  BY DEF User, CommitAll, Edit, Switch, Moving
<1> QED
  BY <1>2, <1>3, <1>4, <1>5 DEF Next

LEMMA CourseStep ==
  ASSUME CourseInv, [Next]_vars
  PROVE  CourseInv'
<1>0. BranchInv /\ BranchInv' /\ Typed /\ Bound
  BY BranchStep DEF CourseInv, BranchInv
<1> SUFFICES ASSUME gates', disturbed' # "yes"
             PROVE  Torn' \/ (disturbed' = "no" /\ OnCourse')
  BY <1>0 DEF CourseInv
<1>1. (gates' = gates /\ disturbed' = disturbed) \/ disturbed' = "yes" \/ TornRefresh
  BY DEF Next, Transaction, User, Stage, Capture, Test, Check, RecordPrepared, Swap, CheckBranch,
     CheckFiles, Withdraw, Refresh, CheckHead, Unbind, Follow, CheckApplied, Accept,
     Preserve, Look, Back, Reset, Interrupt, Failing, Resume, Crash,
     CommitAll, Edit, Switch, Moving, control, vars
<1>2. gates' = gates /\ disturbed # "yes"
  BY <1>1 DEF TornRefresh, control
<1>3. gates /\ (Torn \/ (disturbed = "no" /\ OnCourse))
  BY <1>2 DEF CourseInv
<1>4. CASE Torn
  BY <1>0, <1>4, TornStep
<1> SUFFICES ASSUME disturbed = "no", OnCourse
             PROVE  Torn' \/ (disturbed' = "no" /\ OnCourse')
  BY <1>3, <1>4
<1>5. CASE TornRefresh
  BY <1>0, <1>5, TearsFiles
<1> SUFFICES ASSUME ~TornRefresh PROVE disturbed' = "no" /\ OnCourse'
  BY <1>5
<1>6. gates /\ OnCourse /\ disturbed' = "no"
  BY <1>1, <1>3
<1> SUFFICES OnCourse'
  BY <1>6
(* How a step may leave the branches and the files.                        *)
<1>7. Origin \in Histories /\ Tree(Origin) = BaseTree /\ ~Contains(Authors(Origin), "aiflow")
  BY OriginFacts
<1>8. pc # "stage" => /\ before = Origin /\ Integrated \in Histories /\ Integrated # Origin
                      /\ before' = before => Integrated' = Integrated
  BY <1>6, <1>7, CandidateFacts DEF OnCourse, Integrated, Tested
<1>9. CASE Stage
  <2>1. pc = "stage" /\ pc' = "capture" /\ before' = refs[head] /\ UNCHANGED <<refs, head, index, files, mode>>
    BY <1>9 DEF Stage, Goto, HEAD, checkout, control
  <2>2. NotMoved /\ CleanAt(Origin) /\ head \in Branches
    BY <1>0, <1>6, <2>1 DEF OnCourse, Typed
  <2> QED
    BY <1>6, <2>1, <2>2 DEF OnCourse, NotMoved, CleanAt, Preparing, Moved
<1>10. ASSUME pc \in Preparing \cup {"capture"}
      PROVE  /\ NotMoved /\ CleanAt(Origin) /\ head \in Branches /\ HEAD = Origin /\ before = Origin
             /\ Clean /\ Applying
             /\ pc \in Preparing => bound = head
  BY <1>0, <1>6, <1>10 DEF OnCourse, Typed, Bound, NotMoved, HEAD, Clean, Preparing
<1>11. ASSUME pc \in Preparing \cup {"capture"}, pc' \in Preparing, bound' = head,
             UNCHANGED <<refs, head, index, files, before, mode>>
      PROVE  OnCourse'
  BY <1>6, <1>10, <1>11 DEF OnCourse, NotMoved, CleanAt, Preparing, Moved
<1>12. CASE Capture
  <2>1. pc = "capture" /\ UNCHANGED <<refs, head, index, files, before, mode>>
    BY <1>12 DEF Capture, checkout, record
  <2>2. bound' = head /\ pc' = "test"
    BY <1>10, <1>12, <2>1 DEF Capture, Goto
  <2> QED
    BY <1>11, <2>1, <2>2 DEF Preparing
<1>13. CASE Test
  <2>1. pc = "test" /\ UNCHANGED <<refs, head, index, files, before, mode, bound>>
    BY <1>13 DEF Test, checkout, record, control
  <2>2. ~Conflict
    BY <1>7, <1>10, <2>1 DEF Conflict, Preparing
  <2>3. pc' = "check" /\ bound = head
    BY <1>6, <1>7, <1>10, <1>13, <2>1, <2>2 DEF Test, Goto, Preparing
  <2> QED
    BY <1>11, <2>1, <2>3 DEF Preparing
<1>14. CASE Check("check", "record") \/ Check("recorded", "swap")
  <2>1. pc \in Preparing /\ UNCHANGED <<refs, head, index, files, before, mode, bound>>
    BY <1>14 DEF Check, checkout, record, control, Preparing
  <2>2. pc' \in Preparing /\ bound = head
    BY <1>10, <1>14, <2>1 DEF Check, Undrifted, Goto, Preparing
  <2> QED
    BY <1>11, <2>1, <2>2 DEF Preparing
<1>15. CASE RecordPrepared
  <2>1. pc = "record" /\ pc' = "recorded" /\ UNCHANGED <<refs, head, index, files, before, mode, bound>>
    BY <1>6, <1>15 DEF RecordPrepared, Goto, checkout, control
  <2> QED
    BY <1>10, <1>11, <2>1 DEF Preparing
<1>16. CASE Swap
  <2>1. pc = "swap" /\ UNCHANGED <<head, index, files, before, mode, bound>>
    BY <1>16 DEF Swap, record, control
  <2>2. NotMoved /\ CleanAt(Origin) /\ before = Origin /\ bound = head /\ head \in Branches
    BY <1>10, <2>1 DEF Preparing
  <2>3. pc' = "bound" /\ refs' = [refs EXCEPT ![bound] = Integrated]
    BY <1>16, <2>2 DEF Swap, Goto, NotMoved
  <2>4. IsMoved'
    BY <1>0, <1>8, <2>1, <2>2, <2>3 DEF IsMoved, NotMoved, Typed
  <2> QED
    BY <1>6, <2>1, <2>2, <2>3, <2>4 DEF OnCourse, CleanAt, Preparing, Moved
<1>17. ASSUME pc \in {"bound", "unedited", "refresh", "refreshed", "applied"}
       PROVE  /\ IsMoved /\ head \in Branches /\ HEAD = Integrated /\ before = Origin
              /\ bound = head /\ prepared = head
              /\ pc \in {"bound", "unedited", "refresh"} => CleanAt(before)
              /\ pc \in {"refreshed", "applied"} => CleanAt(Integrated) /\ Clean
  BY <1>0, <1>6, <1>17 DEF OnCourse, Typed, Bound, IsMoved, HEAD, Clean, Preparing, Moved
<1>18. CASE CheckBranch \/ CheckFiles
  <2>1. pc \in {"bound", "unedited"} /\ UNCHANGED <<refs, head, index, files, before, mode, bound>>
    BY <1>18 DEF CheckBranch, CheckFiles, checkout, record, control
  <2>2. pc' \in {"unedited", "refresh"}
    BY <1>17, <1>18, <2>1 DEF CheckBranch, CheckFiles, Goto
  <2> QED
    BY <1>6, <1>8, <1>17, <2>1, <2>2 DEF OnCourse, IsMoved, CleanAt, Preparing, Moved
<1>19. CASE Refresh
  <2>1. pc = "refresh" /\ ReadTree(before, Integrated)
        /\ UNCHANGED <<refs, head, before, mode, bound>>
    BY <1>19 DEF Refresh, record, control
  <2>2. CanRead(before, Integrated) /\ index' = Tree(Integrated) /\ files' = Tree(Integrated)
    BY <1>7, <1>8, <1>17, <2>1, CleanRead
  <2>3. pc' = "refreshed"
    BY <1>19, <2>2 DEF Refresh, Goto
  <2> QED
    BY <1>6, <1>8, <1>17, <2>1, <2>2, <2>3 DEF OnCourse, IsMoved, CleanAt, Tree, Preparing, Moved
<1>20. CASE CheckHead \/ CheckApplied
  <2>1. pc \in {"refreshed", "applied"}
        /\ UNCHANGED <<refs, head, index, files, before, prepared, mode, bound>>
    BY <1>20 DEF CheckHead, CheckApplied, checkout, record, control
  <2>2. pc' \in {"applied", "accept"}
    BY <1>17, <1>20, <2>1 DEF CheckHead, CheckApplied, Undrifted, Goto
  <2> QED
    BY <1>6, <1>8, <1>17, <2>1, <2>2 DEF OnCourse, IsMoved, CleanAt, Preparing, Moved
<1>21. CASE Accept
  <2>1. pc = "accept" /\ pc' = "done" /\ verdict' = "accepted"
        /\ UNCHANGED <<refs, head, index, files, before, mode>>
    BY <1>21 DEF Accept, End, Goto, checkout, record
  <2> QED
    BY <1>6, <1>8, <2>1 DEF OnCourse, IsMoved, CleanAt, Preparing, Moved
<1>22. CASE Resume
  <2>1. pc = "down" /\ UNCHANGED <<refs, head, index, files, before, prepared>>
    BY <1>6, <1>22 DEF Resume, OnCourse, checkout, record, Preparing
  <2>2. CASE NotMoved /\ CleanAt(Origin)
    <3>1. HEAD = before
      BY <1>0, <1>8, <2>1, <2>2 DEF NotMoved, HEAD, Typed
    <3>2. mode' = "reapply" /\ pc' = "capture"
      BY <1>22, <3>1 DEF Resume, Goto
    <3> QED
      BY <1>6, <2>1, <2>2, <3>2 DEF OnCourse, NotMoved, CleanAt, Preparing, Moved
  <2>3. CASE IsMoved /\ prepared = head /\ (CleanAt(Origin) \/ CleanAt(Integrated))
    <3>1. HEAD = Integrated /\ HEAD # before /\ prepared # None
      BY <1>0, <1>8, <2>1, <2>3, TreeAssumption DEF IsMoved, HEAD, Typed
    <3>2. Recover("resume", "blocked")
      BY <1>22, <3>1 DEF Resume
    <3>3. CASE InPlace
      <4>1. mode' = "resume" /\ pc' = "accept" /\ CleanAt(Integrated)
        BY <3>1, <3>2, <3>3 DEF Recover, Goto, InPlace, Clean
      <4> QED
        BY <1>6, <1>8, <2>1, <2>3, <4>1 DEF OnCourse, IsMoved, CleanAt, Preparing, Moved
    <3>4. CASE ~InPlace
      <4>1. CleanAt(before) /\ Unrefreshed
        BY <1>8, <2>1, <2>3, <3>1, <3>4 DEF InPlace, Unrefreshed, Clean
      <4>2. mode' = "resume" /\ pc' = "refresh" /\ bound' = prepared
        BY <3>2, <3>4, <4>1 DEF Recover, Goto
      <4> QED
        BY <1>6, <1>8, <2>1, <2>3, <4>1, <4>2 DEF OnCourse, IsMoved, CleanAt, Preparing, Moved
    <3> QED
      BY <3>3, <3>4
  <2> QED
    BY <1>6, <2>1, <2>2, <2>3 DEF OnCourse, Preparing
<1>23. CASE Crash
  <2>1. pc \notin {"stage", "down", "done"} /\ pc' = "down"
        /\ UNCHANGED <<refs, head, index, files, before, prepared, mode, bound>>
    BY <1>23 DEF Crash, Running, Goto, checkout, record, control
  <2>2. \/ NotMoved /\ CleanAt(Origin)
        \/ IsMoved /\ prepared = head /\ (CleanAt(Origin) \/ CleanAt(Integrated))
    BY <1>6, <1>8, <1>17, <2>1 DEF OnCourse
  <2> QED
    BY <1>6, <1>8, <2>1, <2>2 DEF OnCourse, NotMoved, IsMoved, CleanAt, Preparing, Moved
<1>24. CASE UNCHANGED vars
  BY <1>6, <1>8, <1>24 DEF vars, checkout, record, control, OnCourse, NotMoved, IsMoved, CleanAt,
                     Integrated, Tested
<1>25. ~(Withdraw \/ Unbind \/ Follow \/ Preserve \/ Look \/ Back \/ Reset \/ Failing)
  BY <1>6 DEF OnCourse, Preparing, Withdraw, Unbind, Follow, Preserve, Look, Back, Reset, Failing
<1>26. ~(Interrupt \/ CommitAll \/ \E p \in Paths : Edit(p) \/ \E b \in Branches : Switch(b))
  BY <1>6 DEF Interrupt, CommitAll, Edit, Switch, Moving
<1> QED
  BY <1>9, <1>12, <1>13, <1>14, <1>15, <1>16, <1>18, <1>19, <1>20, <1>21, <1>22, <1>23,
     <1>24, <1>25, <1>26 DEF Next, Transaction, User
----------------------------------------------------------------------------
(* What read-tree may replace is clean, so an edit it replaces is in a     *)
(* commit that before, and therefore some branch, still has.               *)
LEMMA EditIsCommitted ==
  ASSUME BranchInv, pc # "stage", NEW from \in {before, Integrated}, NEW to,
         CanRead(from, to), NEW p \in Updated(from, to), IsEdit(files[p])
  PROVE  \E b \in Branches : \E i \in DOMAIN refs[b] : refs[b][i].tree[p] = files[p]
<1>1. before \in Histories /\ refs \in [Branches -> Histories] /\ files \in Trees
  BY DEF BranchInv, Typed
<1>2. p \in Paths
  BY DEF Updated, Changed
<1>3. files[p] = Tree(from)[p]
  BY DEF CanRead, IsEdit, Absent, Merged
<1>4. Tree(from)[p] = Tree(before)[p]
  <2>1. CASE from = before
    BY <2>1
  <2>2. CASE from = Integrated
    <3>1. Tree(from) = Tested
      BY <1>1, <2>2, CandidateFacts DEF Tree
    <3>2. p \notin Touched
      BY <1>2, <1>3, <3>1 DEF Tested, IsEdit, Merged
    <3> QED
      BY <1>2, <3>1, <3>2 DEF Tested
  <2> QED
    BY <2>1, <2>2
<1>5. PICK b \in Branches : StartsWith(refs[b], before)
  BY DEF BranchInv, Grown
<1>6. /\ Len(before) \in DOMAIN before /\ Len(before) \in DOMAIN refs[b]
      /\ Last(before) = before[Len(before)]
  BY <1>1, <1>5, HistoryFacts DEF StartsWith
<1>7. refs[b][Len(before)] = before[Len(before)]
  BY <1>5, <1>6 DEF StartsWith
<1> QED
  BY <1>3, <1>4, <1>6, <1>7 DEF Tree

LEMMA ReadKeepsEdits ==
  ASSUME BranchInv, pc # "stage", NEW from \in {before, Integrated}, NEW to \in Histories,
         ReadTree(from, to), refs' = refs, NEW p \in Paths, IsEdit(files[p])
  PROVE  \/ files'[p] = files[p]
         \/ \E b \in Branches : \E i \in DOMAIN refs'[b] : refs'[b][i].tree[p] = files[p]
<1>1. files \in Trees
  BY DEF BranchInv, Typed
<1>2. CASE CanRead(from, to) /\ p \in Updated(from, to)
  BY <1>2, EditIsCommitted
<1>3. CASE ~(CanRead(from, to) /\ p \in Updated(from, to))
  BY <1>1, <1>3 DEF ReadTree, Over, Trees
<1> QED
  BY <1>2, <1>3

StepKeepsWork ==
    pc' # pc =>
       \A p \in Paths : IsEdit(files[p]) =>
         \/ files'[p] = files[p]
         \/ <<p, files[p]>> \in saved'
         \/ \E b \in Branches : \E i \in DOMAIN refs'[b] :
              refs'[b][i].tree[p] = files[p]

LEMMA WorkKeptByStep ==
  ASSUME BranchInv, Next
  PROVE  StepKeepsWork
<1>0. Typed /\ Bound
  BY DEF BranchInv
<1> SUFFICES ASSUME pc' # pc, NEW p \in Paths, IsEdit(files[p])
             PROVE  \/ files'[p] = files[p]
                    \/ <<p, files[p]>> \in saved'
                    \/ \E b \in Branches : \E i \in DOMAIN refs'[b] :
                         refs'[b][i].tree[p] = files[p]
  BY DEF StepKeepsWork
<1>1. pc \in Moved => before \in Histories /\ Integrated \in Histories
  BY <1>0, CandidateFacts DEF Typed, Moved
<1>2. CASE Refresh
  BY <1>1, <1>2, ReadKeepsEdits DEF Refresh, Moved
<1>3. CASE Follow
  BY <1>0, <1>1, <1>3, ReadKeepsEdits DEF Follow, Bound, Moved
<1>4. CASE Reset
  BY <1>0, <1>1, <1>4, ReadKeepsEdits DEF Reset, Bound, Moved
<1>5. CASE TornRefresh
  <2>1. PICK some \in SUBSET Updated(before, Integrated) : files' = Over(files, some, Integrated)
    BY <1>5 DEF TornRefresh
  <2>2. pc = "refresh" /\ CanRead(before, Integrated) /\ refs' = refs
    BY <1>5 DEF TornRefresh
  <2>3. CASE p \in some
    BY <2>1, <2>2, <2>3, EditIsCommitted
  <2>4. CASE p \notin some
    BY <2>1, <2>4 DEF Over
  <2> QED
    BY <2>3, <2>4
<1>6. CASE Preserve
  BY <1>6 DEF Preserve
<1>7. files' = files \/ Refresh \/ Follow \/ Reset \/ TornRefresh \/ Preserve
  BY DEF Next, Transaction, User, Stage, Capture, Test, Check, RecordPrepared, Swap, CheckBranch,
     CheckFiles, Withdraw, CheckHead, Unbind, CheckApplied, Accept, Look, Back, Interrupt,
     Failing, Resume, Crash, CommitAll, Edit, Switch, Moving, checkout
<1> QED
  BY <1>2, <1>3, <1>4, <1>5, <1>6, <1>7
----------------------------------------------------------------------------
LEMMA AuthorsFacts ==
  ASSUME NEW c \in Histories
  PROVE  /\ Authors(c) \in Seq({"user", "aiflow"}) /\ Authors(c) # <<>>
         /\ Len(Authors(c)) = Len(c) /\ DOMAIN Authors(c) = 1..Len(c)
         /\ \A i \in 1..Len(c) : Authors(c)[i] = c[i].by
         /\ \A commit \in Commit : Authors(Append(c, commit)) = Append(Authors(c), commit.by)
<1>1. /\ Len(c) \in Nat /\ Len(c) >= 1 /\ DOMAIN c = 1..Len(c)
      /\ \A i \in 1..Len(c) : c[i].by \in {"user", "aiflow"}
  BY HistoryFacts DEF Commit
<1>2. /\ Authors(c) \in Seq({"user", "aiflow"}) /\ Len(Authors(c)) = Len(c)
      /\ DOMAIN Authors(c) = 1..Len(c) /\ \A i \in 1..Len(c) : Authors(c)[i] = c[i].by
  BY <1>1 DEF Authors
<1>3. Authors(c) # <<>>
  BY <1>1, <1>2
<1>4. ASSUME NEW commit \in Commit PROVE Authors(Append(c, commit)) = Append(Authors(c), commit.by)
  <2>1. /\ DOMAIN Append(c, commit) = 1..(Len(c) + 1)
        /\ \A i \in 1..Len(c) : Append(c, commit)[i] = c[i]
        /\ Append(c, commit)[Len(c) + 1] = commit
    BY <1>1, AppendFacts, HistoryFacts
  <2>2. commit.by \in {"user", "aiflow"}
    BY DEF Commit
  <2>3. Append(Authors(c), commit.by) = [i \in 1..(Len(c) + 1) |->
                                          IF i = Len(c) + 1 THEN commit.by ELSE c[i].by]
    BY <1>1, <1>2, <2>2
  <2>4. \A i \in 1..(Len(c) + 1) : i = Len(c) + 1 \/ i \in 1..Len(c)
    BY <1>1
  <2> QED
    BY <1>1, <2>1, <2>3, <2>4 DEF Authors
<1> QED
  BY <1>2, <1>3, <1>4

(* A commit on top, of whoever, as the abstract branches see it.           *)
LEMMA BranchGrows ==
  ASSUME refs \in [Branches -> Histories], NEW b \in Branches, NEW commit \in Commit,
         refs' = [refs EXCEPT ![b] = Append(@, commit)]
  PROVE  LET seen0 == [x \in Branches |-> Authors(refs[x])]
             seen1 == [x \in Branches |-> Authors(refs'[x])]
         IN  /\ Len(seen1[b]) = Len(seen0[b]) + 1
             /\ Last(seen1[b]) = commit.by
             /\ seen1 = [seen0 EXCEPT ![b] = Append(@, Last(seen1[b]))]
<1> DEFINE seen0 == [x \in Branches |-> Authors(refs[x])]
           seen1 == [x \in Branches |-> Authors(refs'[x])]
<1>1. refs'[b] = Append(refs[b], commit) /\ \A x \in Branches \ {b} : refs'[x] = refs[x]
  OBVIOUS
<1>2. seen1[b] = Append(Authors(refs[b]), commit.by) /\ commit.by \in {"user", "aiflow"}
  BY <1>1, AuthorsFacts DEF Commit
<1>3. Len(seen1[b]) = Len(seen0[b]) + 1 /\ Last(seen1[b]) = commit.by
  BY <1>2, AuthorsFacts DEF Last
<1>4. \A x \in Branches \ {b} : seen1[x] = seen0[x]
  BY <1>1
<1>5. seen1 = [seen0 EXCEPT ![b] = Append(@, Last(seen1[b]))]
  BY <1>2, <1>3, <1>4
<1> QED
  BY <1>3, <1>5

(* update-ref back is a withdrawal, or nothing.                            *)
LEMMA BackIsWithdrawal ==
  ASSUME BranchInv, pc \in Moved, MoveBack, verdict' = verdict
  PROVE  Target!Withdraw(bound) \/ UNCHANGED Target!target
<1>1. /\ before \in Histories /\ refs \in [Branches -> Histories] /\ bound \in Branches
      /\ OfUser(before) /\ verdict # "accepted"
  BY TreeAssumption DEF BranchInv, Typed, Bound, Grown, Moved
<1>2. CASE refs[bound] = Integrated
  <2>1. refs'[bound] = before /\ \A b \in Branches \ {bound} : refs'[b] = refs[b]
    BY <1>1, <1>2 DEF MoveBack
  <2> DEFINE commit == [by |-> "aiflow", tree |-> Tested]
  <2>2. commit \in Commit /\ Integrated = Append(before, commit)
    BY <1>1, CandidateFacts DEF Integrated, Commit
  <2>3. Authors(Integrated) = Append(Authors(before), "aiflow")
    BY <1>1, <2>2, AuthorsFacts
  <2>4. /\ Authors(Integrated) # <<>> /\ Last(Authors(Integrated)) = "aiflow"
        /\ Front(Authors(Integrated)) = Authors(before)
    <3>1. Authors(before) \in Seq({"user", "aiflow"})
      BY <1>1, AuthorsFacts
    <3> QED
      BY <2>3, <3>1 DEF Front, Last
  <2>5. [b \in Branches |-> Authors(refs[b])]' =
          [[b \in Branches |-> Authors(refs[b])] EXCEPT ![bound] = Authors(before)]
    BY <1>1, <2>1
  <2>6. ~IsUser("aiflow")
    BY DEF IsUser
  <2> QED
    BY <1>1, <1>2, <2>4, <2>5, <2>6 DEF Target!Withdraw, Target!Last, Target!Front, Last, Front
<1>3. CASE refs[bound] # Integrated
  BY <1>3 DEF MoveBack, Target!target
<1> QED
  BY <1>2, <1>3

LEMMA TargetInit == Init => Target!Init
<1> SUFFICES ASSUME Init PROVE Target!Init
  OBVIOUS
<1>1. BranchInv /\ verdict # "accepted"
  BY BranchInit, TreeAssumption DEF Init
<1>2. \A b \in Branches : refs[b] \in Histories /\ OfUser(refs[b])
  BY <1>1 DEF Init, BranchInv, Typed, Grown
<1>3. \A b \in Branches : \A i \in DOMAIN Authors(refs[b]) : Authors(refs[b])[i] = "user"
  BY <1>2, StartFacts, AuthorsFacts
<1> QED
  BY <1>1, <1>3 DEF Target!Init, IsUser

LEMMA TargetStep ==
  ASSUME BranchInv, [Next]_vars
  PROVE  [Target!Next]_(Target!target)
<1>0. Typed /\ Bound /\ Grown
  BY DEF BranchInv
<1>1. CASE Swap
  <2>1. pc = "swap" /\ bound \in Branches /\ verdict' = verdict
        /\ before \in Histories /\ refs \in [Branches -> Histories] /\ OfUser(refs[bound])
    BY <1>0, <1>1 DEF Swap, Bound, Typed, Grown, control, Preparing
  <2>2. CASE refs[bound] = before
    <3> DEFINE commit == [by |-> "aiflow", tree |-> Tested]
    <3>1. commit \in Commit /\ Integrated = Append(before, commit) /\ commit.by = "aiflow"
      BY <2>1, CandidateFacts DEF Integrated, Commit
    <3>2. refs' = [refs EXCEPT ![bound] = Append(@, commit)]
      BY <1>1, <2>1, <2>2, <3>1 DEF Swap
    <3> HIDE DEF commit
    <3>3. ~Contains(Authors(refs[bound]), "aiflow")
      BY <2>1, StartFacts, AuthorsFacts DEF Contains
    <3>4. Target!Integrate(bound)
      BY <2>1, <3>1, <3>2, <3>3, BranchGrows DEF Target!Integrate, Target!Grows, IsUser,
         Target!Last, Target!Contains, Last, Contains
    <3> QED
      BY <2>1, <3>4 DEF Target!Next
  <2>3. CASE refs[bound] # before
    BY <1>1, <2>1, <2>3 DEF Swap, Target!target
  <2> QED
    BY <2>2, <2>3
<1>2. CASE Withdraw \/ Unbind \/ Back
  <2>1. pc \in Moved /\ MoveBack /\ verdict' = verdict
    BY <1>2 DEF Withdraw, Unbind, Back, control, Moved
  <2>2. bound \in Branches
    BY <1>0, <2>1 DEF Bound
  <2> QED
    BY <2>1, <2>2, BackIsWithdrawal DEF Target!Next
<1>3. CASE Accept
  <2>1. pc = "accept" /\ verdict' = "accepted" /\ refs' = refs /\ verdict # "accepted"
    BY <1>0, <1>3, TreeAssumption DEF Accept, End, checkout, Typed
  <2>2. before \in Histories /\ refs \in [Branches -> Histories]
    BY <1>0, <2>1 DEF Typed
  <2>3. PICK b \in Branches : Holds(b)
    BY <1>0, <2>1 DEF Grown
  <2>4. /\ Len(before) + 1 \in DOMAIN Integrated
        /\ Integrated[Len(before) + 1].by = "aiflow"
        /\ Len(Integrated) = Len(before) + 1
    BY <2>2, CandidateFacts, HistoryFacts
  <2>5. /\ Len(before) + 1 \in DOMAIN Authors(refs[b])
        /\ Authors(refs[b])[Len(before) + 1] = "aiflow"
    <3>1. Len(before) + 1 \in DOMAIN refs[b] /\ refs[b][Len(before) + 1].by = "aiflow"
      BY <2>2, <2>3, <2>4, HistoryFacts DEF Holds, StartsWith
    <3> QED
      BY <2>2, <3>1, AuthorsFacts, HistoryFacts
  <2>6. ~IsUser("aiflow")
    BY DEF IsUser
  <2>7. Target!Report(b)
    BY <2>1, <2>5, <2>6 DEF Target!Report
  <2> QED
    BY <2>7 DEF Target!Next
<1>4. CASE CommitAll
  <2> DEFINE tree == [p \in Paths |-> IF index[p] = Absent THEN Absent ELSE files[p]]
             commit == [by |-> "user", tree |-> tree]
  <2>1. refs' = [refs EXCEPT ![head] = Append(@, commit)] /\ verdict' = verdict
    BY <1>4 DEF CommitAll, Moving, control
  <2>2. commit \in Commit /\ commit.by = "user"
    BY <1>0 DEF Typed, Trees, Absent, Merged, Commit
  <2>3. refs \in [Branches -> Histories] /\ head \in Branches
    BY <1>0 DEF Typed
  <2> HIDE DEF tree, commit
  <2>4. Target!Commit(head)
    BY <2>1, <2>2, <2>3, BranchGrows DEF Target!Commit, Target!Grows, IsUser,
       Target!Last, Last
  <2> QED
    BY <2>3, <2>4 DEF Target!Next
<1>5. CASE refs' = refs /\ (verdict' = verdict \/ (verdict # "accepted" /\ verdict' # "accepted"))
  BY <1>5 DEF Target!target
<1>6. \/ Swap \/ Withdraw \/ Unbind \/ Back \/ Accept \/ CommitAll
      \/ refs' = refs /\ (verdict' = verdict \/ verdict' \in {"failed", "blocked"})
  BY DEF Next, Transaction, User, Stage, Capture, Test, Check, RecordPrepared, CheckBranch,
     CheckFiles, Refresh, CheckHead, Follow, CheckApplied, Preserve, Look, Reset, Interrupt,
     Failing, Resume, Recover, End, Crash, TornRefresh, Edit, Switch, Moving, checkout, control, vars
<1>7. refs' = refs /\ verdict' \in {"failed", "blocked"} => verdict' = verdict \/ verdict # "accepted"
  <2>1. ASSUME verdict = "accepted" PROVE ~Next
    BY <1>0, <2>1, TreeAssumption DEF Typed, Next, Transaction, User, Stage, Capture, Test, Check,
       RecordPrepared, Swap, CheckBranch, CheckFiles, Withdraw, Refresh, CheckHead, Unbind, Follow,
       CheckApplied, Accept, Preserve, Look, Back, Reset, Interrupt, Failing, Resume, Crash, Running,
       TornRefresh, CommitAll, Edit, Switch, Moving
  <2> QED
    BY <2>1 DEF vars, control
<1> QED
  BY <1>1, <1>2, <1>3, <1>4, <1>5, <1>6, <1>7
----------------------------------------------------------------------------
(* Every value of the state is of its type, and a transaction that may     *)
(* move a branch knows which one, and has recorded it.                     *)
THEOREM TypeCorrect == Spec => []TypeOK
<1>1. BranchInv => TypeOK
  <2> SUFFICES ASSUME BranchInv PROVE TypeOK
    OBVIOUS
  <2>1. Typed /\ Bound
    BY DEF BranchInv
  <2>2. \A b \in Branches : \A i \in DOMAIN refs[b] :
           refs[b][i].by \in {"user", "aiflow"} /\ refs[b][i].tree \in Trees
    BY <2>1, HistoryFacts DEF Typed, Commit
  <2>3. pc \in Moved \cup {"swap"} => bound # None /\ prepared = bound
    BY <2>1, TreeAssumption DEF Bound, Preparing
  <2> QED
    BY <2>1, <2>2, <2>3 DEF Typed, TypeOK, Moved
<1> QED
  BY <1>1, BranchInit, BranchStep, PTL DEF Spec

(* README.md: a first attempt that fails leaves no branch at its candidate.*)
(* (The recovery that follows it finds nothing to recover: see FirstTry.)  *)
THEOREM FailureLeavesNothing == Spec => []FailedLeavesNothing
<1>1. FailedInv => FailedLeavesNothing
  <2> SUFFICES ASSUME FailedInv, verdict = "failed", NEW b \in Branches
               PROVE  Last(refs[b]).by = "user"
    BY DEF FailedLeavesNothing
  <2>1. ~Ends(b) /\ refs[b] \in Histories
    BY DEF FailedInv, FirstTry, BranchInv, Typed
  <2> QED
    BY <2>1, HistoryFacts DEF Ends, Commit
<1> QED
  BY <1>1, FirstInit, FirstStep, PTL DEF Spec

(* docs/OPERATIONS.md: a candidate that passes its gates and that nobody   *)
(* interferes with is integrated, however often the engine crashes, unless *)
(* a crash inside read-tree leaves it to a person, in its branch.          *)
THEOREM CrashesAreResumed == Spec => []CrashesKeepCandidate
<1>1. CourseInv => CrashesKeepCandidate
  <2> SUFFICES ASSUME CourseInv, gates, disturbed # "yes"
               PROVE  \/ verdict \in {None, "accepted"}
                      \/ verdict = "blocked" /\ disturbed = "torn" /\ HEAD = Integrated
    BY DEF CrashesKeepCandidate
  <2>1. (pc = "done" <=> verdict # None) /\ head \in Branches
    BY DEF CourseInv, BranchInv, Typed
  <2>2. CASE Torn
    BY <2>1, <2>2 DEF Torn, IsMoved, HEAD
  <2>3. CASE OnCourse
    BY <2>1, <2>3 DEF OnCourse
  <2> QED
    BY <2>2, <2>3 DEF CourseInv
<1> QED
  BY <1>1, CourseInit, CourseStep, PTL DEF Spec

(* docs/ARCHITECTURE.md: what the user has edited and not committed        *)
(* survives every step of the transaction and of its recovery.             *)
THEOREM EditsSurvive == Spec => UserWorkKept
<1>1. BranchInv /\ [Next]_vars => [StepKeepsWork]_vars
  BY WorkKeptByStep
<1>2. BranchInv /\ [Next]_vars => BranchInv'
  BY BranchStep
<1>3. Spec => [][StepKeepsWork]_vars
  BY <1>1, <1>2, BranchInit, PTL DEF Spec
<1> QED
  BY <1>3 DEF UserWorkKept, StepKeepsWork

(* The transaction implements what TargetBranch promises the user of the   *)
(* branches: they grow by whole commits, and only a candidate that is the  *)
(* last commit and has not been reported is taken back.                    *)
THEOREM TransactionImplementsTarget == Spec => ImplementsTarget
<1>1. BranchInv /\ [Next]_vars => [Target!Next]_(Target!target)
  BY TargetStep
<1>2. BranchInv /\ [Next]_vars => BranchInv'
  BY BranchStep
<1> QED
  BY <1>1, <1>2, BranchInit, TargetInit, PTL DEF Spec, ImplementsTarget, Target!Spec
=============================================================================
