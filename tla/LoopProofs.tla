----------------------------- MODULE LoopProofs -----------------------------
(***************************************************************************)
(* Theorems about Loop, and about Dispatch, which runs it, for every set   *)
(* of replies, files and scores, every expected count and every attempt    *)
(* budget.                                                                 *)
(***************************************************************************)
EXTENDS Dispatch, SequenceTheorems, TLAPS

-----------------------------------------------------------------------------
(* The inductive invariant.  None of the properties is inductive alone: each *)
(* rests on where the run is and on what its last attempt left behind.       *)

(* Where the run is. *)
Position ==
  /\ pc = "plan" => results = <<>>
  /\ pc \in {"apply", "oracle", "resolve", "finish"} => results # <<>>
  /\ results = <<>> => last_attempt = None /\ reframe = None
  /\ pc = "oracle" => Usable(Last(results)) /\ file = Extract[Last(results).text]

(* What the last attempt left: a verdict on the file now on disk, or nothing. *)
LastVerdict ==
  pc \in {"attempt", "resolve", "finish"} =>
    /\ last_attempt # None =>
         /\ Usable(Last(results))
         /\ last_attempt.source = Extract[Last(results).text]
         /\ file = last_attempt.source
         /\ entries # <<>>
         /\ Last(entries).score = last_attempt.score
    /\ last_attempt = None /\ results # <<>> => ~Usable(Last(results))
    /\ last_attempt = None /\ results # <<>> /\ pc = "attempt" => reframe = Last(results).text

(* A nonempty store has a least element under the ranking. *)
HasBest ==
  entries # <<>> => \E e \in Recorded(entries) : \A f \in Recorded(entries) : ranks_before(e, f)

(* A green verdict is the last one, and the run only finishes after it. *)
GreenStops ==
  Greens # {} =>
    /\ pc \in {"resolve", "finish", "returned"}
    /\ pc # "returned" => last_attempt # None /\ is_green(last_attempt.score)

(* What the result says of the store and of the last generation. *)
Settled ==
  pc = "returned" =>
    /\ outcome.status \in Statuses
    /\ entries = <<>> => outcome.status # "done" /\ outcome.best_score = None
    /\ entries # <<>> =>
         /\ file = best(entries).file
         /\ outcome.best_score = best(entries).score
         /\ outcome.status = "done" <=> is_green(best(entries).score)

(* The attempts spent, paid for by improvements, stalls and the correction. *)
Credit(top, missed) == 2 * (top + 1) - (IF missed = 0 /\ top # -1 THEN 1 ELSE 0)
Paid == Credit(best_passed, misses) + stalls + (IF reframe = None THEN 0 ELSE 1)
Spent ==
  /\ best_passed = -1 => misses = 0
  /\ pc \in {"plan", "attempt", "apply", "oracle", "resolve"} => stalls <= NUDGE_LADDER
  /\ pc \in {"plan", "attempt"} => Len(results) <= Paid
  /\ pc \in {"apply", "oracle", "resolve"} => Len(results) - 1 <= Paid
  /\ AttemptsBounded

IInv == TypeOK /\ Position /\ LastVerdict /\ HasBest /\ GreenStops /\ Settled /\ Spent /\ TailIsFresh

-----------------------------------------------------------------------------
(* Sequences and the ranking. *)

(* The last element of a nonempty sequence is one of its elements. *)
LEMMA LastInSeq ==
  ASSUME NEW S, NEW s \in Seq(S), s # <<>>
  PROVE  Len(s) \in DOMAIN s /\ Last(s) \in S /\ Len(s) > 0
BY DEF Last

(* The last element after an append is the appended one. *)
LEMMA LastOfAppend ==
  ASSUME NEW S, NEW s \in Seq(S), NEW x \in S
  PROVE  /\ Append(s, x) \in Seq(S) /\ Append(s, x) # <<>>
         /\ Last(Append(s, x)) = x /\ Len(Append(s, x)) = Len(s) + 1
         /\ s # <<>> => Append(s, x)[Len(Append(s, x)) - 1] = Last(s)
<1>1. Append(s, x) \in Seq(S) /\ Len(Append(s, x)) = Len(s) + 1 /\ Len(s) \in Nat
  OBVIOUS
<1>2. Append(s, x) # <<>>
  BY <1>1
<1>3. Append(s, x)[Len(s) + 1] = x
  OBVIOUS
<1>4. s # <<>> => Append(s, x)[Len(s)] = s[Len(s)]
  OBVIOUS
<1> QED BY <1>1, <1>2, <1>3, <1>4 DEF Last

(* Recording adds exactly the new entry to the recorded set. *)
LEMMA RecordedAppend ==
  ASSUME NEW S, NEW s \in Seq(S), NEW x \in S
  PROVE  Recorded(Append(s, x)) = Recorded(s) \cup {x}
<1>1. DOMAIN Append(s, x) = DOMAIN s \cup {Len(s) + 1}
  OBVIOUS
<1>2. \A i \in DOMAIN s : Append(s, x)[i] = s[i]
  OBVIOUS
<1>3. Append(s, x)[Len(s) + 1] = x
  OBVIOUS
<1> QED BY <1>1, <1>2, <1>3 DEF Recorded

(* What the store recorded is made of entries. *)
LEMMA RecordedType ==
  ASSUME NEW S, NEW s \in Seq(S)
  PROVE  Recorded(s) \subseteq S /\ (s # <<>> => Last(s) \in Recorded(s) /\ Recorded(s) # {})
BY DEF Recorded, Last

(* _rank_key orders the entries totally. *)
LEMMA RankOrder ==
  /\ \A e, f \in Entries : ranks_before(e, f) \/ ranks_before(f, e)
  /\ \A e, f, g \in Entries : ranks_before(e, f) /\ ranks_before(f, g) => ranks_before(e, g)
  /\ \A e, f \in Entries : ranks_before(e, f) => f.score.passed <= e.score.passed
<1> SUFFICES ASSUME NEW e \in Entries, NEW f \in Entries, NEW g \in Entries
             PROVE  /\ ranks_before(e, f) \/ ranks_before(f, e)
                    /\ ranks_before(e, f) /\ ranks_before(f, g) => ranks_before(e, g)
                    /\ ranks_before(e, f) => f.score.passed <= e.score.passed
  OBVIOUS
<1>1. \A h \in Entries : h.score.passed \in Nat /\ h.score.errors \in Nat
                           /\ h.score.failed \in Nat /\ h.index \in Nat
  BY ConstantsAssumption DEF Entries, ScoreType
<1> QED BY <1>1 DEF ranks_before

(* The best of a nonempty store is one of its entries and ranks before all. *)
LEMMA BestIsLeast ==
  ASSUME TypeOK, HasBest, entries # <<>>
  PROVE  /\ best(entries) \in Recorded(entries) /\ best(entries) \in Entries
         /\ \A f \in Recorded(entries) : ranks_before(best(entries), f)
BY RecordedType DEF best, HasBest, TypeOK

(* Recording one more entry keeps a least element: the order is total. *)
LEMMA RecordKeepsBest ==
  ASSUME NEW s \in Seq(Entries), NEW x \in Entries,
         s # <<>> => \E e \in Recorded(s) : \A f \in Recorded(s) : ranks_before(e, f)
  PROVE  \E e \in Recorded(Append(s, x)) : \A f \in Recorded(Append(s, x)) : ranks_before(e, f)
<1>1. Recorded(Append(s, x)) = Recorded(s) \cup {x} /\ Recorded(s) \subseteq Entries
  BY RecordedAppend, RecordedType
<1>2. ranks_before(x, x)
  BY RankOrder
<1>3. CASE s = <<>>
  <2>1. Recorded(s) = {}
    BY <1>3 DEF Recorded
  <2> QED BY <1>1, <1>2, <2>1
<1>4. CASE s # <<>>
  <2>1. PICK e \in Recorded(s) : \A f \in Recorded(s) : ranks_before(e, f)
    BY <1>4
  <2>2. CASE ranks_before(e, x)
    BY <1>1, <2>1, <2>2
  <2>3. CASE ranks_before(x, e)
    <3>1. \A f \in Recorded(s) : ranks_before(x, f)
      BY <1>1, <2>1, <2>3, RankOrder
    <3> QED BY <1>1, <1>2, <3>1
  <2> QED BY <1>1, <2>1, <2>2, <2>3, RankOrder
<1> QED BY <1>3, <1>4

(* _next_tail builds a well-typed tail. *)
LEMMA TailType ==
  ASSUME NEW l \in ScoredAttempts \cup {None}, NEW n \in 0..NUDGE_LADDER,
         NEW r \in Replies \cup {None}
  PROVE  next_tail(l, n, r)[1] \in Tails /\ next_tail(l, n, r)[2] \in BOOLEAN
<1>1. CASE l = None /\ r = None
  BY <1>1 DEF next_tail, empty_tail, Tails
<1>2. CASE l = None /\ r # None
  BY <1>2 DEF next_tail, reframe_for, Tails
<1>3. CASE l # None
  BY <1>3 DEF next_tail, repair_brief, Tails, ScoredAttempts
<1> QED BY <1>1, <1>2, <1>3

-----------------------------------------------------------------------------
(* The inductive step, one conjunct at a time. *)

(* An attempt in flight has a last generation. *)
LEMMA LastGeneration ==
  ASSUME TypeOK, Position, pc \in {"apply", "oracle", "resolve", "finish"}
  PROVE  Last(results) \in Generations /\ Len(results) \in Nat /\ Len(results) > 0
BY LastInSeq DEF TypeOK, Position

(* Every step keeps the types. *)
LEMMA StepTypeOK == IInv /\ [Next]_vars => TypeOK'
<1> SUFFICES ASSUME IInv, [Next]_vars PROVE TypeOK'
  OBVIOUS
<1> USE DEF IInv, TypeOK
<1>1. CASE Plan
  BY <1>1 DEF Plan, plateau, escalation
<1>2. CASE Generate
  <2>1. tail' \in Tails /\ nudged' \in BOOLEAN
    BY <1>2, TailType DEF Generate
  <2>2. results' \in Seq(Generations)
    BY <1>2 DEF Generate
  <2> QED BY <1>2, <2>1, <2>2 DEF Generate, plateau, escalation
<1>3. CASE GenerateRaises
  BY <1>3 DEF GenerateRaises, plateau, escalation
<1>4. CASE Apply
  BY <1>4 DEF Apply, plateau, escalation, Usable
<1>5. CASE Refuse
  BY <1>5 DEF Refuse, plateau, escalation
<1>6. CASE RunOracle
  <2>1. PICK s \in Scores :
          /\ entries' = Append(entries, [index |-> Len(results) - 1, score |-> s, file |-> file])
          /\ last_attempt' = [source |-> Extract[Last(results).text], score |-> s]
    BY <1>6 DEF RunOracle
  <2>2. file \in Files /\ Extract[Last(results).text] \in Files /\ Len(results) - 1 \in Nat
    BY <1>6, LastGeneration DEF RunOracle, Position, Usable
  <2>3. [index |-> Len(results) - 1, score |-> s, file |-> file] \in Entries
    BY <2>2 DEF Entries
  <2>4. last_attempt' \in ScoredAttempts
    BY <2>1, <2>2 DEF ScoredAttempts
  <2> QED BY <1>6, <2>1, <2>3, <2>4 DEF RunOracle, plateau, escalation
<1>7. CASE OracleRaises
  BY <1>7 DEF OracleRaises, plateau, escalation
<1>8. CASE ResolveUnscored
  <2>1. progress' \in Seq(Events)
    <3>1. [attempt |-> Len(results), score |-> None, repeats_previous |-> repeats_previous,
           plateaued |-> misses >= PLATEAU_ATTEMPTS, nudged |-> nudged,
           blocked |-> None = None /\ Last(results).end = "clean"] \in Events
      BY DEF Events, repeats_previous
    <3> QED BY <1>8, <3>1 DEF ResolveUnscored, Report
  <2>2. reframe' \in Replies \cup {None} /\ pc' \in {"finish", "attempt"}
    BY <1>8, LastGeneration DEF ResolveUnscored, correction, Generations
  <2> QED BY <1>8, <2>1, <2>2 DEF ResolveUnscored, plateau
<1>9. CASE ResolveScored
  <2> DEFINE s == last_attempt.score
             plateaued == misses_after(s) >= PLATEAU_ATTEMPTS
             stalled == repeats_previous \/ plateaued
             climbed == IF stalled THEN stalls + 1 ELSE stalls
             n == escalation_for(stalled, climbed)
  <2>1. s \in Scores /\ s.passed \in Nat
    BY <1>9, ConstantsAssumption DEF ResolveScored, ScoredAttempts, ScoreType
  <2>2. progress' \in Seq(Events)
    <3>1. [attempt |-> Len(results), score |-> s, repeats_previous |-> repeats_previous,
           plateaued |-> plateaued, nudged |-> nudged,
           blocked |-> s = None /\ Last(results).end = "clean"] \in Events
      BY <2>1 DEF Events, repeats_previous
    <3> QED BY <1>9, <3>1 DEF ResolveScored, Report
  <2>3. misses' \in Nat /\ best_passed' \in Nat \cup {-1}
    BY <1>9, <2>1 DEF ResolveScored, misses_after, best_passed_after
  <2>4. stalls' \in 0..(NUDGE_LADDER + 1)
    BY <1>9 DEF ResolveScored, Spent, NUDGE_LADDER
  <2>5. nudge' \in 0..NUDGE_LADDER /\ pc' \in {"finish", "attempt"}
    <3>1. stalled => stalls + 1 >= 1
      BY DEF Spent
    <3>2. n = None \/ n \in 0..NUDGE_LADDER
      BY <3>1 DEF escalation_for, nudge_for, NUDGE_LADDER
    <3> QED BY <1>9, <3>2 DEF ResolveScored
  <2> QED BY <1>9, <2>2, <2>3, <2>4, <2>5 DEF ResolveScored
<1>10. CASE SpendBudget
  BY <1>10 DEF SpendBudget, plateau, escalation
<1>11. CASE Finish
  <2>1. file' \in Files \cup {None, Seed}
    BY <1>11, BestIsLeast DEF Finish, restore_best, Entries
  <2>2. outcome' \in Outcomes
    <3> DEFINE best_score == IF entries = <<>> THEN None ELSE best(entries).score
               final == IF results = <<>> THEN None ELSE Last(results)
    <3>1. best_score \in Scores \cup {None}
      BY BestIsLeast DEF Entries
    <3>2. terminal_status(final, last_attempt # None, best_score) \in Statuses
      BY DEF terminal_status, classify_terminal, Statuses
    <3>3. Len(results) \in Nat
      OBVIOUS
    <3> HIDE DEF best_score, final
    <3>4. [status |-> terminal_status(final, last_attempt # None, best_score),
           best_score |-> best_score,
           fault |-> final # None /\ final.end = "fault",
           derail |-> final # None /\ final.end = "derail",
           plan_first |-> plan_first, total_calls |-> total_calls,
           attempts |-> Len(results)] \in Outcomes
      BY <3>1, <3>2, <3>3 DEF Outcomes
    <3> QED BY <1>11, <3>4 DEF Finish, best_score, final
  <2> QED BY <1>11, <2>1, <2>2 DEF Finish, plateau, escalation
<1>12. CASE Ended
  BY <1>12 DEF Ended, vars
<1>13. CASE UNCHANGED vars
  BY <1>13 DEF vars
<1> QED BY <1>1, <1>2, <1>3, <1>4, <1>5, <1>6, <1>7, <1>8, <1>9, <1>10, <1>11, <1>12, <1>13 DEF Next

(* Steps that append no generation keep the last one; Generate appends one. *)
LEMMA AppendsGeneration ==
  ASSUME TypeOK, Generate
  PROVE  \E g \in Generations :
           /\ results' = Append(results, g) /\ results' # <<>> /\ Last(results') = g
           /\ Len(results') = Len(results) + 1
           /\ results # <<>> => results'[Len(results') - 1] = Last(results)
BY LastOfAppend DEF Generate, TypeOK

(* Every step keeps what the point reached says about the counts. *)
LEMMA StepPosition == IInv /\ [Next]_vars => Position'
<1> SUFFICES ASSUME IInv, [Next]_vars PROVE Position'
  OBVIOUS
<1> USE DEF IInv, Position
<1>1. CASE Plan
  BY <1>1 DEF Plan, escalation
<1>2. CASE Generate
  BY <1>2, AppendsGeneration DEF Generate, escalation
<1>3. CASE GenerateRaises
  BY <1>3 DEF GenerateRaises, escalation
<1>4. CASE Apply
  BY <1>4 DEF Apply, escalation
<1>5. CASE Refuse
  BY <1>5 DEF Refuse, escalation
<1>6. CASE RunOracle
  BY <1>6 DEF RunOracle, escalation
<1>7. CASE OracleRaises
  BY <1>7 DEF OracleRaises, escalation
<1>8. CASE ResolveUnscored
  BY <1>8 DEF ResolveUnscored, correction
<1>9. CASE ResolveScored
  BY <1>9 DEF ResolveScored
<1>10. CASE SpendBudget
  BY <1>10, ConstantsAssumption DEF SpendBudget, escalation
<1>11. CASE Finish
  BY <1>11 DEF Finish, escalation
<1>12. CASE Ended
  BY <1>12 DEF Ended, vars
<1>13. CASE UNCHANGED vars
  BY <1>13 DEF vars
<1> QED BY <1>1, <1>2, <1>3, <1>4, <1>5, <1>6, <1>7, <1>8, <1>9, <1>10, <1>11, <1>12, <1>13 DEF Next

(* Every step keeps last_attempt the verdict of the last scored attempt. *)
LEMMA StepLastVerdict == IInv /\ [Next]_vars => LastVerdict'
<1> SUFFICES ASSUME IInv, [Next]_vars PROVE LastVerdict'
  OBVIOUS
<1> USE DEF IInv, LastVerdict
<1>1. CASE Plan
  BY <1>1 DEF Plan, Position
<1>2. CASE Generate
  BY <1>2 DEF Generate
<1>3. CASE GenerateRaises
  BY <1>3 DEF GenerateRaises
<1>4. CASE Apply
  BY <1>4 DEF Apply
<1>5. CASE Refuse
  BY <1>5 DEF Refuse
<1>6. CASE RunOracle
  <2>1. PICK s \in Scores :
          /\ entries' = Append(entries, [index |-> Len(results) - 1, score |-> s, file |-> file])
          /\ last_attempt' = [source |-> Extract[Last(results).text], score |-> s]
    BY <1>6 DEF RunOracle
  <2>2. [index |-> Len(results) - 1, score |-> s, file |-> file] \in Entries
    BY <1>6, LastGeneration DEF RunOracle, Position, Usable, Entries
  <2>3. entries' # <<>> /\ Last(entries').score = s
    BY <2>1, <2>2, LastOfAppend DEF TypeOK
  <2>4. last_attempt' # None
    <3>1. last_attempt' \in ScoredAttempts
      BY <1>6, <2>1, LastGeneration DEF RunOracle, Position, Usable, ScoredAttempts
    <3> QED BY <3>1, NoneAssumption
  <2> QED BY <1>6, <2>1, <2>3, <2>4 DEF RunOracle, Position
<1>7. CASE OracleRaises
  BY <1>7 DEF OracleRaises
<1>8. CASE ResolveUnscored
  BY <1>8 DEF ResolveUnscored, correction
<1>9. CASE ResolveScored
  BY <1>9 DEF ResolveScored
<1>10. CASE SpendBudget
  BY <1>10 DEF SpendBudget, escalation
<1>11. CASE Finish
  BY <1>11 DEF Finish
<1>12. CASE Ended
  BY <1>12 DEF Ended, vars
<1>13. CASE UNCHANGED vars
  BY <1>13 DEF vars
<1> QED BY <1>1, <1>2, <1>3, <1>4, <1>5, <1>6, <1>7, <1>8, <1>9, <1>10, <1>11, <1>12, <1>13 DEF Next

(* Only the oracle step touches the store. *)
LEMMA StoreOnlyGrows ==
  ASSUME IInv, [Next]_vars
  PROVE  \/ UNCHANGED entries
         \/ /\ pc = "oracle" /\ pc' = "resolve" /\ UNCHANGED <<file, outcome, results>>
            /\ \E s \in Scores :
                 LET e == [index |-> Len(results) - 1, score |-> s, file |-> file]
                 IN  /\ e \in Entries /\ entries' = Append(entries, e)
                     /\ last_attempt' # None /\ last_attempt'.score = s
<1>1. CASE RunOracle
  <2>1. PICK s \in Scores :
          /\ entries' = Append(entries, [index |-> Len(results) - 1, score |-> s, file |-> file])
          /\ last_attempt' = [source |-> Extract[Last(results).text], score |-> s]
    BY <1>1 DEF RunOracle
  <2>2. [index |-> Len(results) - 1, score |-> s, file |-> file] \in Entries
    BY <1>1, LastGeneration DEF IInv, TypeOK, RunOracle, Position, Usable, Entries
  <2>3. last_attempt' # None
    <3>1. last_attempt' \in ScoredAttempts
      BY <1>1, <2>1, LastGeneration DEF IInv, RunOracle, Position, Usable, ScoredAttempts
    <3> QED BY <3>1, NoneAssumption
  <2> QED BY <1>1, <2>1, <2>2, <2>3 DEF RunOracle
<1>2. CASE ~RunOracle
  BY <1>2 DEF Next, vars, Plan, Generate, GenerateRaises, Apply, Refuse, OracleRaises,
              ResolveUnscored, ResolveScored, SpendBudget, Finish, Ended
<1> QED BY <1>1, <1>2

(* Every step keeps a best entry in a nonempty store. *)
LEMMA StepHasBest == IInv /\ [Next]_vars => HasBest'
BY StoreOnlyGrows, RecordKeepsBest DEF IInv, TypeOK, HasBest

(* Every step keeps a green verdict the last one of the run. *)
LEMMA StepGreenStops == IInv /\ [Next]_vars => GreenStops'
<1> SUFFICES ASSUME IInv, [Next]_vars PROVE GreenStops'
  OBVIOUS
<1>1. CASE UNCHANGED entries
  <2>1. Greens' = Greens
    BY <1>1 DEF Greens
  <2> QED BY <2>1 DEF IInv, GreenStops, Next, vars, Plan, Generate, GenerateRaises, Apply,
                  Refuse, RunOracle, OracleRaises, ResolveUnscored, ResolveScored, SpendBudget,
                  Finish, Ended
<1>2. CASE ~UNCHANGED entries
  <2>1. PICK s \in Scores :
          LET e == [index |-> Len(results) - 1, score |-> s, file |-> file]
          IN  /\ e \in Entries /\ entries' = Append(entries, e)
              /\ last_attempt' # None /\ last_attempt'.score = s
    BY <1>2, StoreOnlyGrows
  <2>2. pc = "oracle" /\ pc' = "resolve"
    BY <1>2, StoreOnlyGrows
  <2>3. Greens = {}
    BY <2>2 DEF IInv, GreenStops
  <2>4. Recorded(entries') = Recorded(entries) \cup {[index |-> Len(results) - 1, score |-> s, file |-> file]}
    BY <2>1, RecordedAppend DEF IInv, TypeOK
  <2>5. Greens' # {} => is_green(s)
    BY <2>3, <2>4 DEF Greens
  <2> QED BY <2>1, <2>2, <2>5 DEF GreenStops
<1> QED BY <1>1, <1>2

(* Every step keeps the returned result the one Loop._finish computed. *)
LEMMA StepSettled == IInv /\ [Next]_vars => Settled'
<1> SUFFICES ASSUME IInv, [Next]_vars PROVE Settled'
  OBVIOUS
<1>1. CASE Finish
  <2> DEFINE best_score == IF entries = <<>> THEN None ELSE best(entries).score
             final == IF results = <<>> THEN None ELSE Last(results)
  <2>1. /\ outcome'.status = terminal_status(final, last_attempt # None, best_score)
        /\ outcome'.best_score = best_score
        /\ entries' = entries /\ file' = restore_best(entries, file)
    BY <1>1 DEF Finish
  <2>2. terminal_status(final, last_attempt # None, best_score) = "done"
          <=> (best_score # None /\ is_green(best_score))
    BY DEF terminal_status, classify_terminal
  <2>3. entries # <<>> => best_score # None
    BY BestIsLeast, NoneAssumption DEF IInv, Entries
  <2>4. terminal_status(final, last_attempt # None, best_score) \in Statuses
    BY DEF terminal_status, classify_terminal, Statuses
  <2> QED BY <2>1, <2>2, <2>3, <2>4 DEF Settled, restore_best
<1>2. CASE ~Finish
  BY <1>2 DEF IInv, Settled, Next, vars, Plan, Generate, GenerateRaises, Apply, Refuse,
              RunOracle, OracleRaises, ResolveUnscored, ResolveScored, SpendBudget, Ended
<1> QED BY <1>1, <1>2

(* The credit of a state is a natural number. *)
LEMMA CreditType ==
  ASSUME NEW top \in Nat \cup {-1}, NEW missed \in Nat
  PROVE  Credit(top, missed) \in Int /\ Credit(top, missed) <= 2 * (top + 1)
<1>1. CASE missed = 0 /\ top # -1
  BY <1>1 DEF Credit
<1>2. CASE ~(missed = 0 /\ top # -1)
  BY <1>2 DEF Credit
<1> QED BY <1>1, <1>2

(* A verdict that improves on the best, or is the first miss after one, pays  *)
(* for itself; a later miss does not, and that is when the ladder is climbed. *)
LEMMA CreditGrows ==
  ASSUME NEW top \in Nat \cup {-1}, NEW missed \in Nat, NEW p \in Nat, top = -1 => missed = 0,
         NEW top2, NEW missed2,
         \/ p > top /\ missed2 = 0 /\ top2 = p
         \/ p <= top /\ missed2 = missed + 1 /\ top2 = top
  PROVE  /\ top2 \in Nat /\ missed2 \in Nat
         /\ Credit(top2, missed2) >= Credit(top, missed)
         /\ missed2 < 2 => Credit(top2, missed2) >= Credit(top, missed) + 1
<1>1. top2 \in Nat /\ missed2 \in Nat
  OBVIOUS
<1>2. CASE top = -1
  BY <1>2 DEF Credit
<1>3. CASE top \in Nat /\ missed = 0
  BY <1>3 DEF Credit
<1>4. CASE top \in Nat /\ missed # 0
  BY <1>4 DEF Credit
<1> QED BY <1>1, <1>2, <1>3, <1>4

(* The credit of a state is within the bound on the attempts. *)
LEMMA CreditCovers ==
  ASSUME NEW n \in Int, NEW c \in Int, NEW d \in Int, NEW st \in Int, NEW r \in {0, 1},
         NEW top \in Int, n - 1 <= c + st + r, st <= 2, c <= d, d <= 2 * (top + 1)
  PROVE  /\ n <= 2 * (top + 1) + 4
         /\ n <= d + (st + 1) + r
         /\ c + 1 <= d => n <= d + st + r
OBVIOUS

(* Every step keeps the attempts within the credit earned. *)
LEMMA StepSpent == IInv /\ [Next]_vars => Spent'
<1> SUFFICES ASSUME IInv, [Next]_vars PROVE Spent'
  OBVIOUS
<1>0. /\ best_passed \in Nat \cup {-1} /\ misses \in Nat /\ stalls \in Nat /\ Len(results) \in Nat
      /\ Spent
      /\ Credit(best_passed, misses) \in Int /\ Credit(best_passed, misses) <= 2 * (best_passed + 1)
  <2>1. /\ best_passed \in Nat \cup {-1} /\ misses \in Nat /\ stalls \in Nat /\ Len(results) \in Nat
        /\ Spent /\ 0 \in Nat
    BY DEF IInv, TypeOK
  <2> QED BY <2>1, CreditType
<1> USE <1>0 DEF Spent, Paid, AttemptsBounded, NUDGE_LADDER
<1>1. CASE Plan
  BY <1>1 DEF Plan, plateau, escalation
<1>2. CASE Generate
  BY <1>2, AppendsGeneration DEF IInv, Generate, plateau, escalation
<1>3. CASE GenerateRaises
  BY <1>3 DEF GenerateRaises, plateau, escalation
<1>4. CASE Apply
  BY <1>4 DEF Apply, plateau, escalation
<1>5. CASE Refuse
  BY <1>5 DEF Refuse, plateau, escalation
<1>6. CASE RunOracle
  BY <1>6 DEF RunOracle, plateau, escalation
<1>7. CASE OracleRaises
  BY <1>7 DEF OracleRaises, plateau, escalation
<1>8. CASE ResolveUnscored
  BY <1>8 DEF ResolveUnscored, plateau, correction
<1>9. CASE ResolveScored
  <2> DEFINE s == last_attempt.score
             stalled == repeats_previous \/ misses_after(s) >= PLATEAU_ATTEMPTS
             p == s.passed
  <2>1. p \in Nat
    BY <1>9, ConstantsAssumption DEF IInv, TypeOK, ResolveScored, ScoredAttempts, ScoreType
  <2>2. /\ Len(results) \in Nat /\ UNCHANGED <<results, reframe>>
        /\ Len(results) - 1 <= Paid /\ stalls <= 2
    BY <1>9 DEF ResolveScored
  <2>3. misses' = misses_after(s) /\ best_passed' = best_passed_after(s)
    BY <1>9 DEF ResolveScored
  <2>4. \/ p > best_passed /\ misses' = 0 /\ best_passed' = p
        \/ p <= best_passed /\ misses' = misses + 1 /\ best_passed' = best_passed
    BY <2>1, <2>3 DEF misses_after, best_passed_after
  <2> HIDE DEF p
  <2>5. /\ best_passed' \in Nat /\ misses' \in Nat
        /\ Credit(best_passed', misses') >= Credit(best_passed, misses)
        /\ misses' < 2 => Credit(best_passed', misses') >= Credit(best_passed, misses) + 1
    BY <2>1, <2>4, CreditGrows
  <2>6. /\ Credit(best_passed', misses') \in Int
        /\ Credit(best_passed', misses') <= 2 * (best_passed' + 1)
    BY <2>5, CreditType
  <2> DEFINE r == IF reframe = None THEN 0 ELSE 1
  <2>10. Paid' = Credit(best_passed', misses') + stalls' + r /\ r \in {0, 1}
    BY <2>2 DEF Credit
  <2>11. Paid = Credit(best_passed, misses) + stalls + r
    OBVIOUS
  <2> HIDE DEF r, Paid
  <2>12. /\ Len(results) <= 2 * (best_passed' + 1) + 4
         /\ Len(results) <= Credit(best_passed', misses') + (stalls + 1) + r
         /\ misses' < 2 => Len(results) <= Credit(best_passed', misses') + stalls + r
    <3> DEFINE c == Credit(best_passed, misses)
               d == Credit(best_passed', misses')
    <3>1. /\ c \in Int /\ d \in Int /\ stalls \in Int /\ r \in {0, 1} /\ best_passed' \in Int
          /\ stalls <= 2 /\ c <= d /\ d <= 2 * (best_passed' + 1) /\ Len(results) \in Int
      BY <2>2, <2>5, <2>6, <2>10
    <3>2. Len(results) - 1 <= c + stalls + r
      BY <2>2, <2>11
    <3>3. misses' < 2 => c + 1 <= d
      BY <2>5, <2>6
    <3> HIDE DEF c, d
    <3> QED BY <3>1, <3>2, <3>3, CreditCovers DEF d
  <2>13. (best_passed = -1 => misses = 0)' /\ AttemptsBounded'
    BY <2>2, <2>5, <2>12
  <2>7. CASE is_green(s)
    <3>1. pc' = "finish" /\ stalls' = stalls
      BY <1>9, <2>7 DEF ResolveScored
    <3> QED BY <2>13, <3>1
  <2>8. CASE ~is_green(s) /\ stalled
    <3>1. stalls' = stalls + 1 /\ (pc' = "finish" \/ (pc' = "attempt" /\ stalls' <= 2))
      BY <1>9, <2>8, <2>2 DEF ResolveScored, escalation_for, nudge_for
    <3> QED BY <2>2, <2>10, <2>12, <2>13, <3>1
  <2>9. CASE ~is_green(s) /\ ~stalled
    <3>1. stalls' = stalls /\ pc' \in {"attempt", "finish"}
      BY <1>9, <2>9 DEF ResolveScored
    <3>2. misses' < 2
      BY <2>1, <2>3, <2>9 DEF PLATEAU_ATTEMPTS, misses_after
    <3> QED BY <2>2, <2>10, <2>12, <2>13, <3>1, <3>2
  <2> QED BY <2>7, <2>8, <2>9
<1>10. CASE SpendBudget
  BY <1>10 DEF SpendBudget, plateau, escalation
<1>11. CASE Finish
  BY <1>11 DEF Finish, plateau, escalation
<1>12. CASE Ended
  BY <1>12 DEF Ended, vars
<1>13. CASE UNCHANGED vars
  BY <1>13 DEF vars
<1> QED BY <1>1, <1>2, <1>3, <1>4, <1>5, <1>6, <1>7, <1>8, <1>9, <1>10, <1>11, <1>12, <1>13 DEF Next

(* Every step keeps the tail in flight about the attempt just before. *)
LEMMA StepTailIsFresh == IInv /\ [Next]_vars => TailIsFresh'
<1> SUFFICES ASSUME IInv, [Next]_vars PROVE TailIsFresh'
  OBVIOUS
<1>1. CASE Generate
  <2>1. PICK g \in Generations :
          /\ results' = Append(results, g) /\ results' # <<>> /\ Last(results') = g
          /\ Len(results') = Len(results) + 1
          /\ results # <<>> => results'[Len(results') - 1] = Last(results)
    BY <1>1, AppendsGeneration DEF IInv
  <2>2. UNCHANGED <<file, entries>> /\ pc = "attempt" /\ Len(results) \in Nat
    BY <1>1 DEF Generate, IInv, TypeOK
  <2>3. CASE last_attempt = None /\ results = <<>>
    <3>1. tail' = empty_tail
      BY <1>1, <2>3 DEF Generate, next_tail, IInv, Position
    <3> QED BY <2>1, <2>3, <3>1 DEF TailIsFresh, empty_tail
  <2>4. CASE last_attempt = None /\ results # <<>>
    <3>1. reframe = Last(results).text /\ ~Usable(Last(results))
      BY <2>2, <2>4 DEF IInv, LastVerdict
    <3>2. reframe # None
      <4>1. Last(results) \in Generations
        BY <2>4, LastInSeq DEF IInv, TypeOK
      <4> QED BY <3>1, <4>1, ConstantsAssumption DEF Generations
    <3>3. tail' = reframe_for(reframe)
      BY <1>1, <2>4, <3>2 DEF Generate, next_tail
    <3>4. Len(results') # 1
      BY <2>1, <2>4, <2>2, LastInSeq DEF IInv, TypeOK
    <3> QED BY <2>1, <2>4, <3>1, <3>3, <3>4 DEF TailIsFresh, reframe_for, Usable
  <2>5. CASE last_attempt # None
    <3>1. /\ results # <<>> /\ Usable(Last(results))
          /\ last_attempt.source = Extract[Last(results).text]
          /\ file = last_attempt.source /\ Last(entries).score = last_attempt.score
      BY <2>2, <2>5 DEF IInv, Position, LastVerdict
    <3>2. tail' = repair_brief(last_attempt, nudge)
      BY <1>1, <2>5 DEF Generate, next_tail
    <3>3. Len(results') # 1
      BY <2>1, <2>2, <3>1, LastInSeq DEF IInv, TypeOK
    <3> QED BY <2>1, <2>2, <3>1, <3>2, <3>3 DEF TailIsFresh, repair_brief, Usable
  <2> QED BY <2>3, <2>4, <2>5
<1>2. CASE ~Generate
  <2>1. pc' # "apply" \/ UNCHANGED vars
    BY <1>2 DEF Next, vars, Plan, GenerateRaises, Apply, Refuse, RunOracle, OracleRaises,
                ResolveUnscored, ResolveScored, SpendBudget, Finish, Ended
  <2> QED BY <2>1 DEF IInv, TailIsFresh, vars
<1> QED BY <1>1, <1>2

-----------------------------------------------------------------------------
(* The invariant holds when Loop.run is entered. *)
LEMMA InitIInv == Init => IInv
<1> SUFFICES ASSUME Init PROVE IInv
  OBVIOUS
<1>1. TypeOK
  <2>1. tail \in Tails
    BY DEF Init, empty_tail, Tails
  <2>2. entries \in Seq(Entries) /\ results \in Seq(Generations) /\ progress \in Seq(Events)
    BY DEF Init
  <2>3. /\ nudge \in 0..NUDGE_LADDER /\ stalls \in 0..(NUDGE_LADDER + 1)
        /\ best_passed \in Nat \cup {-1} /\ misses \in Nat /\ total_calls \in Nat
    BY DEF Init, NUDGE_LADDER
  <2> QED BY <2>1, <2>2, <2>3 DEF Init, TypeOK
<1>2. Position /\ LastVerdict /\ HasBest /\ Settled /\ TailIsFresh
  BY DEF Init, Position, LastVerdict, HasBest, Settled, TailIsFresh
<1>3. GreenStops
  BY DEF Init, GreenStops, Greens, Recorded
<1>4. Spent
  BY DEF Init, Spent, Paid, Credit, AttemptsBounded, NUDGE_LADDER
<1> QED BY <1>1, <1>2, <1>3, <1>4 DEF IInv

(* The invariant is preserved by every step. *)
LEMMA StepIInv == IInv /\ [Next]_vars => IInv'
BY StepTypeOK, StepPosition, StepLastVerdict, StepHasBest, StepGreenStops, StepSettled,
   StepSpent, StepTailIsFresh DEF IInv

(* The inductive invariant of Loop.run, from which the theorems below follow. *)
THEOREM Inductive == Spec => []IInv
BY InitIInv, StepIInv, PTL DEF Spec

(* The state of the loop is well typed at every step of every run. *)
THEOREM TypeCorrect == Spec => []TypeOK
<1>1. IInv => TypeOK
  BY DEF IInv
<1> QED BY <1>1, Inductive, PTL

(* Whatever the budget, the nudge ladder and the single correction bound the *)
(* attempts by the best score reached.                                       *)
THEOREM AttemptsAreBounded == Spec => []AttemptsBounded
<1>1. IInv => AttemptsBounded
  BY DEF IInv, Spent
<1> QED BY <1>1, Inductive, PTL

(* No prompt ever quotes stale work back to the model. *)
THEOREM TailsAreFresh == Spec => []TailIsFresh
<1>1. IInv => TailIsFresh
  BY DEF IInv
<1> QED BY <1>1, Inductive, PTL

(* Restoring the best snapshot never ends the run worse than its best state. *)
THEOREM RestoresTheBest == Spec => []BestIsRestored
<1>1. IInv => BestIsRestored
  BY BestIsLeast, RankOrder, RecordedType DEF IInv, TypeOK, BestIsRestored, Settled
<1> QED BY <1>1, Inductive, PTL

(* DONE is only reported of a file this run's oracle scored green. *)
THEOREM DoneIsGreenOnDisk == Spec => []DoneIsOnDisk
<1>1. IInv => DoneIsOnDisk
  BY BestIsLeast DEF IInv, DoneIsOnDisk, Settled, Greens
<1> QED BY <1>1, Inductive, PTL

(* If no verdict collects more than the pinned count, a green one ranks first. *)
LEMMA GreenRanksFirst ==
  ASSUME \A s \in Scores : collected(s) <= ExpectedTests,
         IInv, NEW g \in Recorded(entries), is_green(g.score)
  PROVE  entries # <<>> /\ is_green(best(entries).score)
<1>1. entries # <<>> /\ Recorded(entries) \subseteq Entries
  BY RecordedType DEF Recorded, IInv, TypeOK
<1>2. best(entries) \in Entries /\ g.score.passed <= best(entries).score.passed
  BY <1>1, BestIsLeast, RankOrder DEF IInv
<1>3. \A e \in Entries : e.score \in ScoreType /\ collected(e.score) <= ExpectedTests
  BY ConstantsAssumption DEF Entries
<1> DEFINE b == best(entries).score
           s == g.score
<1>4. /\ b.passed \in Nat /\ b.failed \in Nat /\ b.errors \in Nat /\ s.passed \in Nat
      /\ b.passed + b.failed + b.errors <= ExpectedTests
  BY <1>1, <1>2, <1>3 DEF collected, ScoreType
<1>5. s.passed = ExpectedTests
  BY <1>4 DEF is_green, is_valid, collected
<1>6. s.passed <= b.passed
  BY <1>2
<1> HIDE DEF b, s
<1>7. b.passed = ExpectedTests /\ b.failed = 0 /\ b.errors = 0
  BY <1>4, <1>5, <1>6, ConstantsAssumption
<1> QED BY <1>1, <1>7, ConstantsAssumption DEF is_green, is_valid, collected, b

(* As long as no verdict collects more tests than the task pinned, a green   *)
(* verdict is never lost.                                                    *)
THEOREM GreenSurvives ==
  ASSUME \A s \in Scores : collected(s) <= ExpectedTests
  PROVE  Spec => []GreenIsKept
<1>1. IInv => GreenIsKept
  <2> SUFFICES ASSUME IInv, pc = "returned", NEW g \in Greens
               PROVE  outcome.status = "done" /\ \E e \in Greens : file = e.file
    BY DEF GreenIsKept
  <2>1. entries # <<>> /\ is_green(best(entries).score)
    BY GreenRanksFirst DEF Greens
  <2> QED BY <2>1, BestIsLeast DEF IInv, Settled, Greens
<1> QED BY <1>1, Inductive, PTL

(* A green verdict buys no further generation. *)
THEOREM GreenEndsTheWork == Spec => NoWorkAfterGreen
<1>1. IInv /\ [Next]_vars => [Greens # {} => UNCHANGED <<results, total_calls>>]_vars
  BY DEF IInv, GreenStops, Next, vars, Plan, Generate, GenerateRaises, Apply, Refuse, RunOracle,
         OracleRaises, ResolveUnscored, ResolveScored, SpendBudget, Finish, Ended
<1> QED BY <1>1, Inductive, PTL DEF Spec, NoWorkAfterGreen

(* With the same proviso the loop implements the abstract task RepairTask. *)
THEOREM ImplementsTask ==
  ASSUME \A s \in Scores : collected(s) <= ExpectedTests
  PROVE  Spec => KeepsPromise
<1>1. Init => Promise!Init
  BY DEF Init, Promise!Init, Tried, Kept, Verdict, Recorded
<1>2. IInv /\ IInv' /\ [Next]_vars => [Promise!Next]_<<Tried, Kept, Verdict>>
  <2> SUFFICES ASSUME IInv, IInv', [Next]_vars
               PROVE  Promise!Next \/ UNCHANGED <<Tried, Kept, Verdict>>
    OBVIOUS
  <2>1. CASE RunOracle
    <3>1. PICK s \in Scores :
            entries' = Append(entries, [index |-> Len(results) - 1, score |-> s, file |-> file])
      BY <2>1 DEF RunOracle
    <3> DEFINE e == [index |-> Len(results) - 1, score |-> s, file |-> file]
    <3>2. e \in Entries /\ file \in Files
      BY <2>1, LastGeneration DEF IInv, TypeOK, RunOracle, Position, Usable, Entries
    <3>3. Tried' = Tried \cup {<<file, s>>}
      <4>1. Recorded(entries') = Recorded(entries) \cup {e}
        BY <3>1, <3>2, RecordedAppend DEF IInv, TypeOK
      <4>2. Tried' = {<<d.file, d.score>> : d \in Recorded(entries')}
        BY DEF Tried, Recorded
      <4>3. e.file = file /\ e.score = s
        OBVIOUS
      <4> HIDE DEF e
      <4> QED BY <4>1, <4>2, <4>3 DEF Tried
    <3>4. \A t \in Tried : ~is_green(t[2])
      BY <2>1 DEF RunOracle, IInv, GreenStops, Greens, Tried
    <3>5. Verdict = "open" /\ UNCHANGED <<Kept, Verdict>>
      BY <2>1 DEF RunOracle, Kept, Verdict
    <3>6. Promise!Try(file, s)
      BY <3>3, <3>4, <3>5 DEF Promise!Try
    <3> QED BY <3>2, <3>6 DEF Promise!Next
  <2>2. CASE Finish /\ entries = <<>>
    <3>1. Tried = {} /\ Tried' = Tried
      BY <2>2 DEF Finish, Tried, Recorded
    <3>2. Kept' = Kept /\ Verdict = "open" /\ Verdict' = "failed"
      BY <2>2 DEF Finish, Kept, Verdict, IInv, Settled
    <3>3. Promise!SettleEmpty
      BY <3>1, <3>2 DEF Promise!SettleEmpty
    <3> QED BY <3>3 DEF Promise!Next
  <2>3. CASE Finish /\ entries # <<>>
    <3> DEFINE t == <<best(entries).file, best(entries).score>>
    <3>1. /\ best(entries) \in Recorded(entries) /\ best(entries) \in Entries
          /\ \A f \in Recorded(entries) : f.score.passed <= best(entries).score.passed
      BY <2>3, BestIsLeast, RankOrder, RecordedType DEF IInv, TypeOK
    <3>2. t \in Tried /\ \A u \in Tried : passed_of(u[2]) <= passed_of(t[2])
      BY <3>1 DEF Tried, passed_of
    <3>3. pc' = "returned" /\ entries' = entries /\ Tried' = Tried /\ Verdict = "open"
      BY <2>3 DEF Finish, Tried, Verdict
    <3>4. (\E u \in Tried : is_green(u[2])) => is_green(t[2])
      <4> SUFFICES ASSUME NEW g \in Recorded(entries), is_green(g.score)
                   PROVE  is_green(best(entries).score)
        BY DEF Tried
      <4> QED BY <2>3, <3>1, GreenRanksFirst DEF IInv
    <3>5. Kept' = t[1] /\ Verdict' = IF is_green(t[2]) THEN "done" ELSE "failed"
      BY <2>3, <3>3 DEF IInv, Settled, Kept, Verdict
    <3>6. Promise!Settle(t)
      BY <3>2, <3>3, <3>4, <3>5 DEF Promise!Settle
    <3> QED BY <3>2, <3>6 DEF Promise!Next
  <2>4. CASE GenerateRaises \/ OracleRaises
    <3>1. Promise!Abandon
      BY <2>4 DEF GenerateRaises, OracleRaises, Promise!Abandon, Tried, Kept, Verdict
    <3> QED BY <3>1 DEF Promise!Next
  <2>5. CASE ~(RunOracle \/ Finish \/ GenerateRaises \/ OracleRaises)
    BY <2>5 DEF Next, vars, Plan, Generate, Apply, Refuse,
         ResolveUnscored, ResolveScored, SpendBudget, Ended, Tried, Kept, Verdict
  <2> QED BY <2>1, <2>2, <2>3, <2>4, <2>5
<1> QED BY <1>1, <1>2, Inductive, PTL DEF Spec, KeepsPromise, Promise!Spec
-----------------------------------------------------------------------------
(* What the run reports.  StallsAreReal and ResultIsTrue rest on one more    *)
(* invariant: the events given to on_attempt follow the attempts one by one, *)
(* and the newest says how the newest attempt ended.                         *)

(* Between the head of an iteration and its end the event is still due. *)
InFlight == pc \in {"apply", "oracle", "resolve"}

(* One event per attempt, one call per attempt and for the plan. *)
Counted ==
  pc # "raised" =>
    /\ Len(progress) = Len(results) - (IF InFlight THEN 1 ELSE 0)
    /\ total_calls = Len(results) + (IF plan_first /\ pc # "plan" THEN 1 ELSE 0)

(* What the newest event says of attempt g and of the verdict v it got. *)
Tells(e, g, v) ==
  /\ e.score = IF v = None THEN None ELSE v.score
  /\ e.blocked <=> v = None /\ g.end = "clean"

(* The newest event between two attempts and at the end. *)
Reported ==
  (pc \in {"attempt", "finish"} /\ results # <<>>) =>
    /\ Tells(Last(progress), Last(results), last_attempt)
    /\ pc = "attempt" =>
         /\ Last(results).end = "clean"
         /\ last_attempt # None /\ nudge # 0 =>
              Last(progress).repeats_previous \/ Last(progress).plateaued

(* The newest event while the next attempt is in flight: the one before went  *)
(* on, so it was clean, and it was scored exactly if its reply was usable.    *)
Preceded ==
  InFlight =>
    /\ Len(results) > 1 =>
         LET previous == results[Len(results) - 1]
         IN  /\ previous.end = "clean"
             /\ Usable(previous) => Last(progress).score # None
    /\ nudged =>
         /\ Len(results) > 1
         /\ Last(progress).score # None
         /\ Last(progress).repeats_previous \/ Last(progress).plateaued

RInv == Counted /\ Reported /\ Preceded /\ StallsAreReal /\ ResultIsTrue

(* A resolve step appends one event: the verdict, the flag of the tail and   *)
(* whether the reply repeats the one before.                                 *)
LEMMA ResolveReports ==
  ASSUME IInv, ResolveUnscored \/ ResolveScored
  PROVE  \E e \in Events :
           /\ progress' = Append(progress, e)
           /\ Tells(e, Last(results), last_attempt)
           /\ e.nudged = nudged /\ e.repeats_previous = repeats_previous
           /\ ResolveScored => e.plateaued = (misses_after(last_attempt.score) >= PLATEAU_ATTEMPTS)
           /\ pc = "resolve" /\ UNCHANGED <<results, last_attempt, total_calls, plan_first, outcome>>
<1>1. CASE ResolveUnscored
  <2> DEFINE e == [attempt |-> Len(results), score |-> None, repeats_previous |-> repeats_previous,
                   plateaued |-> misses >= PLATEAU_ATTEMPTS, nudged |-> nudged,
                   blocked |-> None = None /\ Last(results).end = "clean"]
  <2>1. e \in Events
    BY DEF IInv, TypeOK, Events, repeats_previous
  <2>2. progress' = Append(progress, e)
    BY <1>1 DEF ResolveUnscored, Report
  <2>3. Tells(e, Last(results), last_attempt)
    BY <1>1 DEF ResolveUnscored, Tells
  <2>4. ~ResolveScored
    BY <1>1 DEF ResolveUnscored, ResolveScored
  <2> QED BY <1>1, <2>1, <2>2, <2>3, <2>4 DEF ResolveUnscored
<1>2. CASE ResolveScored
  <2> DEFINE s == last_attempt.score
             e == [attempt |-> Len(results), score |-> s, repeats_previous |-> repeats_previous,
                   plateaued |-> misses_after(s) >= PLATEAU_ATTEMPTS, nudged |-> nudged,
                   blocked |-> s = None /\ Last(results).end = "clean"]
  <2>1. s \in Scores /\ s # None
    BY <1>2, NoneAssumption DEF ResolveScored, IInv, TypeOK, ScoredAttempts
  <2>2. e \in Events
    BY <2>1 DEF IInv, TypeOK, Events, repeats_previous
  <2>3. progress' = Append(progress, e)
    BY <1>2 DEF ResolveScored, Report
  <2>4. Tells(e, Last(results), last_attempt)
    BY <1>2, <2>1 DEF ResolveScored, Tells
  <2> QED BY <1>2, <2>2, <2>3, <2>4 DEF ResolveScored
<1> QED BY <1>1, <1>2

(* Only the two resolve steps report. *)
LEMMA OnlyResolveReports ==
  ASSUME [Next]_vars PROVE ResolveUnscored \/ ResolveScored \/ UNCHANGED progress
BY DEF Next, vars, Plan, Generate, GenerateRaises, Apply, Refuse, RunOracle,
       OracleRaises, SpendBudget, Finish, Ended

(* Every step keeps one event per attempt and one call per generation. *)
LEMMA StepCounted == IInv /\ RInv /\ [Next]_vars => Counted'
<1> SUFFICES ASSUME IInv, RInv, [Next]_vars PROVE Counted'
  OBVIOUS
<1>0. /\ Len(results) \in Nat /\ Len(progress) \in Nat /\ total_calls \in Nat /\ Counted
      /\ pc = "plan" => Len(results) = 0
  BY DEF IInv, TypeOK, Position, RInv
<1> USE <1>0 DEF Counted, InFlight
<1>1. CASE Plan
  BY <1>1 DEF Plan
<1>2. CASE Generate
  BY <1>2, AppendsGeneration DEF Generate, IInv
<1>3. CASE ResolveUnscored \/ ResolveScored
  <2>1. PICK e \in Events : progress' = Append(progress, e)
    BY <1>3, ResolveReports
  <2>2. Len(progress') = Len(progress) + 1
    BY <2>1, LastOfAppend DEF IInv, TypeOK
  <2>3. /\ pc = "resolve" /\ pc' \in {"attempt", "finish"}
        /\ UNCHANGED <<results, total_calls, plan_first>>
    BY <1>3 DEF ResolveUnscored, ResolveScored
  <2> QED BY <2>2, <2>3
<1>4. CASE Apply \/ Refuse \/ RunOracle \/ SpendBudget \/ Finish
  BY <1>4 DEF Apply, Refuse, RunOracle, SpendBudget, Finish
<1>5. CASE GenerateRaises \/ OracleRaises
  BY <1>5 DEF GenerateRaises, OracleRaises
<1>6. CASE Ended \/ UNCHANGED vars
  BY <1>6 DEF Ended, vars
<1> QED BY <1>1, <1>2, <1>3, <1>4, <1>5, <1>6 DEF Next

(* Every step keeps the newest event about the newest attempt. *)
LEMMA StepReported == IInv /\ RInv /\ [Next]_vars => Reported'
<1> SUFFICES ASSUME IInv, RInv, [Next]_vars PROVE Reported'
  OBVIOUS
<1>1. CASE ResolveUnscored \/ ResolveScored
  <2>1. PICK e \in Events :
           /\ progress' = Append(progress, e)
           /\ Tells(e, Last(results), last_attempt)
           /\ e.repeats_previous = repeats_previous
           /\ ResolveScored => e.plateaued = (misses_after(last_attempt.score) >= PLATEAU_ATTEMPTS)
           /\ pc = "resolve" /\ UNCHANGED <<results, last_attempt>>
    BY <1>1, ResolveReports
  <2>2. Last(progress') = e
    BY <2>1, LastOfAppend DEF IInv, TypeOK
  <2>3. pc' = "attempt" => Last(results).end = "clean"
    <3>1. CASE ResolveUnscored
      BY <3>1 DEF ResolveUnscored, correction
    <3>2. CASE ResolveScored
      BY <2>1, <3>2 DEF ResolveScored, IInv, LastVerdict, Usable
    <3> QED BY <1>1, <3>1, <3>2
  <2>4. (pc' = "attempt" /\ last_attempt # None /\ nudge' # 0)
          => e.repeats_previous \/ e.plateaued
    BY <1>1, <2>1 DEF ResolveUnscored, ResolveScored, escalation_for
  <2> QED BY <2>1, <2>2, <2>3, <2>4 DEF Reported
<1>2. CASE SpendBudget \/ Plan
  BY <1>2 DEF SpendBudget, Plan, Reported, RInv, IInv, Position, escalation
<1>3. CASE Ended \/ UNCHANGED vars
  BY <1>3 DEF Ended, vars, Reported, RInv
<1>4. CASE ~(ResolveUnscored \/ ResolveScored \/ SpendBudget \/ Plan \/ Ended) /\ Next
  BY <1>4 DEF Next, Generate, GenerateRaises, Apply, Refuse, RunOracle, OracleRaises, Finish,
              Reported
<1> QED BY <1>1, <1>2, <1>3, <1>4

(* Every step keeps what is known of the attempt before the one in flight. *)
LEMMA StepPreceded == IInv /\ RInv /\ [Next]_vars => Preceded'
<1> SUFFICES ASSUME IInv, RInv, [Next]_vars PROVE Preceded'
  OBVIOUS
<1>1. CASE Generate
  <2>1. PICK g \in Generations :
          /\ results' = Append(results, g) /\ Len(results') = Len(results) + 1
          /\ results # <<>> => results'[Len(results') - 1] = Last(results)
    BY <1>1, AppendsGeneration DEF IInv
  <2>2. /\ pc = "attempt" /\ UNCHANGED <<progress, last_attempt>>
        /\ nudged' = next_tail(last_attempt, nudge, reframe)[2]
    BY <1>1 DEF Generate
  <2>3. nudged' => last_attempt # None /\ nudge # 0
    BY <2>2 DEF next_tail
  <2>4. Len(results) \in Nat /\ (results # <<>> <=> Len(results) > 0)
    BY LastInSeq DEF IInv, TypeOK
  <2>5. last_attempt # None => results # <<>> /\ Last(progress).score # None
    <3> SUFFICES ASSUME last_attempt # None PROVE results # <<>> /\ Last(progress).score # None
      OBVIOUS
    <3>1. results # <<>>
      BY DEF IInv, Position
    <3>2. Last(progress).score = last_attempt.score
      BY <2>2, <3>1 DEF RInv, Reported, Tells
    <3>3. last_attempt.score \in Scores
      BY DEF IInv, TypeOK, ScoredAttempts
    <3> QED BY <3>1, <3>2, <3>3, NoneAssumption
  <2>6. results # <<>> /\ Usable(Last(results)) => last_attempt # None
    BY <2>2 DEF IInv, LastVerdict
  <2>7. CASE results = <<>>
    BY <2>1, <2>3, <2>4, <2>5, <2>7 DEF Preceded
  <2>8. CASE results # <<>>
    <3>1. /\ Last(results).end = "clean"
          /\ last_attempt # None /\ nudge # 0 =>
               Last(progress).repeats_previous \/ Last(progress).plateaued
      BY <2>2, <2>8 DEF RInv, Reported
    <3>2. Len(results') > 1 /\ results'[Len(results') - 1] = Last(results)
      BY <2>1, <2>4, <2>8
    <3>3. progress' = progress
      BY <2>2
    <3>4. /\ Last(results).end = "clean"
          /\ Usable(Last(results)) => Last(progress').score # None
      BY <2>5, <2>6, <2>8, <3>1, <3>3
    <3>5. nudged' => /\ Last(progress').score # None
                     /\ Last(progress').repeats_previous \/ Last(progress').plateaued
      BY <2>3, <2>5, <3>1, <3>3
    <3> DEFINE previous == results'[Len(results') - 1]
    <3>6. previous.end = "clean" /\ (Usable(previous) => Last(progress').score # None)
      BY <3>2, <3>4
    <3> QED BY <3>2, <3>5, <3>6 DEF Preceded
  <2> QED BY <2>7, <2>8
<1>2. CASE Apply \/ Refuse \/ RunOracle
  BY <1>2 DEF Apply, Refuse, RunOracle, RInv, Preceded, InFlight, Usable
<1>3. CASE Ended \/ UNCHANGED vars
  BY <1>3 DEF Ended, vars, RInv, Preceded, InFlight, Usable
<1>4. CASE ~(Generate \/ Apply \/ Refuse \/ RunOracle \/ Ended) /\ Next
  BY <1>4 DEF Next, Plan, GenerateRaises, OracleRaises, ResolveUnscored, ResolveScored,
              SpendBudget, Finish, Preceded, InFlight
<1> QED BY <1>1, <1>2, <1>3, <1>4

(* Every event reported keeps the stalls real. *)
LEMMA StepStallsAreReal == IInv /\ RInv /\ [Next]_vars => StallsAreReal'
<1> SUFFICES ASSUME IInv, RInv, [Next]_vars PROVE StallsAreReal'
  OBVIOUS
<1>1. CASE UNCHANGED progress
  BY <1>1 DEF RInv, StallsAreReal
<1>2. CASE ResolveUnscored \/ ResolveScored
  <2>1. PICK e \in Events :
           /\ progress' = Append(progress, e)
           /\ Tells(e, Last(results), last_attempt)
           /\ e.nudged = nudged /\ e.repeats_previous = repeats_previous
           /\ pc = "resolve"
    BY <1>2, ResolveReports
  <2>2. /\ progress \in Seq(Events) /\ results \in Seq(Generations) /\ results # <<>>
        /\ Len(results) \in Nat /\ Len(progress) = Len(results) - 1
    BY <2>1 DEF IInv, TypeOK, Position, RInv, Counted, InFlight
  <2> DEFINE n == Len(progress)
  <2>3. /\ n \in Nat /\ DOMAIN progress' = 1..(n + 1) /\ DOMAIN progress = 1..n
        /\ progress'[n + 1] = e /\ \A i \in 1..n : progress'[i] = progress[i]
    BY <2>1, <2>2
  <2>4. n > 0 => Last(progress) = progress[n]
    BY DEF Last
  <2>5. e.nudged => n > 0 /\ progress[n].score # None
                      /\ (progress[n].repeats_previous \/ progress[n].plateaued)
    BY <2>1, <2>2, <2>3, <2>4 DEF RInv, Preceded, InFlight
  <2>6. (e.repeats_previous /\ e.score # None) => n > 0 /\ progress[n].score # None
    <3> SUFFICES ASSUME e.repeats_previous, e.score # None
                 PROVE  n > 0 /\ progress[n].score # None
      OBVIOUS
    <3>1. Len(results) > 1 /\ Last(results).text = results[Len(results) - 1].text
      BY <2>1 DEF repeats_previous, Last
    <3>2. Usable(Last(results))
      BY <2>1 DEF Tells, IInv, LastVerdict
    <3>3. Usable(results[Len(results) - 1])
      BY <2>1, <3>1, <3>2 DEF Usable, RInv, Preceded, InFlight
    <3> QED BY <2>1, <2>2, <2>3, <2>4, <3>1, <3>3 DEF RInv, Preceded, InFlight
  <2>7. SUFFICES ASSUME NEW i \in 1..(n + 1)
                 PROVE  /\ progress'[i].nudged =>
                             /\ i > 1
                             /\ progress'[i-1].score # None
                             /\ progress'[i-1].repeats_previous \/ progress'[i-1].plateaued
                        /\ (progress'[i].repeats_previous /\ progress'[i].score # None)
                             => i > 1 /\ progress'[i-1].score # None
    BY <2>3 DEF StallsAreReal
  <2>8. CASE i = n + 1
    <3>1. n > 0 => progress'[i - 1] = progress[n]
      BY <2>3, <2>8
    <3> QED BY <2>3, <2>5, <2>6, <2>8, <3>1
  <2>9. CASE i \in 1..n /\ i > 1
    <3>1. progress'[i] = progress[i] /\ progress'[i - 1] = progress[i - 1] /\ i \in DOMAIN progress
      BY <2>3, <2>9
    <3> QED BY <2>9, <3>1 DEF RInv, StallsAreReal
  <2>10. CASE i = 1 /\ n # 0
    <3>1. progress'[1] = progress[1] /\ 1 \in DOMAIN progress /\ ~(1 > 1)
      BY <2>3, <2>10
    <3> QED BY <2>10, <3>1 DEF RInv, StallsAreReal
  <2> QED BY <2>3, <2>8, <2>9, <2>10
<1> QED BY <1>1, <1>2, OnlyResolveReports

(* Every step keeps the result true: what Loop._finish reads is what the     *)
(* last event and the last generation say.                                   *)
LEMMA StepResultIsTrue == IInv /\ RInv /\ [Next]_vars => ResultIsTrue'
<1> SUFFICES ASSUME IInv, RInv, [Next]_vars PROVE ResultIsTrue'
  OBVIOUS
<1>1. CASE Finish
  <2> DEFINE best_score == IF entries = <<>> THEN None ELSE best(entries).score
             g == Last(results)
             green == best_score # None /\ is_green(best_score)
  <2>1. /\ results # <<>> /\ g \in Generations /\ Len(results) \in Nat /\ Len(results) > 0
        /\ pc = "finish" /\ g # None
    <3>1. pc = "finish" /\ results # <<>>
      BY <1>1 DEF Finish, IInv, Position
    <3>2. g \in Generations /\ Len(results) \in Nat /\ Len(results) > 0
      BY <3>1, LastGeneration DEF IInv
    <3> QED BY <3>1, <3>2, NoneAssumption
  <2>2. /\ outcome'.status = terminal_status(g, last_attempt # None, best_score)
        /\ outcome'.fault = (g.end = "fault") /\ outcome'.derail = (g.end = "derail")
        /\ outcome'.attempts = Len(results) /\ outcome'.total_calls = total_calls
        /\ UNCHANGED <<progress, results, plan_first>>
    BY <1>1, <2>1 DEF Finish
  <2>3. green => g.end = "clean"
    <3> SUFFICES ASSUME green PROVE g.end = "clean"
      OBVIOUS
    <3>1. entries # <<>> /\ best(entries) \in Greens
      BY BestIsLeast DEF IInv, Greens
    <3>2. last_attempt # None
      BY <2>1, <3>1 DEF IInv, GreenStops
    <3> QED BY <2>1, <3>2 DEF IInv, LastVerdict, Usable
  <2>4. outcome'.status = IF green THEN "done"
                          ELSE IF g.end = "fault" THEN "faulted"
                          ELSE IF g.end = "derail" THEN "derailed"
                          ELSE IF g.end = "clean" /\ last_attempt = None THEN "blocked"
                          ELSE "exhausted"
    BY <2>1, <2>2 DEF terminal_status, classify_terminal
  <2>5. outcome'.status = "blocked" => Last(progress).blocked
    BY <2>1, <2>4 DEF RInv, Reported, Tells
  <2>6. Len(progress) = Len(results)
        /\ total_calls = Len(results) + (IF plan_first THEN 1 ELSE 0)
    BY <2>1 DEF RInv, Counted, InFlight
  <2> HIDE DEF green
  <2>7. (outcome'.fault <=> outcome'.status = "faulted")
        /\ (outcome'.derail <=> outcome'.status = "derailed")
    BY <2>2, <2>3, <2>4
  <2> QED BY <2>2, <2>5, <2>6, <2>7 DEF ResultIsTrue, Last
<1>2. CASE Ended \/ UNCHANGED vars
  BY <1>2 DEF Ended, vars, RInv, ResultIsTrue
<1>3. CASE ~(Finish \/ Ended) /\ Next
  BY <1>3 DEF Next, Plan, Generate, GenerateRaises, Apply, Refuse, RunOracle, OracleRaises,
              ResolveUnscored, ResolveScored, SpendBudget, ResultIsTrue
<1> QED BY <1>1, <1>2, <1>3

(* The reports and the result hold along with the loop's own invariant. *)
LEMMA Reports == Spec => []RInv
<1>1. Init => RInv
  BY DEF Init, RInv, Counted, InFlight, Reported, Preceded, StallsAreReal, ResultIsTrue
<1>2. IInv /\ RInv /\ [Next]_vars => RInv'
  BY StepCounted, StepReported, StepPreceded, StepStallsAreReal, StepResultIsTrue DEF RInv
<1> QED BY <1>1, <1>2, Inductive, PTL DEF Spec

(* Every escalation the events show follows a scored attempt that stalled,    *)
(* and no reply that reached no oracle counts as a repeat.                    *)
THEOREM StallsReal == Spec => []StallsAreReal
<1>1. RInv => StallsAreReal
  BY DEF RInv
<1> QED BY <1>1, Reports, PTL

(* What the LoopResult says is what happened: the cause, the attempts and the *)
(* calls, whatever the model and the oracle did.                              *)
THEOREM ResultTrue == Spec => []ResultIsTrue
<1>1. RInv => ResultIsTrue
  BY DEF RInv
<1> QED BY <1>1, Reports, PTL

-----------------------------------------------------------------------------
(* What one dispatch promises: the loop's inductive invariant carried        *)
(* through implement and the CLI.                                            *)

Before == stage \in {"envelope", "implement", "loop"}

(* Until an attempt was judged, the file is the one the run began with. *)
Untouched ==
  (entries = <<>> /\ pc \notin {"oracle", "raised"}) => file \in {None, Seed}

(* The loop runs on its own invariant, and nothing is delivered before it ends. *)
Running ==
  /\ Before => IInv /\ Untouched /\ code = None /\ exit = None /\ admitted = None
  /\ caller \in {"cli", "library"} /\ (caller = "cli" => ~managed)

(* Who holds the HTTP client. *)
Held ==
  IF owns_client
    THEN /\ stage \in {"envelope", "implement"} => http = "none"
         /\ stage \in {"report", "exited"} => http \in {"none", "closed"}
    ELSE http = "open"

(* What a returned loop hands over.  A managed worktree is gone by then, so   *)
(* the loop's own invariant no longer speaks of the file.                     *)
Delivered ==
  /\ entries = <<>> =>
       code = None /\ outcome.status # "done" /\ file \in {None, Seed}
  /\ entries # <<>> =>
       /\ best(entries) \in Recorded(entries) /\ best(entries) \in Entries
       /\ code = ReadText[best(entries).file]
       /\ ~managed => file = best(entries).file
       /\ outcome.status = "done" => is_green(best(entries).score)
  /\ outcome.status \in Statuses

(* The exit codes that name an ending of the loop. *)
EndingCodes == {0, 3, 4, 5, 6}

(* What the exit code stands for. *)
ExitMeans ==
  /\ stage = "report" => Delivered /\ exit = None /\ admitted = None
  /\ stage = "exited" /\ caller = "library" => exit = None
  /\ (stage = "exited" /\ exit \in EndingCodes)
       => Delivered /\ exit = exit_code_for(outcome.status)
  /\ admitted # None => stage = "exited" /\ exit = 0 /\ admitted = file

DispatchInv == Running /\ Held /\ ExitMeans /\ stage \in {"envelope", "implement", "loop", "report", "exited"}

-----------------------------------------------------------------------------
(* Every step of the loop keeps an unjudged worktree untouched. *)
LEMMA StepUntouched ==
  ASSUME IInv, Untouched, [Next]_vars PROVE Untouched'
<1>1. CASE RunOracle
  <2>1. entries' # <<>>
    <3>1. PICK s \in Scores :
            entries' = Append(entries, [index |-> Len(results) - 1, score |-> s, file |-> file])
      BY <1>1 DEF RunOracle
    <3>2. [index |-> Len(results) - 1, score |-> s, file |-> file] \in Entries
      BY <1>1, LastGeneration DEF RunOracle, IInv, Position, Usable, Entries
    <3> QED BY <3>1, <3>2, LastOfAppend DEF IInv, TypeOK
  <2> QED BY <2>1 DEF Untouched
<1>2. CASE Finish
  BY <1>2 DEF Finish, restore_best, Untouched
<1>3. CASE Apply \/ OracleRaises \/ GenerateRaises
  BY <1>3 DEF Apply, OracleRaises, GenerateRaises, Untouched
<1>4. CASE Ended \/ UNCHANGED vars
  BY <1>4 DEF Ended, vars, Untouched
<1>5. CASE Plan \/ Generate \/ Refuse \/ ResolveUnscored \/ ResolveScored \/ SpendBudget
  BY <1>5 DEF Plan, Generate, Refuse, ResolveUnscored, ResolveScored, SpendBudget, Untouched
<1> QED BY <1>1, <1>2, <1>3, <1>4, <1>5 DEF Next

(* The codes of LoopStatus are distinct from those of a refusal and a fault,  *)
(* and only DONE exits with zero.                                             *)
LEMMA ExitCodes ==
  ASSUME NEW status \in Statuses
  PROVE  /\ exit_code_for(status) \in EndingCodes
         /\ exit_code_for(status) = 0 => status = "done"
BY DEF exit_code_for, Statuses, EndingCodes

(* What implement reads back when the loop has returned. *)
LEMMA ReadBackDelivers ==
  ASSUME DispatchInv, ReadBack PROVE Delivered'
<1>1. /\ IInv /\ Untouched /\ pc = "returned" /\ UNCHANGED <<entries, outcome, managed, pc>>
      /\ code' = IF outcome.best_score # None THEN ReadText[file] ELSE None
      /\ file' = IF managed THEN None ELSE file
  BY DEF DispatchInv, Running, Before, ReadBack, scratch_removed, LoopVarsButFile
<1>2. outcome.status \in Statuses
  BY <1>1 DEF IInv, Settled
<1>3. CASE entries = <<>>
  <2>1. code' = None /\ file' \in {None, Seed} /\ outcome.status # "done"
    BY <1>1, <1>3 DEF IInv, Settled, Untouched
  <2> QED BY <1>1, <1>2, <1>3, <2>1 DEF Delivered
<1>4. CASE entries # <<>>
  <2> DEFINE b == best(entries)
  <2>1. b \in Recorded(entries) /\ b \in Entries
    BY <1>1, <1>4, BestIsLeast DEF IInv
  <2>2. file = b.file /\ outcome.best_score = b.score /\ (outcome.status = "done" => is_green(b.score))
    BY <1>1, <1>4 DEF IInv, Settled
  <2>3. b.score # None
    BY <2>1, NoneAssumption DEF Entries
  <2>4. code' = ReadText[b.file] /\ (~managed => file' = b.file)
    BY <1>1, <2>2, <2>3
  <2>5. best(entries') = b /\ Recorded(entries') = Recorded(entries)
    BY <1>1
  <2> HIDE DEF b
  <2> QED BY <1>1, <1>2, <1>4, <2>1, <2>2, <2>4, <2>5 DEF Delivered
<1> QED BY <1>3, <1>4

(* The invariant holds when the envelope arrives. *)
LEMMA InitDispatchInv == DispatchInit => DispatchInv
<1> SUFFICES ASSUME DispatchInit PROVE DispatchInv
  OBVIOUS
<1>1. IInv
  BY InitIInv DEF DispatchInit
<1>2. Untouched
  BY DEF DispatchInit, Init, Untouched
<1>3. Running
  BY <1>1, <1>2 DEF DispatchInit, Running, Before
<1>4. Held /\ ExitMeans /\ stage \in {"envelope", "implement", "loop", "report", "exited"}
  BY DEF DispatchInit, Held, ExitMeans
<1> QED BY <1>3, <1>4 DEF DispatchInv

(* A step that leaves the loop alone keeps its invariant. *)
LEMMA LoopAtRest ==
  ASSUME IInv, Untouched, UNCHANGED vars PROVE IInv' /\ Untouched'
BY StepIInv, StepUntouched

(* Every step keeps the loop on its invariant until it has ended. *)
LEMMA StepRunning == DispatchInv /\ [DispatchNext]_dispatch_vars => Running'
<1> SUFFICES ASSUME DispatchInv, [DispatchNext]_dispatch_vars PROVE Running'
  OBVIOUS
<1>1. CASE RunLoop
  <2>1. IInv' /\ Untouched'
    BY <1>1, StepIInv, StepUntouched DEF RunLoop, DispatchInv, Running, Before
  <2> QED BY <1>1, <2>1 DEF RunLoop, dispatch, DispatchInv, Running, Before
<1>2. CASE AcceptEnvelope \/ Wire
  <2>1. IInv' /\ Untouched'
    BY <1>2, LoopAtRest DEF AcceptEnvelope, Wire, DispatchInv, Running, Before
  <2> QED BY <1>2, <2>1 DEF AcceptEnvelope, Wire, DispatchInv, Running, Before
<1>3. CASE RejectEnvelope \/ RefuseShape \/ RefuseEscape \/ ReadBack \/ Fault
             \/ RefuseLate \/ Traceback \/ Report_and_exit \/ Admit
  BY <1>3 DEF RejectEnvelope, RefuseShape, RefuseEscape, ReadBack, Fault, RefuseLate, Traceback,
              Report_and_exit, Admit, DispatchInv, Running, Before
<1>4. CASE Over \/ UNCHANGED dispatch_vars
  <2>1. UNCHANGED vars /\ UNCHANGED dispatch
    BY <1>4 DEF Over, dispatch_vars
  <2>2. Before => IInv' /\ Untouched'
    BY <2>1, LoopAtRest DEF DispatchInv, Running
  <2> QED BY <2>1, <2>2 DEF dispatch, DispatchInv, Running, Before
<1> QED BY <1>1, <1>2, <1>3, <1>4 DEF DispatchNext

(* Every step keeps the client with its owner. *)
LEMMA StepHeld ==
  DispatchInv /\ [DispatchNext]_dispatch_vars
    => Held' /\ (stage \in {"envelope", "implement", "loop", "report", "exited"})'
BY DEF DispatchInv, Held, DispatchNext, RejectEnvelope, AcceptEnvelope, RefuseShape, RefuseEscape,
       Wire, RunLoop, ReadBack, Fault, RefuseLate, Traceback, Report_and_exit, Admit, Over, closed,
       dispatch, dispatch_vars

(* What was delivered stays delivered while the loop's state is at rest. *)
LEMMA DeliveredAtRest ==
  ASSUME Delivered, UNCHANGED vars, UNCHANGED <<code, managed>> PROVE Delivered'
BY DEF Delivered, vars

(* Every step keeps the meaning of the exit code. *)
LEMMA StepExitMeans == DispatchInv /\ [DispatchNext]_dispatch_vars => ExitMeans'
<1> SUFFICES ASSUME DispatchInv, [DispatchNext]_dispatch_vars PROVE ExitMeans'
  OBVIOUS
<1>0. None \notin Nat
  BY ConstantsAssumption
<1> USE DEF EXIT_TRACEBACK, EXIT_REJECTED_TASK, EXIT_HARNESS_FAULT, EndingCodes
<1>1. CASE RunLoop \/ AcceptEnvelope \/ Wire
  BY <1>1 DEF RunLoop, AcceptEnvelope, Wire, dispatch, DispatchInv, Running, Before, ExitMeans
<1>2. CASE RejectEnvelope \/ RefuseShape \/ RefuseEscape \/ Fault \/ RefuseLate \/ Traceback
  BY <1>0, <1>2 DEF RejectEnvelope, RefuseShape, RefuseEscape, Fault, RefuseLate, Traceback,
              exit_with, DispatchInv, Running, Before, ExitMeans
<1>3. CASE ReadBack
  BY <1>3, ReadBackDelivers DEF ReadBack, DispatchInv, Running, Before, ExitMeans
<1>4. CASE Report_and_exit
  <2>1. Delivered /\ admitted = None
    BY <1>4 DEF Report_and_exit, DispatchInv, ExitMeans
  <2>2. Delivered' /\ outcome' = outcome
    BY <1>4, <2>1, DeliveredAtRest DEF Report_and_exit, vars
  <2>3. exit' = IF caller = "cli" THEN exit_code_for(outcome.status) ELSE None
    BY <1>4 DEF Report_and_exit, exit_with
  <2>4. stage' = "exited" /\ UNCHANGED <<caller, admitted>>
    BY <1>4 DEF Report_and_exit
  <2> HIDE DEF EndingCodes
  <2>5. caller' = "library" => exit' = None
    BY <2>3, <2>4
  <2>6. exit' \in EndingCodes => caller = "cli"
    BY <1>0, <2>3 DEF EndingCodes
  <2>7. exit' \in EndingCodes => exit' = exit_code_for(outcome'.status)
    BY <2>2, <2>3, <2>6
  <2>8. admitted' = None /\ stage' = "exited"
    BY <2>1, <2>4
  <2> QED BY <2>2, <2>5, <2>7, <2>8 DEF ExitMeans
<1>5. CASE Admit
  <2>1. /\ stage = "exited" /\ exit = 0 /\ admitted' = file
        /\ UNCHANGED vars /\ UNCHANGED <<caller, managed, stage, code, exit>>
    BY <1>5 DEF Admit
  <2>2. Delivered => Delivered'
    BY <2>1, DeliveredAtRest
  <2>3. file' = file /\ outcome' = outcome
    BY <2>1 DEF vars
  <2> QED BY <2>1, <2>2, <2>3 DEF DispatchInv, ExitMeans
<1>6. CASE Over \/ UNCHANGED dispatch_vars
  <2>1. UNCHANGED vars /\ UNCHANGED dispatch
    BY <1>6 DEF Over, dispatch_vars
  <2>2. Delivered => Delivered'
    BY <2>1, DeliveredAtRest DEF dispatch
  <2>3. file' = file /\ outcome' = outcome
    BY <2>1 DEF vars
  <2> QED BY <2>1, <2>2, <2>3 DEF dispatch, DispatchInv, ExitMeans
<1> QED BY <1>1, <1>2, <1>3, <1>4, <1>5, <1>6 DEF DispatchNext

-----------------------------------------------------------------------------
(* The invariant of a dispatch: the loop's own while it runs, and what its    *)
(* result became on the way out.                                              *)
THEOREM DispatchInductive == DispatchSpec => []DispatchInv
<1>1. DispatchInv /\ [DispatchNext]_dispatch_vars => DispatchInv'
  BY StepRunning, StepHeld, StepExitMeans DEF DispatchInv
<1> QED BY <1>1, InitDispatchInv, PTL DEF DispatchSpec

(* Nothing is admitted to a real working tree but a file the oracle passed in *)
(* this run, and it is the code the outcome carries.                          *)
THEOREM OnlyGreenIsAdmitted == DispatchSpec => []AdmittedIsGreen
<1>1. DispatchInv => AdmittedIsGreen
  <2> SUFFICES ASSUME DispatchInv, admitted # None
               PROVE  (\E e \in Greens : e.file = admitted) /\ code = ReadText[admitted]
    BY DEF AdmittedIsGreen
  <2>1. stage = "exited" /\ exit = 0 /\ admitted = file /\ caller = "cli" /\ ~managed
    BY ConstantsAssumption DEF DispatchInv, Running, ExitMeans
  <2>2. Delivered /\ exit_code_for(outcome.status) = 0
    BY <2>1 DEF DispatchInv, ExitMeans, EndingCodes
  <2>3. outcome.status = "done"
    BY <2>2, ExitCodes DEF Delivered
  <2> QED BY <2>1, <2>2, <2>3 DEF Delivered, Greens
<1> QED BY <1>1, DispatchInductive, PTL

(* The code an outcome carries was judged by the oracle: never a seeded file  *)
(* and never an edit without a verdict.                                       *)
THEOREM OnlyScoredIsReported == DispatchSpec => []CodeIsScored
<1>1. DispatchInv => CodeIsScored
  <2> SUFFICES ASSUME DispatchInv, stage = "report"
               PROVE  /\ code # None <=> entries # <<>>
                      /\ code # None => \E e \in Recorded(entries) : ReadText[e.file] = code
    BY DEF CodeIsScored
  <2>1. Delivered
    BY DEF DispatchInv, ExitMeans
  <2>2. entries # <<>> => ReadText[best(entries).file] # None
    BY <2>1, ReadTextAssumption DEF Delivered, Entries
  <2> QED BY <2>1, <2>2 DEF Delivered
<1> QED BY <1>1, DispatchInductive, PTL

(* The client implement made is closed on every way out; an injected one is   *)
(* left open.                                                                 *)
THEOREM ClientReleased == DispatchSpec => []ClientIsReleased
<1>1. DispatchInv => ClientIsReleased
  BY DEF DispatchInv, Held, ClientIsReleased
<1> QED BY <1>1, DispatchInductive, PTL

(* An exit code that names an ending of the loop is only given over a        *)
(* worktree that holds the best judged attempt of the run, or what it held   *)
(* before.                                                                   *)
THEOREM WorktreeSettled == DispatchSpec => []WorktreeIsSettled
<1>1. DispatchInv => WorktreeIsSettled
  <2> SUFFICES ASSUME DispatchInv, stage = "exited",
                      NEW status \in Statuses, exit = exit_code_for(status)
               PROVE  \/ entries = <<>> /\ file \in {None, Seed} /\ code = None
                      \/ entries # <<>> /\ file = best(entries).file /\ code = ReadText[file]
    BY DEF WorktreeIsSettled
  <2>1. exit \in EndingCodes
    BY ExitCodes
  <2>2. Delivered
    BY <2>1 DEF DispatchInv, ExitMeans
  <2>3. ~managed
    BY <2>1, ConstantsAssumption DEF DispatchInv, Running, ExitMeans, EndingCodes
  <2> QED BY <2>2, <2>3 DEF Delivered
<1> QED BY <1>1, DispatchInductive, PTL
=============================================================================
