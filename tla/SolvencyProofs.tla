--------------------------- MODULE SolvencyProofs ---------------------------
(***************************************************************************)
(* The totals the contract keeps beside the jobs, moved by differences in  *)
(* every call, are the sums they stand for, and what the contract owns     *)
(* covers what it owes, for any number of jobs, users and tokens.          *)
(***************************************************************************)
EXTENDS GuardProofs, WellFoundedInduction

(***************************************************************************)
(* Sums of integers over finite sets.  There is no induction over data     *)
(* here, but a set for which a statement fails has a smallest subset for   *)
(* which it fails.                                                         *)
(***************************************************************************)
\* g adds up f over every set of T, one element at a time.
AddsUp(g, f, T) ==
  /\ g \in [SUBSET T -> Int]
  /\ g[{}] = 0
  /\ \A x \in T : f[x] \in Int
  /\ \A U \in SUBSET T : \A x \in U : g[U] = f[x] + g[U \ {x}]

LEMMA SmallestSet ==
  ASSUME NEW S, IsFiniteSet(S), NEW Bad \in SUBSET (SUBSET S), Bad # {}
  PROVE  \E T \in Bad : \A x \in T : T \ {x} \notin Bad
<1>1. IsWellFoundedOn(StrictSubsetOrdering(S), SUBSET S)
  BY FS_StrictSubsetOrderingWellFounded, FS_FiniteSubsetsOfFinite
<1>2. PICK T \in Bad : \A U \in Bad : ~(<<U, T>> \in StrictSubsetOrdering(S))
  BY <1>1, WFMin
<1>3. ASSUME NEW x \in T  PROVE T \ {x} \notin Bad
  <2>1. <<T \ {x}, T>> \in StrictSubsetOrdering(S)
    BY DEF StrictSubsetOrdering
  <2> QED
    BY <1>2, <2>1
<1> QED
  BY <1>3

LEMMA OneMoreAddsUp ==
  ASSUME NEW T, NEW x \in T, NEW f, f[x] \in Int, NEW g, AddsUp(g, f, T \ {x})
  PROVE  \E h : AddsUp(h, f, T)
<1> DEFINE h == [U \in SUBSET T |-> IF x \in U THEN f[x] + g[U \ {x}] ELSE g[U]]
<1>1. \A U \in SUBSET T : /\ U \ {x} \in SUBSET (T \ {x}) /\ g[U \ {x}] \in Int
                          /\ x \notin U => U = U \ {x}
  BY DEF AddsUp
<1>2. h \in [SUBSET T -> Int]
  <2> SUFFICES ASSUME NEW U \in SUBSET T
               PROVE  (IF x \in U THEN f[x] + g[U \ {x}] ELSE g[U]) \in Int
    BY Zenon
  <2> QED
    BY <1>1
<1>3. h[{}] = 0
  BY DEF AddsUp
<1>4. ASSUME NEW U \in SUBSET T, NEW y \in U  PROVE h[U] = f[y] + h[U \ {y}]
  <2>0. /\ U \ {y} \in SUBSET T /\ U \ {x} \in SUBSET (T \ {x})
        /\ (U \ {y}) \ {x} = (U \ {x}) \ {y}
    OBVIOUS
  <2>1. CASE y = x
    BY <2>0, <2>1
  <2>2. CASE y # x /\ x \in U
    <3>1. g[U \ {x}] = f[y] + g[(U \ {x}) \ {y}]
      BY <2>0, <2>2 DEF AddsUp
    <3>2. h[U] = f[x] + g[U \ {x}] /\ h[U \ {y}] = f[x] + g[(U \ {x}) \ {y}]
      BY <2>0, <2>2
    <3>3. f[y] + g[(U \ {x}) \ {y}] \in Int /\ g[(U \ {x}) \ {y}] \in Int
      BY <1>1, <2>0, <3>1
    <3>4. f[y] \in Int
      BY <2>0, <3>1 DEF AddsUp
    <3> HIDE DEF h
    <3> QED
      BY <3>1, <3>2, <3>3, <3>4
  <2>3. CASE x \notin U
    <3>1. U \in SUBSET (T \ {x})
      BY <2>3
    <3> QED
      BY <2>0, <2>3, <3>1 DEF AddsUp
  <2> QED
    BY <2>1, <2>2, <2>3
<1>5. AddsUp(h, f, T)
  BY <1>2, <1>3, <1>4 DEF AddsUp
<1> QED
  BY <1>5

LEMMA SumsExist ==
  ASSUME NEW S, IsFiniteSet(S), NEW f \in [S -> Int]
  PROVE  \E g : AddsUp(g, f, S)
<1> DEFINE Bad == {T \in SUBSET S : ~ \E g : AddsUp(g, f, T)}
<1>1. ASSUME Bad # {}  PROVE FALSE
  <2>1. PICK T \in Bad : \A x \in T : T \ {x} \notin Bad
    BY <1>1, SmallestSet
  <2>2. CASE T = {}
    <3>1. AddsUp([U \in SUBSET T |-> 0], f, T)
      BY <2>2 DEF AddsUp
    <3> QED
      BY <2>1, <3>1
  <2>3. ASSUME NEW x \in T  PROVE FALSE
    <3>1. PICK g : AddsUp(g, f, T \ {x})
      BY <2>1, <2>3
    <3>2. f[x] \in Int
      BY <2>3
    <3> QED
      BY <2>1, <2>3, <3>1, <3>2, OneMoreAddsUp
  <2> QED
    BY <2>2, <2>3
<1> QED
  BY <1>1

\* What adds up f and what follows one choice of elements for a function that
\* agrees with f have the same value.
Follows(h, f, S) ==
  /\ h[{}] = 0
  /\ \A T \in SUBSET S : T # {} => \E x \in T : h[T] = f[x] + h[T \ {x}]

LEMMA SumsAgree ==
  ASSUME NEW S, IsFiniteSet(S), NEW f, NEW g, AddsUp(g, f, S), NEW h, Follows(h, f, S)
  PROVE  h[S] = g[S]
<1> DEFINE Bad == {T \in SUBSET S : h[T] # g[T]}
<1>1. ASSUME Bad # {}  PROVE FALSE
  <2>1. PICK T \in Bad : \A x \in T : T \ {x} \notin Bad
    BY <1>1, SmallestSet
  <2>2. T # {}
    BY <2>1 DEF AddsUp, Follows
  <2>3. PICK x \in T : h[T] = f[x] + h[T \ {x}]
    BY <2>1, <2>2 DEF Follows
  <2>4. h[T \ {x}] = g[T \ {x}]
    BY <2>1, <2>3
  <2>5. g[T] = f[x] + g[T \ {x}]
    BY <2>1, <2>3 DEF AddsUp
  <2> QED
    BY <2>1, <2>3, <2>4, <2>5
<1> QED
  BY <1>1

\* The fold of the library adds up.
LEMMA SumIs ==
  ASSUME NEW S, IsFiniteSet(S), NEW f, DOMAIN f = S, NEW g, AddsUp(g, f, S)
  PROVE  SumFunction(f) = g[S] /\ g[S] \in Int
<1> DEFINE Fold(r) == [s \in SUBSET S |-> IF s = {} THEN 0
                                         ELSE LET x == CHOOSE y \in s : TRUE IN f[x] + r[s \ {x}]]
           iter == CHOOSE r : r = Fold(r)
<1>1. SumFunction(f) = iter[S]
  BY DEF SumFunction, SumFunctionOnSet, FoldFunctionOnSet, MapThenFoldSet
<1>2. g = Fold(g)
  <2>1. ASSUME NEW s \in SUBSET S
        PROVE  g[s] = IF s = {} THEN 0 ELSE LET x == CHOOSE y \in s : TRUE IN f[x] + g[s \ {x}]
    BY DEF AddsUp
  <2>2. g = [s \in SUBSET S |-> g[s]]
    BY DEF AddsUp
  <2> QED
    BY <2>1, <2>2
<1>3. iter = Fold(iter)
  BY <1>2
<1>4. iter[{}] = 0
  BY <1>3
<1>5. ASSUME NEW T \in SUBSET S, T # {}
      PROVE  \E x \in T : iter[T] = f[x] + iter[T \ {x}]
  <2>1. (CHOOSE y \in T : TRUE) \in T
    BY <1>5
  <2> HIDE DEF iter
  <2> QED
    BY <1>3, <1>5, <2>1
<1> HIDE DEF iter
<1>6. Follows(iter, f, S)
  BY <1>4, <1>5 DEF Follows
<1>7. iter[S] = g[S]
  BY <1>6, SumsAgree
<1> QED
  BY <1>1, <1>7 DEF AddsUp

LEMMA SumType ==
  ASSUME NEW S, IsFiniteSet(S), NEW f \in [S -> Int]
  PROVE  SumFunction(f) \in Int
BY SumsExist, SumIs

LEMMA SumOfZeros ==
  ASSUME NEW S, IsFiniteSet(S)
  PROVE  SumFunction([x \in S |-> 0]) = 0
<1> DEFINE f == [x \in S |-> 0]
           g == [T \in SUBSET S |-> 0]
<1>1. AddsUp(g, f, S)
  BY DEF AddsUp
<1>2. DOMAIN f = S /\ g[S] = 0
  OBVIOUS
<1> HIDE DEF f, g
<1>3. SumFunction(f) = 0
  BY <1>1, <1>2, SumIs
<1> QED
  BY <1>3 DEF f

\* A sum moves with the value of one element.
LEMMA SumChange ==
  ASSUME NEW S, IsFiniteSet(S), NEW f \in [S -> Int], NEW e \in [S -> Int], NEW x \in S,
         \A y \in S \ {x} : e[y] = f[y]
  PROVE  SumFunction(e) = SumFunction(f) - f[x] + e[x]
<1>1. PICK g : AddsUp(g, f, S)
  BY SumsExist
<1>2. PICK h : AddsUp(h, e, S)
  BY SumsExist
<1>3. SumFunction(f) = g[S] /\ SumFunction(e) = h[S]
  BY <1>1, <1>2, SumIs
<1>4. g[S] = f[x] + g[S \ {x}] /\ h[S] = e[x] + h[S \ {x}]
  BY <1>1, <1>2 DEF AddsUp
<1> DEFINE R == S \ {x}
           gr == [T \in SUBSET R |-> g[T]]
<1>5. IsFiniteSet(R) /\ R \in SUBSET S /\ SUBSET R \subseteq SUBSET S
  BY FS_RemoveElement
<1>6. AddsUp(gr, f, R)
  <2>1. \A U \in SUBSET R : U \in SUBSET S /\ gr[U] = g[U] /\ \A y : U \ {y} \in SUBSET R
    BY <1>5
  <2>2. {} \in SUBSET R
    OBVIOUS
  <2>3. gr \in [SUBSET R -> Int]
    BY <1>1, <1>5 DEF AddsUp
  <2> HIDE DEF gr
  <2> QED
    BY <1>1, <1>5, <2>1, <2>2, <2>3 DEF AddsUp
<1>7. h[{}] = 0
  BY <1>2 DEF AddsUp
<1>8. Follows(h, f, R)
  <2>1. ASSUME NEW T \in SUBSET R, T # {}  PROVE \E y \in T : h[T] = f[y] + h[T \ {y}]
    <3>1. PICK y : y \in T
      BY <2>1
    <3>2. h[T] = e[y] + h[T \ {y}]
      BY <1>2, <1>5, <3>1 DEF AddsUp
    <3>3. e[y] = f[y]
      BY <2>1, <3>1
    <3> QED
      BY <3>1, <3>2, <3>3
  <2> HIDE DEF R
  <2> QED
    BY <1>7, <2>1 DEF Follows
<1>9. gr[R] = g[R]
  OBVIOUS
<1>10. h[R] = g[R]
  <2> HIDE DEF gr, R
  <2> QED
    BY <1>5, <1>6, <1>8, <1>9, SumsAgree
<1>11. g[R] \in Int /\ f[x] \in Int /\ e[x] \in Int
  BY <1>1, <1>5 DEF AddsUp
<1> QED
  BY <1>3, <1>4, <1>10, <1>11

\* The sum of a sum.
LEMMA SumMonotone ==
  ASSUME NEW S, IsFiniteSet(S), NEW f \in [S -> Int], NEW e \in [S -> Int],
         \A x \in S : f[x] <= e[x]
  PROVE  SumFunction(f) <= SumFunction(e)
<1>1. PICK g : AddsUp(g, f, S)
  BY SumsExist
<1>2. PICK h : AddsUp(h, e, S)
  BY SumsExist
<1>3. SumFunction(f) = g[S] /\ SumFunction(e) = h[S]
  BY <1>1, <1>2, SumIs
<1> DEFINE Bad == {T \in SUBSET S : ~(g[T] <= h[T])}
<1>4. ASSUME Bad # {}  PROVE FALSE
  <2>1. PICK T \in Bad : \A x \in T : T \ {x} \notin Bad
    BY <1>4, SmallestSet
  <2>2. g[{}] = 0 /\ h[{}] = 0
    BY <1>1, <1>2 DEF AddsUp
  <2>3. ASSUME T = {}  PROVE FALSE
    <3>1. g[T] = 0 /\ h[T] = 0
      BY <2>2, <2>3
    <3>2. ~(g[T] <= h[T])
      BY <2>1
    <3> QED
      BY <3>1, <3>2
  <2>4. PICK x : x \in T
    BY <2>3
  <2>5. g[T \ {x}] <= h[T \ {x}]
    BY <2>1, <2>4
  <2>6. /\ g[T] = f[x] + g[T \ {x}] /\ h[T] = e[x] + h[T \ {x}]
        /\ f[x] \in Int /\ e[x] \in Int /\ g[T \ {x}] \in Int /\ h[T \ {x}] \in Int
    BY <1>1, <1>2, <2>1, <2>4 DEF AddsUp
  <2>7. f[x] <= e[x]
    BY <2>1, <2>4
  <2>8. g[T] <= h[T]
    BY <2>5, <2>6, <2>7
  <2> QED
    BY <2>1, <2>8
<1> QED
  BY <1>3, <1>4

\* One more element, and the others no less than before.
LEMMA SumGrows ==
  ASSUME NEW S, IsFiniteSet(S), NEW f \in [S -> Int], NEW x, x \notin S,
         NEW e \in [S \cup {x} -> Int], \A y \in S : f[y] <= e[y]
  PROVE  SumFunction(f) + e[x] <= SumFunction(e)
<1> DEFINE rest == [y \in S |-> e[y]]
<1>1. IsFiniteSet(S \cup {x})
  BY FS_AddElement
<1>2. PICK g : AddsUp(g, e, S \cup {x})
  BY <1>1, SumsExist
<1>3. SumFunction(e) = g[S \cup {x}] /\ g[S \cup {x}] = e[x] + g[S] /\ g[S] \in Int /\ e[x] \in Int
  <2>1. (S \cup {x}) \ {x} = S
    OBVIOUS
  <2>2. SumFunction(e) = g[S \cup {x}]
    BY <1>1, <1>2, SumIs
  <2>3. g[S \cup {x}] = e[x] + g[S] /\ g[S] \in Int /\ e[x] \in Int
    BY <1>2, <2>1 DEF AddsUp
  <2> QED
    BY <2>2, <2>3
<1> DEFINE h == [U \in SUBSET S |-> g[U]]
<1>4. AddsUp(h, rest, S)
  BY <1>2 DEF AddsUp
<1>5. SumFunction(rest) = g[S]
  BY <1>4, SumIs
<1>6. rest \in [S -> Int] /\ \A y \in S : f[y] <= rest[y]
  OBVIOUS
<1> HIDE DEF rest
<1>7. SumFunction(f) <= SumFunction(rest) /\ SumFunction(f) \in Int
  BY <1>6, SumMonotone, SumType
<1> QED
  BY <1>3, <1>5, <1>7

LEMMA MaxOfFinite ==
  ASSUME NEW S \in SUBSET Int, IsFiniteSet(S), S # {}
  PROVE  Max(S) \in S /\ \A y \in S : y <= Max(S)
<1> DEFINE Bad == {T \in SUBSET S : T # {} /\ ~ \E m \in T : \A y \in T : m >= y}
<1>1. ASSUME Bad # {}  PROVE FALSE
  <2>1. PICK T \in Bad : \A x \in T : T \ {x} \notin Bad
    BY <1>1, SmallestSet
  <2>2. PICK x : x \in T
    BY <2>1
  <2>3. T \ {x} = {} \/ \E m \in T \ {x} : \A y \in T \ {x} : m >= y
    BY <2>1, <2>2
  <2>4. CASE T \ {x} = {}
    BY <2>1, <2>2, <2>4
  <2>5. ASSUME NEW m \in T \ {x}, \A y \in T \ {x} : m >= y  PROVE FALSE
    <3>1. m \in Int /\ x \in Int /\ m \in T /\ T \subseteq Int
      BY <2>1, <2>2, <2>5
    <3>2. CASE m >= x
      <4>1. \A y \in T : m >= y
        BY <2>5, <3>2
      <4> QED
        BY <2>1, <3>1, <4>1
    <3>3. CASE x >= m
      <4>1. \A y \in T : x >= y
        BY <2>5, <3>1, <3>3
      <4> QED
        BY <2>1, <2>2, <4>1
    <3> QED
      BY <3>1, <3>2, <3>3
  <2> QED
    BY <2>3, <2>4, <2>5
<1>2. \E m \in S : \A y \in S : m >= y
  BY <1>1
<1> HIDE DEF Bad
<1>3. Max(S) \in S /\ \A y \in S : Max(S) >= y
  BY <1>2 DEF Max
<1> QED
  BY <1>3

-----------------------------------------------------------------------------
(***************************************************************************)
(* What a step of the contract does to its books.                          *)
(***************************************************************************)
JobsKeepBooks(j, job) ==
  /\ job \in Job
  /\ jobs' = [jobs EXCEPT ![j] = job]
  /\ escrowBal[j] > 0 => job.token = jobs[j].token

\* The record changes and no money moves.
Noted(j, job) ==
  /\ JobsKeepBooks(j, job)
  /\ is_active_job_status(jobs[j]) /\ is_active_job_status(job)
  /\ "Disputed" \notin {jobs[j].status, job.status}
  /\ job.token = jobs[j].token
  /\ UNCHANGED <<escrowVars, moneyVars, disputeVars, settingVars>>

\* A client puts money into a job, and perhaps some more.
Funded(j, job, amount) ==
  /\ JobsKeepBooks(j, job)
  /\ ~IsTerminal(jobs[j]) /\ is_active_job_status(job)
  /\ "Disputed" \notin {jobs[j].status, job.status}
  /\ job.token \in policy.allowedTokens \/ escrowBal[j] > 0
  /\ set_escrow_balance(j, job.token, job.amount)
  /\ amount >= 0 /\ amount >= job.amount - escrowBal[j]
  /\ In(job.token, amount)
  /\ UNCHANGED <<tokenFees, burnPool, totalBurned, paid, disputeVars, settingVars>>

\* A party pays for a dispute, and for an oracle if one is assigned.
Contested(j, job) ==
  /\ JobsKeepBooks(j, job)
  /\ is_active_job_status(jobs[j]) /\ jobs[j].status # "Disputed" /\ job.status = "Disputed"
  /\ job.token = jobs[j].token
  /\ deposit' = [deposit EXCEPT ![j] = fees.disputeFee]
  /\ \/ In(Native, fees.disputeFee) /\ UNCHANGED assigned
     \/ In(Native, fees.disputeFee + fees.oracleFee)
        /\ \A k \in JobId \ {j} : assigned'[k] = assigned[k]
  /\ UNCHANGED <<escrowVars, tokenFees, burnPool, totalBurned, paid, settingVars>>

\* A job ends; a deposit or an oracle's fee may leave with it.
Divided(j, status, split, extra) ==
  /\ is_active_job_status(jobs[j])
  /\ status \in TerminalStatus
  /\ split \in Shares
  /\ Settle(j, status, split, extra)
  /\ \/ extra = 0
     \/ extra = deposit[j] /\ jobs[j].status = "Disputed"
     \/ extra = fees.oracleFee /\ jobs[j].status = "Disputed" /\ assigned[j] # NoOne
  /\ \A k \in JobId \ {j} : deposit'[k] = deposit[k] /\ assigned'[k] = assigned[k]
  /\ UNCHANGED settingVars

\* Money leaves in favour of nobody's job, or settings change.
Outside ==
  /\ UNCHANGED <<jobVars, escrowVars, paid, disputeVars>>
  /\ \/ UNCHANGED <<moneyVars, policy>>
     \/ /\ UNCHANGED moneyVars
        /\ \A t \in policy.allowedTokens \ policy'.allowedTokens : tokenActive[t] = 0
     \/ \E t \in Tokens : withdraw_fees(t)
     \/ \E a \in Int : execute_burn(a)
     \/ \E u \in Users : withdraw_referral_earnings(u) \/ claim_onboarding_bonus(u)

BookStep ==
  \/ \E j \in JobId, job \in Job : Noted(j, job) \/ Contested(j, job)
  \/ \E j \in JobId, job \in Job, amount \in Int : Funded(j, job, amount)
  \/ \E j \in JobId, status \in TerminalStatus, split \in Shares, extra \in Int :
       Divided(j, status, split, extra)
  \/ Outside

LEMMA CreateFunds ==
  ASSUME TypeOK, EscrowMatchesStatus, NEW client \in Users, NEW amount \in Nat, NEW bonus \in Nat,
         NEW date \in Nat, NEW token \in Tokens,
         CreateJob(client, amount, bonus, date, token)
  PROVE  BookStep
<1> DEFINE job == NewJob(client, amount, token, date)
           j == jobsCount + 1
<1>1. jobsCount \in Nat /\ MaxJobs \in Nat /\ jobsCount < MaxJobs
  BY CustodyAssumption DEF TypeOK, JobTypeOK, CreateJob
<1>2. j \in JobId
  BY <1>1 DEF JobId
<1>3. jobs[j].status = "Absent" /\ escrowBal[j] = 0
  BY <1>1, <1>2 DEF EscrowMatchesStatus, is_active_job_status, ActiveStatus
<1>4. job \in Job /\ job.status = "Open" /\ job.amount = amount /\ job.token = token
  BY DEF NewJob, Job, JobStatus, ActiveStatus, MAX_REVISIONS
<1>5. /\ jobs' = [jobs EXCEPT ![j] = job]
      /\ token \in policy.allowedTokens
      /\ set_escrow_balance(j, token, amount)
      /\ In(token, amount + bonus) /\ bonus >= 0
      /\ UNCHANGED <<tokenFees, burnPool, totalBurned, paid, disputeVars, settingVars>>
  BY DEF CreateJob, set_job
<1> HIDE DEF job, j
<1>6. JobsKeepBooks(j, job)
  BY <1>3, <1>4, <1>5 DEF JobsKeepBooks
<1>7. amount + bonus >= amount - 0 /\ amount + bonus \in Int /\ amount + bonus >= 0
  BY <1>5
<1>8. /\ ~IsTerminal(jobs[j]) /\ is_active_job_status(job)
      /\ "Disputed" \notin {jobs[j].status, job.status}
  BY <1>3, <1>4 DEF is_active_job_status, ActiveStatus, IsTerminal, TerminalStatus
<1>9. Funded(j, job, amount + bonus)
  BY <1>3, <1>4, <1>5, <1>6, <1>7, <1>8 DEF Funded
<1> QED
  BY <1>2, <1>4, <1>7, <1>9 DEF BookStep

\* A change of an active record that is not a dispute.
LEMMA AdvanceNotes ==
  ASSUME NEW j \in JobId, NEW job \in Job, Advance(j, job),
         is_active_job_status(jobs[j]), is_active_job_status(job),
         "Disputed" \notin {jobs[j].status, job.status}, job.token = jobs[j].token
  PROVE  BookStep
<1>1. Noted(j, job)
  BY DEF Noted, JobsKeepBooks, Advance, set_job
<1> QED
  BY <1>1 DEF BookStep

LEMMA WorkingBooks ==
  ASSUME TypeOK, EscrowMatchesStatus, NEW u \in Users, NEW j \in JobId, Working(u, j)
  PROVE  BookStep
<1> DEFINE old == jobs[j]
<1>1. old \in Job /\ "InProgress" \in JobStatus /\ "SubmittedForReview" \in JobStatus
      /\ "Disputed" \in JobStatus
  BY JobRecord DEF TypeOK, JobStatus, ActiveStatus
<1>2. CASE AcceptJob(u, j)
  <2> DEFINE new == [old EXCEPT !.freelancer = u, !.status = "InProgress"]
  <2>1. new \in Job /\ new.status = "InProgress" /\ new.token = old.token
    BY <1>1 DEF Job
  <2>2. Advance(j, new) /\ old.status = "Open"
    BY <1>2 DEF AcceptJob
  <2> HIDE DEF new
  <2> QED
    BY <2>1, <2>2, AdvanceNotes DEF is_active_job_status, ActiveStatus
<1>3. CASE SubmitWork(u, j)
  <2> DEFINE new == [old EXCEPT !.status = "SubmittedForReview"]
  <2>1. new \in Job /\ new.status = "SubmittedForReview" /\ new.token = old.token
    BY <1>1 DEF Job
  <2>2. Advance(j, new) /\ old.status = "InProgress"
    BY <1>3 DEF SubmitWork
  <2> HIDE DEF new
  <2> QED
    BY <2>1, <2>2, AdvanceNotes DEF is_active_job_status, ActiveStatus
<1>4. CASE RejectWork(u, j)
  <2> DEFINE new == [old EXCEPT !.status = "InProgress", !.revisions = @ + 1]
  <2>1. old.revisions + 1 \in 0 .. MAX_REVISIONS
    BY <1>1, <1>4 DEF RejectWork, CanRevise, MAX_REVISIONS, Job
  <2>2. new \in Job
    BY <1>1, <2>1, RecordChanges
  <2>3. new.status = "InProgress" /\ new.token = old.token
    BY <1>1 DEF Job
  <2>4. Advance(j, new) /\ old.status = "SubmittedForReview"
    BY <1>4 DEF RejectWork
  <2> HIDE DEF new
  <2> QED
    BY <2>2, <2>3, <2>4, AdvanceNotes DEF is_active_job_status, ActiveStatus
<1>5. ASSUME NEW d \in Nat, ExtendDeadline(u, j, d)  PROVE BookStep
  <2> DEFINE new == [old EXCEPT !.deadline = d]
  <2>1. new \in Job /\ new.status = old.status /\ new.token = old.token
    BY <1>1 DEF Job
  <2>2. Advance(j, new) /\ old.status \in {"InProgress", "SubmittedForReview"}
    BY <1>5 DEF ExtendDeadline
  <2> HIDE DEF new
  <2> QED
    BY <2>1, <2>2, AdvanceNotes DEF is_active_job_status, ActiveStatus
<1>6. ASSUME NEW a \in Nat, TopUpEscrow(u, j, a)  PROVE BookStep
  <2> DEFINE new == [old EXCEPT !.amount = @ + a]
  <2>1. new \in Job /\ new.status = old.status /\ new.token = old.token /\ new.amount = old.amount + a
    BY <1>1 DEF Job
  <2>2. /\ old.status \in {"Open", "InProgress", "SubmittedForReview"} /\ a > 0
        /\ jobs' = [jobs EXCEPT ![j] = new]
        /\ set_escrow_balance(j, old.token, old.amount + a) /\ In(old.token, a)
        /\ UNCHANGED <<tokenFees, burnPool, totalBurned, paid, disputeVars, settingVars>>
    BY <1>6 DEF TopUpEscrow, AcceptsFunds, set_job
  <2> HIDE DEF new
  <2>3. is_active_job_status(old) /\ is_active_job_status(new) /\ ~IsTerminal(old)
    BY <2>1, <2>2 DEF is_active_job_status, ActiveStatus, IsTerminal, TerminalStatus
  <2>4. escrowBal[j] = old.amount /\ old.amount > 0 /\ old.amount \in Nat
    BY <1>1, <2>3 DEF EscrowMatchesStatus, Posted, is_active_job_status, ActiveStatus, Job
  <2>5. a >= 0 /\ a >= new.amount - escrowBal[j]
    BY <2>1, <2>4
  <2>6. Funded(j, new, a)
    BY <2>1, <2>2, <2>3, <2>4, <2>5 DEF Funded, JobsKeepBooks
  <2> QED
    BY <2>1, <2>6 DEF BookStep
<1>7. CASE RaiseDispute(u, j)
  <2> DEFINE new == [old EXCEPT !.status = "Disputed"]
  <2>1. new \in Job /\ new.status = "Disputed" /\ new.token = old.token
    BY <1>1 DEF Job
  <2>2. /\ old.status \in {"InProgress", "SubmittedForReview"}
        /\ jobs' = [jobs EXCEPT ![j] = new]
        /\ deposit' = [deposit EXCEPT ![j] = fees.disputeFee]
        /\ UNCHANGED <<escrowVars, tokenFees, burnPool, totalBurned, paid, settingVars>>
    BY <1>7 DEF RaiseDispute, set_job
  <2>3. \/ In(Native, fees.disputeFee + 0) /\ UNCHANGED assigned
        \/ In(Native, fees.disputeFee + fees.oracleFee)
           /\ \A k \in JobId \ {j} : assigned'[k] = assigned[k]
    BY <1>7 DEF RaiseDispute, TypeOK, DisputeTypeOK
  <2>4. fees.disputeFee + 0 = fees.disputeFee
    BY DEF TypeOK, SettingTypeOK, FeeSettings
  <2> HIDE DEF new
  <2>5. is_active_job_status(old)
    BY <2>2 DEF is_active_job_status, ActiveStatus
  <2>6. Contested(j, new)
    BY <2>1, <2>2, <2>3, <2>4, <2>5 DEF Contested, JobsKeepBooks
  <2> QED
    BY <2>1, <2>6 DEF BookStep
<1> QED
  BY <1>2, <1>3, <1>4, <1>5, <1>6, <1>7, InputsTyped DEF Working

LEMMA RefundBooks ==
  ASSUME TypeOK, NEW j \in JobId, Refund(j), is_active_job_status(jobs[j])
  PROVE  BookStep
<1>1. RefundSplit(jobs[j].amount) \in Shares /\ 0 \in Int /\ "Cancelled" \in TerminalStatus
  BY JobRecord, RefundType DEF TypeOK, TerminalStatus
<1>2. Divided(j, "Cancelled", RefundSplit(jobs[j].amount), 0)
  BY <1>1 DEF Refund, Divided, disputeVars
<1> QED
  BY <1>1, <1>2 DEF BookStep

LEMMA PayApprovedBooks ==
  ASSUME TypeOK, NEW j \in JobId, PayApproved(j), is_active_job_status(jobs[j])
  PROVE  BookStep
<1> DEFINE exempt == fees.exempt \cap {jobs[j].client, jobs[j].freelancer} # {}
           rate == IF exempt THEN 0
                   ELSE calculate_fee_for_amount(jobs[j].amount, fees.feeBps, fees.tiers)
           split == ApprovalSplit(jobs[j].amount, rate, lateFee[j], fees.burnBps)
<1>1. Settle(j, "Completed", split, 0) /\ UNCHANGED <<disputeVars, settingVars>>
  BY DEF PayApproved
<1>2. calculate_fee_for_amount(jobs[j].amount, fees.feeBps, fees.tiers) \in Bps /\ 0 \in Bps
  <2>1. calculate_fee_for_amount(jobs[j].amount, fees.feeBps, fees.tiers) \in Bps
    BY FeeRateType, JobRecord DEF TypeOK, SettingTypeOK
  <2>2. 0 \in Bps
    BY DEF Bps, BPS_DENOMINATOR
  <2> QED
    BY <2>1, <2>2
<1>3. rate \in Bps
  BY <1>2
<1>4. lateFee[j] \in Nat /\ fees.burnBps \in Bps /\ jobs[j].amount \in Nat
  BY JobRecord DEF TypeOK, NoteTypeOK, SettingTypeOK, FeeSettings
<1> HIDE DEF rate
<1>5. split \in Shares
  BY <1>3, <1>4, ApprovalType
<1> HIDE DEF split
<1>6. "Completed" \in TerminalStatus /\ 0 \in Int
  BY DEF TerminalStatus
<1>7. Divided(j, "Completed", split, 0)
  BY <1>1, <1>5, <1>6 DEF Divided, disputeVars
<1> QED
  BY <1>5, <1>6, <1>7 DEF BookStep

LEMMA EndingBooks ==
  ASSUME TypeOK, NEW u \in Users, NEW j \in JobId, Ending(u, j)  PROVE BookStep
<1> USE DEF is_active_job_status, ActiveStatus
<1>1. CASE ApproveByClient(u, j)
  BY <1>1, PayApprovedBooks DEF ApproveByClient, Approvable
<1>2. CASE ApproveByApprover(u, j)
  <2>1. CASE QuorumReached(approvals'[j])
    BY <1>2, <2>1, PayApprovedBooks DEF ApproveByApprover, Approvable
  <2>2. CASE ~QuorumReached(approvals'[j])
    BY <1>2, <2>2 DEF ApproveByApprover, BookStep, Outside, moneyVars, settingVars
  <2> QED
    BY <2>1, <2>2
<1>3. CASE \/ CancelJob(u, j)
           \/ \E v \in Users : RelayCancelJob(u, v, j)
           \/ FreelancerCancelJob(u, j)
           \/ EnforceDeadline(u, j)
  BY <1>3, RefundBooks DEF CancelJob, RelayCancelJob, FreelancerCancelJob, EnforceDeadline
<1>4. ASSUME NEW v \in Users, NEW s \in Inputs.shares, MutualCancel(u, v, j, s)  PROVE BookStep
  <2>1. /\ MutualSplit(jobs[j].amount, s) \in Shares
        /\ 0 \in Int /\ "Cancelled" \in TerminalStatus
    BY <1>4, JobRecord, MutualType DEF TypeOK, MutualCancel, TerminalStatus
  <2>2. Divided(j, "Cancelled", MutualSplit(jobs[j].amount, s), 0)
    BY <1>4, <2>1 DEF MutualCancel, Divided, disputeVars
  <2> QED
    BY <2>1, <2>2 DEF BookStep
<1> QED
  BY <1>1, <1>2, <1>3, <1>4 DEF Ending

LEMMA JudgingBooks ==
  ASSUME TypeOK, NEW j \in JobId, Judging(j)  PROVE BookStep
<1> DEFINE amount == jobs[j].amount
           rate == calculate_fee_for_amount(amount, fees.feeBps, fees.tiers)
           Apart == \A k \in JobId \ {j} : deposit'[k] = deposit[k] /\ assigned'[k] = assigned[k]
<1>1. amount \in Nat /\ fees.feeBps \in Bps /\ rate \in Bps
  BY JobRecord, FeeRateType DEF TypeOK, SettingTypeOK, FeeSettings
<1>2. jobs[j].status = "Disputed" /\ is_active_job_status(jobs[j]) /\ UNCHANGED settingVars
  BY DEF Judging, ResolveDispute, ResolveDisputeSplit, SubmitVerdict, is_active_job_status,
     ActiveStatus
<1>3. Apart
  BY DEF Judging, ResolveDispute, ResolveDisputeSplit, SubmitVerdict, disputeVars, TypeOK,
     DisputeTypeOK
<1>4. /\ \A s \in Bps : DisputeSplit(amount, s, fees.feeBps) \in Shares
      /\ RefundSplit(amount) \in Shares /\ VerdictSplit(amount, rate) \in Shares
  BY <1>1, DisputeType, RefundType, VerdictType
<1>5. /\ deposit[j] \in Int /\ 0 \in Int /\ fees.oracleFee \in Int
      /\ TerminalStatus = {"Completed", "Cancelled"}
  BY DEF TypeOK, DisputeTypeOK, SettingTypeOK, FeeSettings, TerminalStatus
<1>6. ASSUME NEW s \in Bps, ResolveDispute(j, s) \/ ResolveDisputeSplit(j, s)  PROVE BookStep
  <2>1. \E status \in TerminalStatus, split \in Shares, extra \in {0, deposit[j]} :
          Settle(j, status, split, extra)
    BY <1>4, <1>5, <1>6 DEF ResolveDispute, ResolveDisputeSplit
  <2>2. PICK status \in TerminalStatus, split \in Shares, extra \in {0, deposit[j]} :
          Settle(j, status, split, extra)
    BY <2>1
  <2>3. extra \in Int /\ Divided(j, status, split, extra)
    BY <1>2, <1>3, <1>5, <2>2 DEF Divided
  <2> QED
    BY <2>2, <2>3 DEF BookStep
<1>7. ASSUME NEW o \in Oracles, NEW clientWins \in BOOLEAN, SubmitVerdict(o, j, clientWins)
      PROVE  BookStep
  <2>1. assigned[j] # NoOne
    BY <1>7, CustodyAssumption DEF SubmitVerdict
  <2>2. PICK status \in TerminalStatus, split \in Shares : Settle(j, status, split, fees.oracleFee)
    BY <1>4, <1>5, <1>7 DEF SubmitVerdict
  <2>3. Divided(j, status, split, fees.oracleFee)
    BY <1>2, <1>3, <2>1, <2>2 DEF Divided
  <2> QED
    BY <1>5, <2>2, <2>3 DEF BookStep
<1> QED
  BY <1>6, <1>7, InputsTyped DEF Judging

LEMMA AdminBooks ==
  ASSUME TypeOK, Administration \/ UNCHANGED vars  PROVE BookStep
<1>1. UNCHANGED <<jobVars, escrowVars, paid, disputeVars>>
  BY AdminFrame
<1>2. CASE FeeChange \/ Reputation \/ Tick \/ UNCHANGED vars
  <2>1. UNCHANGED <<moneyVars, policy>>
    <3>1. CASE FeeChange
      BY <3>1 DEF FeeChange, update_fee, update_fee_bps, update_fee_tier, set_fee_exemption,
         set_late_fee_bps, set_late_fee_enabled, update_burn_percentage, update_dispute_fee,
         update_oracle_fee, set_oracle_enabled, register_oracle, remove_oracle, SetFees, SetOracles
    <3>2. CASE Reputation
      BY <3>2 DEF Reputation, verify_freelancer, unverify_freelancer, rate_freelancer, SetPeople,
         settingVars
    <3>3. CASE Tick \/ UNCHANGED vars
      BY <3>3 DEF Tick, vars, settingVars
    <3> QED
      BY <1>2, <3>1, <3>2, <3>3
  <2> QED
    BY <1>1, <2>1 DEF BookStep, Outside
<1>3. CASE PolicyChange
  <2>1. UNCHANGED moneyVars
    BY <1>3 DEF PolicyChange, pause_module, resume_module, add_to_blacklist, remove_from_blacklist,
       add_to_whitelist, remove_from_whitelist, set_whitelist_mode, add_approver, remove_approver,
       set_high_value_threshold, set_required_approvals, set_trusted_forwarder,
       set_max_jobs_per_user, set_max_active_jobs_per_client, set_min_rating_to_accept,
       set_exempt_verified_freelancers, add_allowed_token, remove_allowed_token, set_job_hold,
       SetPolicy
  <2>2. policy \in PolicySettings
    BY DEF TypeOK, SettingTypeOK
  <2>3. \/ policy'.allowedTokens = policy.allowedTokens
        \/ \E t : policy'.allowedTokens = policy.allowedTokens \cup {t}
        \/ \E t : policy'.allowedTokens = policy.allowedTokens \ {t} /\ tokenActive[t] = 0
    BY <1>3, <2>2 DEF PolicySettings, PolicyChange, pause_module, resume_module, add_to_blacklist,
       remove_from_blacklist, add_to_whitelist, remove_from_whitelist, set_whitelist_mode,
       add_approver, remove_approver, set_high_value_threshold, set_required_approvals,
       set_trusted_forwarder, set_max_jobs_per_user, set_max_active_jobs_per_client,
       set_min_rating_to_accept, set_exempt_verified_freelancers, add_allowed_token,
       remove_allowed_token, set_job_hold, SetPolicy, settingVars
  <2>4. \A t \in policy.allowedTokens \ policy'.allowedTokens : tokenActive[t] = 0
    BY <2>3
  <2> QED
    BY <1>1, <2>1, <2>4 DEF BookStep, Outside
<1>4. CASE MoneyOut
  <2>1. Inputs.burns \subseteq Int
    BY EscrowAssumption DEF InputType
  <2>2. \/ UNCHANGED <<moneyVars, policy>>
        \/ \E t \in Tokens : withdraw_fees(t)
        \/ \E a \in Int : execute_burn(a)
        \/ \E u \in Users : withdraw_referral_earnings(u) \/ claim_onboarding_bonus(u)
    BY <1>4, <2>1, InputsTyped DEF MoneyOut, register_referral, set_onboarding_bonus, SetPeople,
       settingVars
  <2> QED
    BY <1>1, <2>2 DEF BookStep, Outside
<1> QED
  BY <1>2, <1>3, <1>4 DEF Administration

LEMMA EveryStepIsBooked ==
  TypeOK /\ EscrowMatchesStatus /\ [Next]_vars => BookStep
<1> SUFFICES ASSUME TypeOK, EscrowMatchesStatus, [Next]_vars PROVE BookStep
  OBVIOUS
<1>1. CASE Posting
  <2>1. PICK u \in Users, a \in Inputs.amounts, d \in Inputs.deadlines, t \in Tokens :
          \/ PostJob(u, a, d, t)
          \/ \E b \in Inputs.bonuses : PostJobWithCategories(u, a, b, d, t)
          \/ \E r \in Inputs.referrers : PostJobWithReferral(u, a, d, t, r)
    BY <1>1 DEF Posting
  <2>2. a \in Nat /\ d \in Nat
    BY InputsTyped
  <2>3. \E b \in Nat : CreateJob(u, a, b, d, t)
    BY <2>1, InputsTyped DEF PostJob, PostJobWithCategories, PostJobWithReferral
  <2> QED
    BY <2>2, <2>3, CreateFunds
<1> QED
  BY <1>1, WorkingBooks, EndingBooks, JudgingBooks, AdminBooks DEF Next, Administration

-----------------------------------------------------------------------------
(***************************************************************************)
(* The totals.                                                             *)
(***************************************************************************)
LEMMA JobsFinite == IsFiniteSet(JobId)
BY JobSetsFinite

LiveIn(token) == {j \in JobId : escrowBal[j] > 0 /\ jobs[j].token = token}

\* The record of j may change, and its token only while it holds nothing.
LEMMA EscrowMoves ==
  ASSUME TypeOK, LedgersAgree, NEW j \in JobId, NEW job, JobsKeepBooks(j, job),
         NEW amount \in Nat, set_escrow_balance(j, job.token, amount),
         amount > 0 => job.token \in policy.allowedTokens, UNCHANGED policy
  PROVE  LedgersAgree'
<1>1. /\ escrowBal \in [JobId -> Nat] /\ escrowBal \in [JobId -> Int] /\ totalEscrow \in Int
      /\ tokenActive \in [Tokens -> Nat] /\ jobs \in [JobId -> Job] /\ job.token \in Tokens
  BY DEF TypeOK, JobTypeOK, EscrowTypeOK, JobsKeepBooks, Job
<1>2. /\ escrowBal' = [escrowBal EXCEPT ![j] = amount]
      /\ totalEscrow' = totalEscrow - escrowBal[j] + amount
      /\ tokenActive' = [tokenActive EXCEPT ![job.token] =
                           Saturating(tokenActive[job.token],
                                      CounterStep(escrowBal[j] > 0, amount > 0))]
      /\ jobs' = [jobs EXCEPT ![j] = job]
      /\ escrowBal[j] > 0 => job.token = jobs[j].token
  BY DEF set_escrow_balance, JobsKeepBooks
<1>3. /\ escrowBal' \in [JobId -> Int] /\ escrowBal'[j] = amount /\ jobs'[j] = job
      /\ \A k \in JobId \ {j} : escrowBal'[k] = escrowBal[k] /\ jobs'[k] = jobs[k]
  BY <1>1, <1>2
<1>4. totalEscrow' = SumFunction(escrowBal')
  <2>1. SumFunction(escrowBal') = SumFunction(escrowBal) - escrowBal[j] + escrowBal'[j]
    BY <1>1, <1>3, JobsFinite, SumChange
  <2> QED
    BY <1>2, <1>3, <2>1 DEF LedgersAgree
<1>5. ASSUME NEW t \in Tokens  PROVE tokenActive'[t] = Cardinality(LiveIn(t)')
  <2>1. LiveIn(t) \in SUBSET JobId /\ LiveIn(t)' \in SUBSET JobId
    BY DEF LiveIn
  <2>2. LiveIn(t) \ {j} = LiveIn(t)' \ {j}
    BY <1>3 DEF LiveIn
  <2>3. /\ j \in LiveIn(t) <=> escrowBal[j] > 0 /\ jobs[j].token = t
        /\ j \in LiveIn(t)' <=> amount > 0 /\ job.token = t
    BY <1>3 DEF LiveIn
  <2>4. tokenActive[t] = Cardinality(LiveIn(t)) /\ tokenActive[t] \in Nat
    BY <1>1 DEF LedgersAgree, LiveIn
  <2>5. CASE t = job.token
    <3>1. tokenActive'[t] = Saturating(tokenActive[t], CounterStep(escrowBal[j] > 0, amount > 0))
      BY <1>1, <1>2, <2>5
    <3>2. j \in LiveIn(t) <=> escrowBal[j] > 0
      BY <1>2, <2>3, <2>5
    <3>3. j \in LiveIn(t)' <=> amount > 0
      BY <2>3, <2>5
    <3> QED
      BY <2>1, <2>2, <2>4, <3>1, <3>2, <3>3, OneMember DEF Saturating, CounterStep
  <2>6. CASE t # job.token
    <3>1. j \notin LiveIn(t) /\ j \notin LiveIn(t)' /\ tokenActive'[t] = tokenActive[t]
      BY <1>1, <1>2, <2>3, <2>6
    <3> QED
      BY <2>1, <2>2, <2>4, <3>1, OneMember
  <2> QED
    BY <2>5, <2>6
<1>6. \A k \in JobId : escrowBal'[k] > 0 => jobs'[k].token \in policy'.allowedTokens
  BY <1>3 DEF LedgersAgree
<1> QED
  BY <1>4, <1>5, <1>6 DEF LedgersAgree, LiveIn

LEMMA LedgersStep ==
  ASSUME TypeOK, CancelInv, LedgersAgree, BookStep  PROVE LedgersAgree'
<1>1. ASSUME NEW j \in JobId, NEW job \in Job, Noted(j, job) \/ Contested(j, job)
      PROVE  LedgersAgree'
  <2>1. /\ jobs' = [jobs EXCEPT ![j] = job] /\ job.token = jobs[j].token
        /\ UNCHANGED <<escrowVars, policy>>
    BY <1>1 DEF Noted, Contested, JobsKeepBooks, settingVars
  <2>2. \A k \in JobId : jobs'[k].token = jobs[k].token
    BY <2>1 DEF TypeOK, JobTypeOK
  <2> QED
    BY <2>1, <2>2 DEF LedgersAgree, escrowVars
<1>2. ASSUME NEW j \in JobId, NEW job \in Job, NEW amount \in Int, Funded(j, job, amount)
      PROVE  LedgersAgree'
  <2>1. job.token \in policy.allowedTokens /\ job.amount \in Nat /\ UNCHANGED policy
    <3>1. escrowBal[j] > 0 => job.token = jobs[j].token /\ jobs[j].token \in policy.allowedTokens
      BY <1>2 DEF Funded, JobsKeepBooks, LedgersAgree
    <3> QED
      BY <1>2, <3>1 DEF Funded, Job, settingVars
  <2> QED
    BY <1>2, <2>1, EscrowMoves DEF Funded
<1>3. ASSUME NEW j \in JobId, NEW status \in TerminalStatus, NEW split \in Shares, NEW extra \in Int,
             Divided(j, status, split, extra)
      PROVE  LedgersAgree'
  <2> DEFINE job == [jobs[j] EXCEPT !.status = status]
  <2>1. jobs[j] \in Job /\ status \in JobStatus
    BY JobRecord DEF TypeOK, JobStatus
  <2>2. job \in Job /\ job.token = jobs[j].token
    BY <2>1 DEF Job
  <2>3. /\ jobs' = [jobs EXCEPT ![j] = job]
        /\ set_escrow_balance(j, jobs[j].token, 0) /\ UNCHANGED policy
    BY <1>3 DEF Divided, Settle, set_job, settingVars
  <2> HIDE DEF job
  <2>4. JobsKeepBooks(j, job)
    BY <2>2, <2>3 DEF JobsKeepBooks
  <2> QED
    BY <2>2, <2>3, <2>4, EscrowMoves
<1>4. CASE Outside
  <2>1. \A t \in policy.allowedTokens \ policy'.allowedTokens : tokenActive[t] = 0
    BY <1>4 DEF Outside, withdraw_fees, execute_burn, withdraw_referral_earnings,
       claim_onboarding_bonus, Withdraw, settingVars
  <2>2. UNCHANGED <<jobs, escrowVars>>
    BY <1>4 DEF Outside, jobVars
  <2>3. ASSUME NEW k \in JobId, escrowBal[k] > 0  PROVE jobs[k].token \in policy'.allowedTokens
    <3>1. LiveIn(jobs[k].token) \in SUBSET JobId /\ k \in LiveIn(jobs[k].token)
      BY <2>3 DEF LiveIn
    <3>2. Cardinality(LiveIn(jobs[k].token)) # 0
      BY <3>1, JobSetsFinite, FS_EmptySet
    <3>3. jobs[k].token \in Tokens
      BY JobRecord DEF TypeOK
    <3>4. tokenActive[jobs[k].token] = Cardinality(LiveIn(jobs[k].token))
      BY <3>3 DEF LedgersAgree, LiveIn
    <3>5. jobs[k].token \in policy.allowedTokens
      BY <2>3 DEF LedgersAgree
    <3> QED
      BY <2>1, <3>2, <3>4, <3>5
  <2> QED
    BY <2>2, <2>3 DEF LedgersAgree, escrowVars
<1> QED
  BY <1>1, <1>2, <1>3, <1>4 DEF BookStep

BurnShares == [j \in JobId |-> paid[j].burned]

LEMMA BurnStep ==
  ASSUME TypeOK, BurnAccounted, BookStep  PROVE BurnAccounted'
<1>1. CASE UNCHANGED <<burnPool, totalBurned, paid>>
  BY <1>1 DEF BurnAccounted
<1>2. ASSUME NEW a \in Int, execute_burn(a)  PROVE BurnAccounted'
  BY <1>2 DEF execute_burn, BurnAccounted, TypeOK, MoneyTypeOK
<1>3. ASSUME NEW j \in JobId, NEW status \in TerminalStatus, NEW split \in Shares, NEW extra \in Int,
             Divided(j, status, split, extra)
      PROVE  BurnAccounted'
  <2>1. /\ burnPool' = burnPool + split.burned /\ totalBurned' = totalBurned
        /\ paid' = [paid EXCEPT ![j] = AddSplit(paid[j], split)]
    BY <1>3 DEF Divided, Settle
  <2>2. paid \in [JobId -> Shares] /\ burnPool \in Int /\ totalBurned \in Int /\ split.burned \in Int
    BY DEF TypeOK, MoneyTypeOK, Shares
  <2>3. /\ paid'[j].burned = paid[j].burned + split.burned /\ paid[j].burned \in Int
        /\ \A k \in JobId \ {j} : paid'[k] = paid[k]
    BY <2>1, <2>2 DEF AddSplit, Shares
  <2>4. /\ BurnShares \in [JobId -> Int] /\ BurnShares' \in [JobId -> Int]
        /\ \A k \in JobId \ {j} : BurnShares'[k] = BurnShares[k]
        /\ BurnShares'[j] = BurnShares[j] + split.burned /\ BurnShares[j] \in Int
    <3>1. \A k \in JobId : paid[k].burned \in Int
      BY <2>2 DEF Shares
    <3> QED
      BY <2>2, <2>3, <3>1 DEF BurnShares
  <2>5. SumFunction(BurnShares') = SumFunction(BurnShares) - BurnShares[j] + BurnShares'[j]
    BY <2>4, JobsFinite, SumChange
  <2>6. SumFunction(BurnShares) \in Int
    BY <2>4, JobsFinite, SumType
  <2>7. burnPool + totalBurned = SumFunction(BurnShares)
    BY DEF BurnAccounted, BurnShares
  <2>8. burnPool' + totalBurned' = SumFunction(BurnShares')
    BY <2>1, <2>2, <2>4, <2>5, <2>6, <2>7
  <2> QED
    BY <2>8 DEF BurnAccounted, BurnShares
<1> QED
  BY <1>1, <1>2, <1>3
     DEF BookStep, Noted, Funded, Contested, Outside, withdraw_fees, withdraw_referral_earnings,
         claim_onboarding_bonus, Withdraw, moneyVars

-----------------------------------------------------------------------------
LEMMA LedgersStart == Init => LedgersAgree
<1> SUFFICES ASSUME Init PROVE LedgersAgree
  OBVIOUS
<1>1. totalEscrow = SumFunction(escrowBal)
  BY JobsFinite, SumOfZeros DEF Init
<1>2. ASSUME NEW t \in Tokens  PROVE tokenActive[t] = Cardinality(LiveIn(t))
  <2>1. LiveIn(t) = {}
    BY DEF LiveIn, Init
  <2> QED
    BY <2>1, FS_EmptySet DEF Init
<1>3. \A j \in JobId : ~(escrowBal[j] > 0)
  BY DEF Init
<1> QED
  BY <1>1, <1>2, <1>3 DEF LedgersAgree, LiveIn

LEMMA BurnStarts == Init => BurnAccounted
<1> SUFFICES ASSUME Init PROVE BurnAccounted
  OBVIOUS
<1>1. [j \in JobId |-> paid[j].burned] = [j \in JobId |-> 0]
  BY DEF Init, NoSplit
<1> QED
  BY <1>1, JobsFinite, SumOfZeros DEF Init, BurnAccounted

(***************************************************************************)
(* The total and the counts per token that the contract moves by           *)
(* differences are the sum and the numbers of the escrow entries, and a    *)
(* token with money in escrow stays on the list.                           *)
(***************************************************************************)
THEOREM LedgersAlwaysAgree == Spec => []LedgersAgree
<1>1. Init => TypeOK /\ CancelInv /\ LedgersAgree
  BY TypeInit, MoneyInit, LedgersStart
<1>2. TypeOK /\ CancelInv /\ LedgersAgree /\ [Next]_vars => TypeOK' /\ CancelInv' /\ LedgersAgree'
  <2>1. CancelInv => EscrowMatchesStatus
    BY DEF CancelInv, MoneyInv
  <2> QED
    BY <2>1, TypeNext, EveryStepIsMoneyStep, MoneyNext, EveryStepIsBooked, LedgersStep
<1> QED
  BY <1>1, <1>2, PTL DEF Spec

-----------------------------------------------------------------------------
(***************************************************************************)
(* Solvency.  Beside what Owed counts, an open dispute with an oracle      *)
(* claims the fee of the oracle, at the rate of the moment: as long as the *)
(* rate does not rise, what was collected covers it.                       *)
(***************************************************************************)
OracleShare(j, token) ==
  IF token = Native /\ jobs[j].status = "Disputed" /\ assigned[j] # NoOne THEN fees.oracleFee ELSE 0

Claim(j, token) == HeldFor(j, token) + OracleShare(j, token)

Claims(token) == [j \in JobId |-> Claim(j, token)]

Covered(token) == balance[token] >= tokenFees[token] + SumFunction(Claims(token))

\* An oracle is assigned by the call that raises the dispute, never before.
AssignedInDispute ==
  \A j \in JobId : assigned[j] # NoOne => IsTerminal(jobs[j]) \/ jobs[j].status = "Disputed"

\* No bonus is paid in a token; the oracle fee, which is paid in the native
\* token, does not rise, and no earnings, which are, are withdrawn.
NoPayoutIn(token) ==
  /\ incentives.bonusToken = token => incentives'.claimed = incentives.claimed
  /\ token = Native =>
       /\ fees'.oracleFee <= fees.oracleFee
       /\ \A u \in Users : incentives'.earnings[u] >= incentives.earnings[u]

NoPayout ==
  /\ fees'.oracleFee <= fees.oracleFee
  /\ incentives'.claimed = incentives.claimed
  /\ \A u \in Users : incentives'.earnings[u] >= incentives.earnings[u]

LEMMA NoPayoutAtRest ==
  ASSUME TypeOK, UNCHANGED vars  PROVE NoPayout
BY DEF vars, settingVars, peopleVars, NoPayout, TypeOK, SettingTypeOK, PeopleTypeOK, FeeSettings,
   IncentiveType

LEMMA NoPayoutInAny == NoPayout => \A t \in Tokens : NoPayoutIn(t)
BY DEF NoPayout, NoPayoutIn

LEMMA ClaimIsNumber ==
  ASSUME TypeOK, NEW j \in JobId, NEW t \in Tokens  PROVE Claim(j, t) \in Int
<1>1. /\ escrowBal[j] \in Int /\ paid[j].burned \in Int /\ deposit[j] \in Int
      /\ fees.oracleFee \in Int
  BY DEF TypeOK, EscrowTypeOK, MoneyTypeOK, Shares, DisputeTypeOK, SettingTypeOK, FeeSettings
<1> QED
  BY <1>1 DEF Claim, HeldFor, OracleShare

LEMMA ClaimsType ==
  ASSUME TypeOK, NEW t \in Tokens  PROVE Claims(t) \in [JobId -> Int]
BY ClaimIsNumber DEF Claims

LEMMA ClaimsStayTyped ==
  ASSUME TypeOK', NEW t \in Tokens  PROVE Claims(t)' \in [JobId -> Int]
<1>1. ASSUME NEW j \in JobId  PROVE Claim(j, t)' \in Int
  <2>1. /\ escrowBal'[j] \in Int /\ paid'[j].burned \in Int /\ deposit'[j] \in Int
        /\ fees'.oracleFee \in Int
    BY DEF TypeOK, EscrowTypeOK, MoneyTypeOK, Shares, DisputeTypeOK, SettingTypeOK, FeeSettings
  <2> QED
    BY <2>1 DEF Claim, HeldFor, OracleShare
<1> QED
  BY <1>1 DEF Claims

\* A step that raises the claim of one job by no more than it brings in.
LEMMA OneClaim ==
  ASSUME TypeOK, TypeOK', NEW t \in Tokens, Covered(t),
         NEW j \in JobId, \A k \in JobId \ {j} : Claim(k, t)' = Claim(k, t),
         balance'[t] - tokenFees'[t] - Claim(j, t)' >= balance[t] - tokenFees[t] - Claim(j, t)
  PROVE  Covered(t)'
<1>1. Claims(t) \in [JobId -> Int] /\ Claims(t)' \in [JobId -> Int]
  BY ClaimsType, ClaimsStayTyped
<1>2. /\ Claims(t)[j] = Claim(j, t) /\ Claims(t)'[j] = Claim(j, t)'
      /\ \A k \in JobId \ {j} : Claims(t)'[k] = Claims(t)[k]
  BY DEF Claims
<1>3. SumFunction(Claims(t)') = SumFunction(Claims(t)) - Claims(t)[j] + Claims(t)'[j]
  BY <1>1, <1>2, JobsFinite, SumChange
<1>4. SumFunction(Claims(t)) \in Int /\ Claims(t)[j] \in Int /\ Claims(t)'[j] \in Int
  BY <1>1, JobsFinite, SumType
<1>5. balance[t] \in Int /\ balance'[t] \in Int /\ tokenFees[t] \in Int /\ tokenFees'[t] \in Int
  BY DEF TypeOK, MoneyTypeOK
<1> QED
  BY <1>2, <1>3, <1>4, <1>5 DEF Covered

\* A step that raises no claim and lowers the fees by no less than the balance.
LEMMA NoClaim ==
  ASSUME TypeOK, TypeOK', NEW t \in Tokens, Covered(t),
         \A k \in JobId : Claim(k, t)' <= Claim(k, t),
         balance'[t] - tokenFees'[t] >= balance[t] - tokenFees[t]
  PROVE  Covered(t)'
<1>1. Claims(t) \in [JobId -> Int] /\ Claims(t)' \in [JobId -> Int]
  BY ClaimsType, ClaimsStayTyped
<1>2. \A k \in JobId : Claims(t)'[k] <= Claims(t)[k]
  BY DEF Claims
<1>3. SumFunction(Claims(t)') <= SumFunction(Claims(t))
  BY <1>1, <1>2, JobsFinite, SumMonotone
<1>4. SumFunction(Claims(t)) \in Int /\ SumFunction(Claims(t)') \in Int
  BY <1>1, JobsFinite, SumType
<1>5. balance[t] \in Int /\ balance'[t] \in Int /\ tokenFees[t] \in Int /\ tokenFees'[t] \in Int
  BY DEF TypeOK, MoneyTypeOK
<1> QED
  BY <1>3, <1>4, <1>5 DEF Covered

LEMMA AssignedStep ==
  ASSUME TypeOK, AssignedInDispute, BookStep  PROVE AssignedInDispute'
<1> USE DEF AssignedInDispute, is_active_job_status, ActiveStatus, IsTerminal, TerminalStatus,
            JobsKeepBooks, disputeVars
<1>1. jobs \in [JobId -> Job] /\ DOMAIN jobs = JobId
  BY DEF TypeOK, JobTypeOK
<1>2. ASSUME NEW j \in JobId, NEW job \in Job, Noted(j, job) \/ Contested(j, job)
      PROVE  AssignedInDispute'
  BY <1>1, <1>2 DEF Noted, Contested
<1>3. ASSUME NEW j \in JobId, NEW job \in Job, NEW amount \in Int, Funded(j, job, amount)
      PROVE  AssignedInDispute'
  BY <1>1, <1>3 DEF Funded
<1>4. ASSUME NEW j \in JobId, NEW status \in TerminalStatus, NEW split \in Shares, NEW extra \in Int,
             Divided(j, status, split, extra)
      PROVE  AssignedInDispute'
  <2> DEFINE job == [jobs[j] EXCEPT !.status = status]
  <2>1. job.status = status /\ jobs' = [jobs EXCEPT ![j] = job]
    BY <1>1, <1>4 DEF Divided, Settle, set_job, Job
  <2> HIDE DEF job
  <2> QED
    BY <1>1, <1>4, <2>1 DEF Divided
<1>5. CASE Outside
  BY <1>5 DEF Outside, jobVars
<1> QED
  BY <1>2, <1>3, <1>4, <1>5 DEF BookStep

\* The claims of the other jobs are what they were.
LEMMA ElseSame ==
  ASSUME NEW j \in JobId, NEW k \in JobId \ {j}, NEW t,
         jobs'[k] = jobs[k], escrowBal'[k] = escrowBal[k], paid'[k] = paid[k],
         deposit'[k] = deposit[k], assigned'[k] = assigned[k], fees' = fees
  PROVE  Claim(k, t)' = Claim(k, t)
BY DEF Claim, HeldFor, OracleShare

LEMMA NotedCovered ==
  ASSUME TypeOK, TypeOK', NEW t \in Tokens, Covered(t),
         NEW j \in JobId, NEW job \in Job, Noted(j, job)
  PROVE  Covered(t)'
<1>1. /\ jobs' = [jobs EXCEPT ![j] = job] /\ jobs \in [JobId -> Job] /\ job.token = jobs[j].token
      /\ jobs[j].status # "Disputed" /\ job.status # "Disputed"
      /\ UNCHANGED <<escrowBal, paid, deposit, assigned, fees, balance, tokenFees>>
  BY DEF Noted, JobsKeepBooks, TypeOK, JobTypeOK, escrowVars, moneyVars, disputeVars, settingVars
<1>2. \A k \in JobId : jobs'[k].token = jobs[k].token
                    /\ (jobs'[k].status = "Disputed" <=> jobs[k].status = "Disputed")
  BY <1>1
<1>3. ASSUME NEW k \in JobId  PROVE Claim(k, t)' = Claim(k, t)
  BY <1>1, <1>2 DEF Claim, HeldFor, OracleShare
<1>4. Claims(t)' = Claims(t)
  BY <1>3 DEF Claims
<1> QED
  BY <1>1, <1>4 DEF Covered

LEMMA FundedCovered ==
  ASSUME TypeOK, TypeOK', CancelInv, NEW t \in Tokens, Covered(t),
         NEW j \in JobId, NEW job \in Job, NEW amount \in Int, Funded(j, job, amount)
  PROVE  Covered(t)'
<1>1. /\ jobs' = [jobs EXCEPT ![j] = job] /\ jobs \in [JobId -> Job]
      /\ jobs[j].status # "Disputed" /\ job.status # "Disputed"
      /\ escrowBal[j] > 0 => job.token = jobs[j].token
      /\ escrowBal' = [escrowBal EXCEPT ![j] = job.amount] /\ escrowBal \in [JobId -> Nat]
      /\ amount >= job.amount - escrowBal[j] /\ job.amount \in Nat /\ job.token \in Tokens
      /\ balance' = [balance EXCEPT ![job.token] = @ + amount] /\ balance \in [Tokens -> Int]
      /\ UNCHANGED <<paid, deposit, assigned, fees, tokenFees>>
  BY DEF Funded, JobsKeepBooks, set_escrow_balance, In, TypeOK, JobTypeOK, EscrowTypeOK, MoneyTypeOK,
     disputeVars, settingVars, Job
<1>2. paid[j].burned = 0
  BY DEF CancelInv, MoneyInv, SettledInFull, Funded, WholeShares, Total
<1>3. /\ jobs'[j] = job /\ escrowBal'[j] = job.amount /\ escrowBal[j] \in Nat
      /\ \A k \in JobId \ {j} : jobs'[k] = jobs[k] /\ escrowBal'[k] = escrowBal[k]
  BY <1>1
<1>4. Covered(t)'
  <2>1. \A k \in JobId \ {j} : Claim(k, t)' = Claim(k, t)
    BY <1>1, <1>3, ElseSame
  <2>2. /\ Claim(j, t) = IF jobs[j].token = t THEN escrowBal[j] ELSE 0
        /\ Claim(j, t)' = IF job.token = t THEN job.amount ELSE 0
    BY <1>1, <1>2, <1>3 DEF Claim, HeldFor, OracleShare
  <2>3. balance'[t] = IF t = job.token THEN balance[t] + amount ELSE balance[t]
    BY <1>1
  <2>4. tokenFees'[t] = tokenFees[t] /\ tokenFees[t] \in Int /\ balance[t] \in Int
    BY <1>1 DEF TypeOK, MoneyTypeOK
  <2>5. balance'[t] - tokenFees'[t] - Claim(j, t)' >= balance[t] - tokenFees[t] - Claim(j, t)
    <3>1. CASE t = job.token
      <4>1. escrowBal[j] > 0 => jobs[j].token = t
        BY <1>1, <3>1
      <4>2. Claim(j, t) = escrowBal[j]
        BY <1>3, <2>2, <4>1
      <4> QED
        BY <1>1, <1>3, <2>2, <2>3, <2>4, <3>1, <4>2
    <3>2. CASE t # job.token
      BY <1>1, <1>3, <2>2, <2>3, <2>4, <3>2
    <3> QED
      BY <3>1, <3>2
  <2> QED
    BY <2>1, <2>5, OneClaim
<1> QED
  BY <1>4

LEMMA ContestedCovered ==
  ASSUME TypeOK, TypeOK', AssignedInDispute, NEW t \in Tokens, Covered(t),
         NEW j \in JobId, NEW job \in Job, Contested(j, job)
  PROVE  Covered(t)'
<1>1. /\ jobs' = [jobs EXCEPT ![j] = job] /\ jobs \in [JobId -> Job]
      /\ is_active_job_status(jobs[j]) /\ jobs[j].status # "Disputed" /\ job.status = "Disputed"
      /\ job.token = jobs[j].token
      /\ deposit' = [deposit EXCEPT ![j] = fees.disputeFee] /\ deposit \in [JobId -> Nat]
      /\ balance \in [Tokens -> Int] /\ Native \in Tokens
      /\ fees.disputeFee \in Nat /\ fees.oracleFee \in Nat
      /\ UNCHANGED <<escrowBal, paid, fees, tokenFees>>
  BY CustodyAssumption
     DEF Contested, JobsKeepBooks, TypeOK, JobTypeOK, MoneyTypeOK, DisputeTypeOK, SettingTypeOK,
         FeeSettings, escrowVars, settingVars
<1>2. assigned[j] = NoOne
  BY <1>1 DEF AssignedInDispute, is_active_job_status, ActiveStatus, IsTerminal, TerminalStatus
<1>3. /\ jobs'[j] = job /\ deposit'[j] = fees.disputeFee
      /\ \A k \in JobId \ {j} : /\ jobs'[k] = jobs[k] /\ deposit'[k] = deposit[k]
                                 /\ assigned'[k] = assigned[k]
  BY <1>1 DEF Contested
<1>4. /\ fees.disputeFee + fees.oracleFee \in Int
      /\ \/ balance' = [balance EXCEPT ![Native] = @ + fees.disputeFee] /\ assigned'[j] = NoOne
         \/ balance' = [balance EXCEPT ![Native] = @ + (fees.disputeFee + fees.oracleFee)]
  BY <1>1, <1>2 DEF Contested, In
<1>5. Covered(t)'
  <2> DEFINE own == IF jobs[j].token = t THEN escrowBal[j] + paid[j].burned ELSE 0
             share == IF assigned'[j] # NoOne THEN fees.oracleFee ELSE 0
  <2>1. \A k \in JobId \ {j} : Claim(k, t)' = Claim(k, t)
    BY <1>1, <1>3, ElseSame
  <2>2. own \in Int
    BY DEF TypeOK, EscrowTypeOK, MoneyTypeOK, Shares
  <2>3. Claim(j, t) = own + 0 + 0
    BY <1>1, <1>2 DEF Claim, HeldFor, OracleShare
  <2>4. Claim(j, t)' = IF t = Native THEN own + fees.disputeFee + share ELSE own + 0 + 0
    BY <1>1, <1>3 DEF Claim, HeldFor, OracleShare
  <2>5. balance[t] \in Int /\ tokenFees[t] \in Int /\ tokenFees'[t] = tokenFees[t] /\ share \in Nat
    BY <1>1 DEF TypeOK, MoneyTypeOK
  <2> HIDE DEF own
  <2>6. balance'[t] >= (IF t = Native THEN balance[t] + fees.disputeFee + share ELSE balance[t])
    BY <1>1, <1>4, <2>5
  <2> HIDE DEF share
  <2>7. balance'[t] \in Int
    BY DEF TypeOK, MoneyTypeOK
  <2>8. balance'[t] - tokenFees'[t] - Claim(j, t)' >= balance[t] - tokenFees[t] - Claim(j, t)
    BY <1>1, <2>2, <2>3, <2>4, <2>5, <2>6, <2>7
  <2> QED
    BY <2>1, <2>8, OneClaim
<1> QED
  BY <1>5

LEMMA NothingShared ==
  ASSUME NEW s \in WholeShares, Total(s) = 0
  PROVE  s.client = 0 /\ s.freelancer = 0 /\ s.accrued = 0 /\ s.burned = 0
BY DEF WholeShares, Total

\* What leaves with the job is what it claimed.
LEMMA DividedCovered ==
  ASSUME TypeOK, TypeOK', CancelInv, CancelInv', NEW t \in Tokens, Covered(t),
         NEW j \in JobId, NEW status \in TerminalStatus, NEW split \in Shares, NEW extra \in Int,
         Divided(j, status, split, extra)
  PROVE  Covered(t)'
<1> DEFINE job == [jobs[j] EXCEPT !.status = status]
<1>1. /\ jobs \in [JobId -> Job] /\ jobs[j] \in Job /\ escrowBal[j] \in Nat /\ deposit[j] \in Nat
      /\ fees.oracleFee \in Nat /\ Native \in Tokens /\ balance \in [Tokens -> Int]
      /\ tokenFees \in [Tokens -> Int] /\ escrowBal \in [JobId -> Nat] /\ paid \in [JobId -> Shares]
  BY CustodyAssumption DEF TypeOK, JobTypeOK, EscrowTypeOK, MoneyTypeOK, DisputeTypeOK,
     SettingTypeOK, FeeSettings
<1>2. /\ split.client \in Int /\ split.freelancer \in Int /\ split.accrued \in Int
      /\ split.burned \in Int
      /\ jobs[j].token \in Tokens /\ jobs[j].amount \in Nat
      /\ job.status = status /\ job.token = jobs[j].token /\ job.amount = jobs[j].amount
  BY <1>1 DEF Shares, Job
<1>3. /\ jobs' = [jobs EXCEPT ![j] = job]
      /\ escrowBal' = [escrowBal EXCEPT ![j] = 0]
      /\ tokenFees' = [tokenFees EXCEPT ![jobs[j].token] = @ + split.accrued]
      /\ paid' = [paid EXCEPT ![j] = AddSplit(@, split)]
      /\ balance' = [r \in Tokens |->
           balance[r] - [u \in Tokens |-> Only(jobs[j].token, split.client + split.freelancer)[u]
                                          + Only(Native, extra)[u]][r]]
      /\ fees' = fees
  BY DEF Divided, Settle, set_job, set_escrow_balance, PayOut, settingVars
<1>4. status # "Disputed" /\ ~IsTerminal(jobs[j]) /\ is_active_job_status(jobs[j])
  BY DEF Divided, TerminalStatus, IsTerminal, is_active_job_status, ActiveStatus
<1> HIDE DEF job
<1>5. jobs'[j] = job /\ escrowBal'[j] = 0 /\ paid'[j] = AddSplit(paid[j], split)
  BY <1>1, <1>3
<1>6. \A k \in JobId \ {j} : /\ jobs'[k] = jobs[k] /\ escrowBal'[k] = escrowBal[k]
                             /\ paid'[k] = paid[k]
                             /\ deposit'[k] = deposit[k] /\ assigned'[k] = assigned[k]
  BY <1>1, <1>3 DEF Divided
<1>7. escrowBal[j] = jobs[j].amount /\ paid[j] \in WholeShares /\ Total(paid[j]) = 0
  BY <1>4 DEF CancelInv, MoneyInv, EscrowMatchesStatus, SettledInFull
<1>8. paid[j].client = 0 /\ paid[j].freelancer = 0 /\ paid[j].accrued = 0 /\ paid[j].burned = 0
  BY <1>7, NothingShared
<1>9. /\ Total(paid'[j]) = Total(split) /\ paid'[j].burned = split.burned
  BY <1>2, <1>5, <1>8 DEF AddSplit, Total
<1>10. Total(split) = escrowBal[j]
  <2>1. IsTerminal(jobs'[j])
    BY <1>2, <1>5 DEF IsTerminal
  <2>2. Total(paid'[j]) = jobs'[j].amount
    BY <2>1 DEF CancelInv, MoneyInv, SettledInFull
  <2> QED
    BY <1>2, <1>5, <1>7, <1>9, <2>2
<1>11. Covered(t)'
  <2> DEFINE open == jobs[j].status = "Disputed" /\ t = Native
             held1 == IF open THEN deposit[j] ELSE 0
             share == IF open /\ assigned[j] # NoOne THEN fees.oracleFee ELSE 0
             out   == IF t = Native THEN extra ELSE 0
  <2>1. \A k \in JobId \ {j} : Claim(k, t)' = Claim(k, t)
    BY <1>3, <1>6, ElseSame
  <2>2. Claim(j, t) = (IF jobs[j].token = t THEN escrowBal[j] ELSE 0) + held1 + share
    BY <1>1, <1>8 DEF Claim, HeldFor, OracleShare
  <2>3. Claim(j, t)' = IF jobs[j].token = t THEN split.burned ELSE 0
    BY <1>2, <1>4, <1>5, <1>9 DEF Claim, HeldFor, OracleShare
  <2>4. balance'[t] = balance[t] - (IF jobs[j].token = t THEN split.client + split.freelancer ELSE 0) - out
    BY <1>1, <1>2, <1>3 DEF Only
  <2>5. tokenFees'[t] = tokenFees[t] + (IF jobs[j].token = t THEN split.accrued ELSE 0)
    BY <1>1, <1>2, <1>3
  <2>6. held1 \in Nat /\ share \in Nat /\ out \in Int /\ out <= held1 + share
    BY <1>1 DEF Divided
  <2>7. balance[t] \in Int /\ tokenFees[t] \in Int
    BY <1>1
  <2> HIDE DEF held1, share, out
  <2>8. balance'[t] - tokenFees'[t] - Claim(j, t)' >= balance[t] - tokenFees[t] - Claim(j, t)
    <3>1. CASE jobs[j].token = t
      BY <1>1, <1>2, <1>10, <2>2, <2>3, <2>4, <2>5, <2>6, <2>7, <3>1 DEF Total
    <3>2. CASE jobs[j].token # t
      BY <2>2, <2>3, <2>4, <2>5, <2>6, <2>7, <3>2
    <3> QED
      BY <3>1, <3>2
  <2> QED
    BY <2>1, <2>8, OneClaim
<1> QED
  BY <1>11

LEMMA OutsideCovered ==
  ASSUME TypeOK, TypeOK', NEW t \in Tokens, Covered(t), Outside, NoPayoutIn(t)  PROVE Covered(t)'
<1>1. /\ UNCHANGED <<jobs, escrowBal, paid, deposit, assigned>>
      /\ t = Native => fees'.oracleFee <= fees.oracleFee
      /\ fees.oracleFee \in Nat /\ fees'.oracleFee \in Nat
  BY DEF Outside, NoPayoutIn, jobVars, escrowVars, disputeVars, TypeOK, SettingTypeOK, FeeSettings
<1>2. ASSUME NEW k \in JobId  PROVE Claim(k, t)' <= Claim(k, t)
  <2>1. HeldFor(k, t)' = HeldFor(k, t) /\ HeldFor(k, t) \in Int
    <3>1. escrowBal[k] \in Int /\ paid[k].burned \in Int /\ deposit[k] \in Int
      BY DEF TypeOK, EscrowTypeOK, MoneyTypeOK, Shares, DisputeTypeOK
    <3> QED
      BY <1>1, <3>1 DEF HeldFor
  <2>2. /\ OracleShare(k, t)' <= OracleShare(k, t) /\ OracleShare(k, t) \in Int
        /\ OracleShare(k, t)' \in Int
    BY <1>1 DEF OracleShare
  <2> QED
    BY <2>1, <2>2 DEF Claim
<1>3. balance'[t] - tokenFees'[t] >= balance[t] - tokenFees[t]
  <2>1. /\ balance \in [Tokens -> Int] /\ tokenFees \in [Tokens -> Int]
        /\ balance[t] - tokenFees[t] \in Int
    BY DEF TypeOK, MoneyTypeOK
  <2>2. CASE UNCHANGED moneyVars \/ \E a \in Int : execute_burn(a)
    BY <2>1, <2>2 DEF moneyVars, execute_burn
  <2>3. ASSUME NEW s \in Tokens, withdraw_fees(s)
        PROVE  balance'[t] - tokenFees'[t] >= balance[t] - tokenFees[t]
    BY <2>1, <2>3 DEF withdraw_fees, Withdraw, PayOut, Only
  <2>4. incentives \in IncentiveType
    BY DEF TypeOK, PeopleTypeOK
  \* What is paid out of the common balance is paid in another token.
  <2>5. ASSUME NEW u \in Users, withdraw_referral_earnings(u)
        PROVE  balance'[t] - tokenFees'[t] >= balance[t] - tokenFees[t]
    <3>1. t # Native
      BY <2>4, <2>5 DEF withdraw_referral_earnings, NoPayoutIn, IncentiveType
    <3>2. incentives.earnings[u] \in Int
      BY <2>4 DEF IncentiveType
    <3> QED
      BY <2>1, <2>5, <3>1, <3>2 DEF withdraw_referral_earnings, Withdraw, PayOut, Only
  <2>6. ASSUME NEW u \in Users, claim_onboarding_bonus(u)
        PROVE  balance'[t] - tokenFees'[t] >= balance[t] - tokenFees[t]
    <3>1. t # incentives.bonusToken
      BY <2>4, <2>6 DEF claim_onboarding_bonus, NoPayoutIn, IncentiveType
    <3>2. incentives.bonusAmount \in Int
      BY <2>4 DEF IncentiveType
    <3> QED
      BY <2>1, <2>6, <3>1, <3>2 DEF claim_onboarding_bonus, Withdraw, PayOut, Only
  <2> QED
    BY <2>2, <2>3, <2>5, <2>6 DEF Outside
<1> QED
  BY <1>2, <1>3, NoClaim

LEMMA CoveredStep ==
  ASSUME TypeOK, TypeOK', CancelInv, CancelInv', AssignedInDispute, BookStep,
         NEW t \in Tokens, Covered(t), NoPayoutIn(t)
  PROVE  Covered(t)'
BY NotedCovered, FundedCovered, ContestedCovered, DividedCovered, OutsideCovered DEF BookStep

LEMMA CoverStarts == Init => AssignedInDispute /\ \A t \in Tokens : Covered(t)
<1> SUFFICES ASSUME Init PROVE AssignedInDispute /\ \A t \in Tokens : Covered(t)
  OBVIOUS
<1>1. ASSUME NEW t \in Tokens  PROVE Covered(t)
  <2>1. Claims(t) = [j \in JobId |-> 0]
    BY DEF Claims, Claim, HeldFor, OracleShare, Init, NoJob, NoSplit
  <2> QED
    BY <2>1, JobsFinite, SumOfZeros DEF Covered, Init
<1>2. AssignedInDispute
  BY DEF Init, AssignedInDispute
<1> QED
  BY <1>1, <1>2

SolventIn(token) == balance[token] >= Owed(token)

LEMMA CoverIsSolvent ==
  ASSUME TypeOK, NEW t \in Tokens, Covered(t)  PROVE SolventIn(t)
<1> DEFINE own == [j \in JobId |-> HeldFor(j, t)]
<1>1. ASSUME NEW j \in JobId  PROVE HeldFor(j, t) \in Int /\ HeldFor(j, t) <= Claim(j, t)
  <2>1. /\ escrowBal[j] \in Int /\ paid[j].burned \in Int /\ deposit[j] \in Int
        /\ fees.oracleFee \in Nat
    BY DEF TypeOK, EscrowTypeOK, MoneyTypeOK, Shares, DisputeTypeOK, SettingTypeOK, FeeSettings
  <2>2. HeldFor(j, t) \in Int /\ OracleShare(j, t) \in Nat
    BY <2>1 DEF HeldFor, OracleShare
  <2> QED
    BY <2>2 DEF Claim
<1>2. /\ own \in [JobId -> Int] /\ Claims(t) \in [JobId -> Int]
      /\ \A j \in JobId : own[j] <= Claims(t)[j]
  BY <1>1, ClaimsType DEF Claims
<1> HIDE DEF own
<1>3. /\ SumFunction(own) <= SumFunction(Claims(t)) /\ SumFunction(own) \in Int
      /\ SumFunction(Claims(t)) \in Int
  BY <1>2, JobsFinite, SumMonotone, SumType
<1>4. /\ balance[t] \in Int /\ tokenFees[t] \in Int
      /\ balance[t] >= tokenFees[t] + SumFunction(Claims(t))
  BY DEF TypeOK, MoneyTypeOK, Covered
<1>5. balance[t] >= tokenFees[t] + SumFunction(own)
  BY <1>3, <1>4
<1> QED
  BY <1>5 DEF SolventIn, Owed, own

LEMMA SolventIsSolventInAll == Solvent <=> \A t \in Tokens : SolventIn(t)
BY DEF Solvent, SolventIn

(***************************************************************************)
(* As long as no referral earnings and no onboarding bonus are paid out of *)
(* the common balance and the oracle fee does not rise, the contract owns  *)
(* enough of every token for its escrows, burned shares, open deposits and *)
(* fees, however many jobs end in whatever order.  Without the hypothesis  *)
(* this fails, as the run claim_escrow_backed shows.                       *)
(***************************************************************************)
THEOREM AlwaysSolvent == Spec /\ [][NoPayout]_vars => []Solvent
<1> DEFINE SolvencyInv ==
      TypeOK /\ CancelInv /\ AssignedInDispute /\ \A t \in Tokens : Covered(t)
<1>1. Init => SolvencyInv
  BY TypeInit, MoneyInit, CoverStarts
<1>2. SolvencyInv /\ [Next]_vars /\ [NoPayout]_vars => SolvencyInv'
  <2> SUFFICES ASSUME SolvencyInv, [Next]_vars, [NoPayout]_vars PROVE SolvencyInv'
    OBVIOUS
  <2>1. EscrowMatchesStatus
    BY DEF CancelInv, MoneyInv
  <2>2. TypeOK' /\ CancelInv' /\ BookStep
    BY <2>1, TypeNext, EveryStepIsMoneyStep, MoneyNext, EveryStepIsBooked
  <2>3. \A t \in Tokens : NoPayoutIn(t)
    BY NoPayoutInAny, NoPayoutAtRest
  <2> QED
    BY <2>2, <2>3, AssignedStep, CoveredStep
<1>3. SolvencyInv => Solvent
  BY CoverIsSolvent, SolventIsSolventInAll
<1> HIDE DEF SolvencyInv
<1> QED
  BY <1>1, <1>2, <1>3, PTL DEF Spec

(***************************************************************************)
(* What is paid out of the common balance in one token takes nothing from  *)
(* the escrows in another: in a token that no bonus is paid in, and that   *)
(* is not the native one, the contract is solvent whatever happens.        *)
(***************************************************************************)
THEOREM SolventTokenByToken ==
  ASSUME NEW t \in Tokens
  PROVE  Spec /\ [][NoPayoutIn(t)]_vars => []SolventIn(t)
<1> DEFINE SolvencyInv == TypeOK /\ CancelInv /\ AssignedInDispute /\ Covered(t)
<1>1. Init => SolvencyInv
  BY TypeInit, MoneyInit, CoverStarts
<1>2. SolvencyInv /\ [Next]_vars /\ [NoPayoutIn(t)]_vars => SolvencyInv'
  <2> SUFFICES ASSUME SolvencyInv, [Next]_vars, [NoPayoutIn(t)]_vars PROVE SolvencyInv'
    OBVIOUS
  <2>1. EscrowMatchesStatus
    BY DEF CancelInv, MoneyInv
  <2>2. TypeOK' /\ CancelInv' /\ BookStep
    BY <2>1, TypeNext, EveryStepIsMoneyStep, MoneyNext, EveryStepIsBooked
  <2>3. NoPayoutIn(t)
    BY NoPayoutInAny, NoPayoutAtRest
  <2> QED
    BY <2>2, <2>3, AssignedStep, CoveredStep
<1>3. SolvencyInv => SolventIn(t)
  BY CoverIsSolvent
<1> HIDE DEF SolvencyInv
<1> QED
  BY <1>1, <1>2, <1>3, PTL DEF Spec

-----------------------------------------------------------------------------
(***************************************************************************)
(* The way out of a job.  A call is its guard followed by assignments, so  *)
(* the guard of a call decides whether it can be made; for the calls below *)
(* that includes that the balance covers what they pay.                    *)
(***************************************************************************)
Leaving(j, split, extra) ==
  [t \in Tokens |->
     Only(jobs[j].token, split.client + split.freelancer)[t] + Only(Native, extra)[t]]

Payable(j, split, extra) ==
  split.freelancer >= 0 /\ \A t \in Tokens : Leaving(j, split, extra)[t] <= balance[t]

Paying(j, status, split, extra) ==
  /\ balance' = [t \in Tokens |-> balance[t] - Leaving(j, split, extra)[t]]
  /\ set_job(j, [jobs[j] EXCEPT !.status = status])
  /\ jobsCount' = jobsCount
  /\ set_escrow_balance(j, jobs[j].token, 0)
  /\ tokenFees' = [tokenFees EXCEPT ![jobs[j].token] = @ + split.accrued]
  /\ burnPool' = burnPool + split.burned
  /\ paid' = [paid EXCEPT ![j] = AddSplit(@, split)]
  /\ UNCHANGED totalBurned

PayingOnly(j, status, split) ==
  Paying(j, status, split, 0) /\ UNCHANGED <<now, noteVars, disputeVars, settingVars, peopleVars>>

MayCancel(user, j) ==
  /\ jobs[j].status = "Open"
  /\ require_active_access(user) /\ require_job_not_held(j)
  /\ jobs[j].client = user
  /\ Payable(j, RefundSplit(jobs[j].amount), 0)

MayGiveUp(user, j) ==
  /\ jobs[j].status = "InProgress"
  /\ require_active_access(user)
  /\ jobs[j].freelancer = user
  /\ Payable(j, RefundSplit(jobs[j].amount), 0)

MayPart(client, freelancer, j, clientBps) ==
  /\ jobs[j].status \in {"InProgress", "SubmittedForReview"}
  /\ require_active_access(client) /\ require_active_access(freelancer)
  /\ jobs[j].client = client /\ jobs[j].freelancer = freelancer
  /\ clientBps \in Bps /\ MulFits(jobs[j].amount, clientBps)
  /\ Payable(j, MutualSplit(jobs[j].amount, clientBps), 0)

MayRefund(j) ==
  /\ jobs[j].status = "Disputed"
  /\ jobs[j].freelancer # NoOne
  /\ Payable(j, RefundSplit(jobs[j].amount), deposit[j])

Refunding(j) ==
  /\ Paying(j, "Cancelled", RefundSplit(jobs[j].amount), deposit[j])
  /\ depositPaid' = [depositPaid EXCEPT ![j] = DepositShares(j, BPS_DENOMINATOR)]
  /\ deposit' = [deposit EXCEPT ![j] = 0]
  /\ raiser' = [raiser EXCEPT ![j] = NoOne]
  /\ UNCHANGED <<now, assigned, noteVars, settingVars, peopleVars>>

LEMMA SettleGuard ==
  ASSUME NEW j, NEW status, NEW split, NEW extra
  PROVE  Settle(j, status, split, extra) <=>
           Payable(j, split, extra) /\ Paying(j, status, split, extra)
BY DEF Settle, PayOut, Payable, Paying, Leaving

(***************************************************************************)
(* cancel_job, freelancer_cancel_job, mutual_cancel and resolve_dispute    *)
(* with everything for the client: that the guards above are those of the  *)
(* calls, for what follows them only assigns.  Nothing more is claimed.    *)
(***************************************************************************)
LEMMA WaysOutAreGuarded ==
  \A u, v, j, s :
    /\ CancelJob(u, j) <=>
         MayCancel(u, j) /\ PayingOnly(j, "Cancelled", RefundSplit(jobs[j].amount))
    /\ FreelancerCancelJob(u, j) <=>
         MayGiveUp(u, j) /\ PayingOnly(j, "Cancelled", RefundSplit(jobs[j].amount))
    /\ MutualCancel(u, v, j, s) <=>
         MayPart(u, v, j, s) /\ PayingOnly(j, "Cancelled", MutualSplit(jobs[j].amount, s))
    /\ ResolveDispute(j, BPS_DENOMINATOR) <=> MayRefund(j) /\ Refunding(j)
<1> TAKE u, v, j, s
<1>1. CancelJob(u, j) <=>
        MayCancel(u, j) /\ PayingOnly(j, "Cancelled", RefundSplit(jobs[j].amount))
  BY SettleGuard DEF CancelJob, Refund, MayCancel, PayingOnly
<1>2. FreelancerCancelJob(u, j) <=>
        MayGiveUp(u, j) /\ PayingOnly(j, "Cancelled", RefundSplit(jobs[j].amount))
  BY SettleGuard DEF FreelancerCancelJob, Refund, MayGiveUp, PayingOnly
<1>3. MutualCancel(u, v, j, s) <=>
        MayPart(u, v, j, s) /\ PayingOnly(j, "Cancelled", MutualSplit(jobs[j].amount, s))
  BY SettleGuard DEF MutualCancel, MayPart, PayingOnly
<1>4. ResolveDispute(j, BPS_DENOMINATOR) <=> MayRefund(j) /\ Refunding(j)
  BY SettleGuard DEF ResolveDispute, MayRefund, Refunding
<1> QED
  BY <1>1, <1>2, <1>3, <1>4

\* What NoEscrowTrapped says with ENABLED, said with the guards.
WayOut(j) ==
  LET job == jobs[j]
  IN  /\ {job.client, job.freelancer} \cap policy.blacklisted = {}
      /\ policy.whitelistMode =>
           {job.client, job.freelancer} \subseteq policy.whitelisted \cup {NoOne}
      =>
      /\ job.status = "Open" /\ j \notin held => MayCancel(job.client, j)
      /\ job.status = "InProgress" => MayGiveUp(job.freelancer, j)
      /\ job.status = "SubmittedForReview" => MayPart(job.client, job.freelancer, j, 0)
      /\ job.status = "Disputed" => MayRefund(j)

NobodyTrapped == \A j \in Posted : WayOut(j)

(***************************************************************************)
(* Every job has a client, and since it was accepted a freelancer.         *)
(***************************************************************************)
Staffed ==
  \A j \in JobId :
    /\ jobs[j].status # "Absent" => jobs[j].client \in Users
    /\ jobs[j].status \in {"InProgress", "SubmittedForReview", "Disputed"} =>
         jobs[j].freelancer \in Users

LEMMA StaffedStep ==
  ASSUME TypeOK, Staffed, GuardedStep  PROVE Staffed'
<1> SUFFICES ASSUME NEW k \in JobId
             PROVE  /\ jobs'[k].status # "Absent" => jobs'[k].client \in Users
                    /\ jobs'[k].status \in {"InProgress", "SubmittedForReview", "Disputed"} =>
                         jobs'[k].freelancer \in Users
  BY DEF Staffed
<1>1. /\ jobs[k].status # "Absent" => jobs[k].client \in Users
      /\ jobs[k].status \in {"InProgress", "SubmittedForReview", "Disputed"} =>
           jobs[k].freelancer \in Users
  BY DEF Staffed
<1>2. CASE jobs'[k] = jobs[k]
  BY <1>1, <1>2
<1>3. CASE JobsQuiet
  BY <1>1, <1>3 DEF JobsQuiet
<1>4. ASSUME NEW u \in Users, NEW j \in JobId, PostedBy(u, j), k = j
      PROVE  jobs'[k].client \in Users /\ jobs'[k].status = "Open"
  <2>1. PICK a, d, t : jobs' = [jobs EXCEPT ![j] = NewJob(u, a, t, d)]
    BY <1>4 DEF PostedBy
  <2>2. jobs'[j] = NewJob(u, a, t, d)
    BY <2>1, OthersKept
  <2> QED
    BY <1>4, <2>2 DEF NewJob
<1>5. ASSUME NEW u \in Users, NEW j \in JobId, AcceptedBy(u, j), k = j
      PROVE  jobs'[k].client \in Users /\ jobs'[k].freelancer \in Users
  <2>1. jobs[j] \in Job /\ jobs[j].client \in Users
    BY <1>1, <1>5, JobRecord DEF AcceptedBy, TypeOK
  <2>2. jobs'[j] = [jobs[j] EXCEPT !.freelancer = u, !.status = "InProgress"]
    BY <1>5 DEF AcceptedBy, TypeOK, JobTypeOK
  <2> QED
    BY <1>5, <2>1, <2>2 DEF Job
<1>6. ASSUME NEW u \in Users, NEW j \in JobId, NEW job, EditedBy(u, j, job), k = j
      PROVE  /\ jobs'[k].client \in Users
             /\ jobs'[k].status = "Open" \/ jobs'[k].freelancer \in Users
  BY <1>1, <1>6, OthersKept DEF EditedBy
<1>7. ASSUME NEW j \in JobId, NEW status \in TerminalStatus, NEW split, Ends(j, status, split),
             jobs[j].status \in ActiveStatus, k = j
      PROVE  jobs'[k].client \in Users /\ jobs'[k].status \in TerminalStatus
  BY <1>1, <1>7, EndsKeeps DEF ActiveStatus
<1>8. ASSUME NEW u \in Users, NEW j \in JobId,
             ReleasedBy(u, j) \/ CalledOffBy(u, j) \/ JudgedBy(j), k = j
      PROVE  jobs'[k].client \in Users /\ jobs'[k].status \in TerminalStatus
  <2>1. PICK status, split : status \in TerminalStatus /\ Ends(j, status, split)
    BY <1>8 DEF ReleasedBy, CalledOffBy, JudgedBy, TerminalStatus
  <2>2. jobs[j].status \in ActiveStatus
    BY <1>8 DEF ReleasedBy, CalledOffBy, JudgedBy, ActiveStatus
  <2> QED
    BY <1>7, <1>8, <2>1, <2>2
<1>9. ASSUME NEW u \in Users, NEW j \in JobId, k # j,
             \/ PostedBy(u, j) \/ AcceptedBy(u, j) \/ \E job : EditedBy(u, j, job)
             \/ ReleasedBy(u, j) \/ CalledOffBy(u, j)
      PROVE  jobs'[k] = jobs[k]
  BY <1>9, OthersKept, EndsKeeps DEF PostedBy, AcceptedBy, EditedBy, ReleasedBy, CalledOffBy
<1>10. ASSUME NEW j \in JobId, k # j, JudgedBy(j)
       PROVE  jobs'[k] = jobs[k]
  BY <1>10, EndsKeeps DEF JudgedBy
<1>11. ASSUME NEW j \in JobId, k = j, JudgedBy(j)
       PROVE  jobs'[k].client \in Users /\ jobs'[k].status \in TerminalStatus
  <2>1. PICK status, split : status \in TerminalStatus /\ Ends(j, status, split)
    BY <1>11 DEF JudgedBy
  <2>2. jobs[j].status \in ActiveStatus
    BY <1>11 DEF JudgedBy, ActiveStatus
  <2> QED
    BY <1>7, <1>11, <2>1, <2>2
<1> QED
  BY <1>2, <1>3, <1>4, <1>5, <1>6, <1>8, <1>9, <1>10, <1>11 DEF GuardedStep, TerminalStatus

-----------------------------------------------------------------------------
(***************************************************************************)
(* What the contract owns covers what one job holds of it.                 *)
(***************************************************************************)
FeesOwed == \A t \in Tokens : tokenFees[t] >= 0

\* No settlement books a negative fee, for the shares of the job would not
\* all be natural numbers.
LEMMA FeesOwedStep ==
  ASSUME TypeOK, TypeOK', SettledInFull, SettledInFull', FeesOwed, BookStep
  PROVE  FeesOwed'
<1>1. tokenFees \in [Tokens -> Int] /\ \A t \in Tokens : tokenFees[t] >= 0
  BY DEF TypeOK, MoneyTypeOK, FeesOwed
<1>2. CASE UNCHANGED tokenFees
  BY <1>2 DEF FeesOwed
<1>3. ASSUME NEW j \in JobId, NEW status \in TerminalStatus, NEW split \in Shares,
             NEW extra \in Int, Divided(j, status, split, extra)
      PROVE  FeesOwed'
  <2>1. /\ tokenFees' = [tokenFees EXCEPT ![jobs[j].token] = @ + split.accrued]
        /\ paid' = [paid EXCEPT ![j] = AddSplit(@, split)]
        /\ jobs[j].token \in Tokens
    BY <1>3, JobRecord DEF Divided, Settle, TypeOK, Job
  <2>2. paid[j] \in WholeShares /\ Total(paid[j]) = 0 /\ paid'[j] \in WholeShares
    BY <1>3 DEF SettledInFull, Divided, is_active_job_status, ActiveStatus, IsTerminal,
       TerminalStatus
  <2>3. paid[j].accrued = 0
    BY <2>2 DEF WholeShares, Total
  <2>4. paid'[j].accrued = paid[j].accrued + split.accrued /\ paid'[j].accrued \in Nat
    BY <2>1, <2>2 DEF TypeOK, MoneyTypeOK, AddSplit, WholeShares
  <2>5. split.accrued \in Nat
    BY <2>3, <2>4 DEF Shares
  <2> QED
    BY <1>1, <2>1, <2>5 DEF FeesOwed
<1>4. ASSUME NEW t \in Tokens, withdraw_fees(t)  PROVE FeesOwed'
  BY <1>1, <1>4 DEF withdraw_fees, FeesOwed
<1> QED
  BY <1>2, <1>3, <1>4 DEF BookStep, Noted, Contested, Funded, Outside, moneyVars,
     execute_burn, withdraw_referral_earnings, claim_onboarding_bonus

\* No call pays out more than the contract owns.
NeverOverdrawn == \A t \in Tokens : balance[t] >= 0

LEMMA NeverOverdrawnStep ==
  ASSUME TypeOK, TypeOK', NeverOverdrawn, BookStep  PROVE NeverOverdrawn'
<1>1. balance \in [Tokens -> Int] /\ balance' \in [Tokens -> Int] /\ \A t \in Tokens : balance[t] >= 0
  BY DEF TypeOK, MoneyTypeOK, NeverOverdrawn
<1>2. CASE UNCHANGED balance
  BY <1>2 DEF NeverOverdrawn
<1>3. ASSUME NEW t, NEW amount \in Int, amount >= 0, In(t, amount)  PROVE NeverOverdrawn'
  BY <1>1, <1>3 DEF In, NeverOverdrawn
<1>4. ASSUME NEW out, PayOut(out), \A t \in Tokens : out[t] \in Int  PROVE NeverOverdrawn'
  <2> SUFFICES ASSUME NEW t \in Tokens  PROVE balance'[t] >= 0
    BY DEF NeverOverdrawn
  <2>1. out[t] <= balance[t] /\ balance'[t] = balance[t] - out[t]
    BY <1>4 DEF PayOut
  <2>2. balance[t] \in Int /\ out[t] \in Int
    BY <1>1, <1>4
  <2> QED
    BY <2>1, <2>2
<1>5. /\ fees.disputeFee \in Int /\ fees.disputeFee >= 0
      /\ fees.disputeFee + fees.oracleFee \in Int /\ fees.disputeFee + fees.oracleFee >= 0
  BY DEF TypeOK, SettingTypeOK, FeeSettings
<1>6. ASSUME NEW j, NEW job, Noted(j, job) \/ Contested(j, job)  PROVE NeverOverdrawn'
  BY <1>2, <1>3, <1>5, <1>6 DEF Noted, Contested, moneyVars
<1>7. ASSUME NEW j, NEW job, NEW amount \in Int, Funded(j, job, amount)  PROVE NeverOverdrawn'
  BY <1>3, <1>7 DEF Funded
<1>8. ASSUME NEW j, NEW status, NEW split, NEW extra \in Int, Divided(j, status, split, extra)
      PROVE  NeverOverdrawn'
  <2> DEFINE out == [t \in Tokens |-> Only(jobs[j].token, split.client + split.freelancer)[t]
                                       + Only(Native, extra)[t]]
  <2>1. split \in Shares /\ PayOut(out)
    BY <1>8 DEF Divided, Settle
  <2>2. \A t \in Tokens : out[t] \in Int
    BY <2>1 DEF Shares, Only
  <2> QED
    BY <1>4, <2>1, <2>2
<1>9. ASSUME NEW t \in Tokens, NEW amount \in Int, Withdraw(t, amount)  PROVE NeverOverdrawn'
  BY <1>4, <1>9 DEF Withdraw, Only
<1>10. CASE Outside
  <2>1. tokenFees \in [Tokens -> Int] /\ incentives \in IncentiveType
    BY DEF TypeOK, MoneyTypeOK, PeopleTypeOK
  <2>2. ASSUME NEW t \in Tokens, withdraw_fees(t)  PROVE NeverOverdrawn'
    BY <1>9, <2>1, <2>2 DEF withdraw_fees
  <2>3. ASSUME NEW u \in Users, withdraw_referral_earnings(u)  PROVE NeverOverdrawn'
    BY <1>9, <2>1, <2>3, CustodyAssumption DEF withdraw_referral_earnings, IncentiveType
  <2>4. ASSUME NEW u \in Users, claim_onboarding_bonus(u)  PROVE NeverOverdrawn'
    BY <1>9, <2>1, <2>4 DEF claim_onboarding_bonus, IncentiveType
  <2> QED
    BY <1>2, <1>10, <2>2, <2>3, <2>4 DEF Outside, moneyVars, execute_burn
<1> QED
  BY <1>6, <1>7, <1>8, <1>10 DEF BookStep

\* One of several natural numbers is no more than their sum.
LEMMA OneOfMany ==
  ASSUME NEW S, IsFiniteSet(S), NEW f \in [S -> Nat], NEW x \in S
  PROVE  f[x] <= SumFunction(f)
<1> DEFINE none == [y \in S |-> 0]
           only == [y \in S |-> IF y = x THEN f[x] ELSE 0]
<1>1. none \in [S -> Int] /\ only \in [S -> Int] /\ f \in [S -> Int] /\ f[x] \in Nat
  OBVIOUS
<1>2. none[x] = 0 /\ only[x] = f[x] /\ \A y \in S \ {x} : only[y] = none[y]
  OBVIOUS
<1>3. \A y \in S : only[y] <= f[y]
  OBVIOUS
<1>4. SumFunction(none) = 0
  BY SumOfZeros
<1> HIDE DEF none, only
<1>5. SumFunction(only) = SumFunction(none) - none[x] + only[x]
  BY <1>1, <1>2, SumChange
<1>6. SumFunction(only) <= SumFunction(f)
  BY <1>1, <1>3, SumMonotone
<1> QED
  BY <1>1, <1>2, <1>4, <1>5, <1>6

LEMMA HeldIsCovered ==
  ASSUME TypeOK, SettledInFull, FeesOwed, NEW j \in JobId, NEW t \in Tokens, SolventIn(t)
  PROVE  HeldFor(j, t) <= balance[t]
<1> DEFINE own == [k \in JobId |-> HeldFor(k, t)]
<1>1. ASSUME NEW k \in JobId  PROVE HeldFor(k, t) \in Nat
  <2>1. escrowBal[k] \in Nat /\ paid[k].burned \in Nat /\ deposit[k] \in Nat
    BY DEF TypeOK, EscrowTypeOK, DisputeTypeOK, SettledInFull, WholeShares
  <2> QED
    BY <2>1 DEF HeldFor
<1>2. own \in [JobId -> Nat] /\ own[j] = HeldFor(j, t) /\ own \in [JobId -> Int]
  BY <1>1
<1> HIDE DEF own
<1>3. own[j] <= SumFunction(own) /\ SumFunction(own) \in Int
  BY <1>2, JobsFinite, OneOfMany, SumType
<1>4. tokenFees[t] + SumFunction(own) <= balance[t]
  BY DEF SolventIn, Owed, own
<1>5. tokenFees[t] \in Int /\ tokenFees[t] >= 0 /\ balance[t] \in Int /\ own[j] \in Nat
  BY <1>2 DEF TypeOK, MoneyTypeOK, FeesOwed
<1> QED
  BY <1>2, <1>3, <1>4, <1>5

SolventFor(j) == SolventIn(jobs[j].token) /\ (jobs[j].status = "Disputed" => SolventIn(Native))

LEMMA ActiveIsPayable ==
  ASSUME TypeOK, EscrowMatchesStatus, SettledInFull, FeesOwed, NeverOverdrawn,
         NEW j \in JobId, is_active_job_status(jobs[j]), SolventFor(j),
         NEW split, split.client \in Nat, split.freelancer \in Nat,
         split.client + split.freelancer = jobs[j].amount,
         NEW extra, extra = 0 \/ (extra = deposit[j] /\ jobs[j].status = "Disputed")
  PROVE  Payable(j, split, extra)
<1> SUFFICES ASSUME NEW t \in Tokens  PROVE Leaving(j, split, extra)[t] <= balance[t]
  BY DEF Payable
<1>1. /\ escrowBal[j] = jobs[j].amount /\ jobs[j].amount \in Nat
      /\ paid[j].burned \in Nat /\ deposit[j] \in Nat
  BY JobRecord DEF TypeOK, DisputeTypeOK, EscrowMatchesStatus, SettledInFull, WholeShares, Job
<1>2. Leaving(j, split, extra)[t] = (IF t = jobs[j].token THEN jobs[j].amount ELSE 0)
                                    + (IF t = Native THEN extra ELSE 0)
  BY DEF Leaving, Only
<1>3. Leaving(j, split, extra)[t] <= HeldFor(j, t) /\ HeldFor(j, t) \in Int
  BY <1>1, <1>2 DEF HeldFor
<1>4. Leaving(j, split, extra)[t] \in Int /\ balance[t] \in Int
  BY <1>1, <1>2 DEF TypeOK, MoneyTypeOK
<1>5. CASE SolventIn(t)
  BY <1>3, <1>4, <1>5, HeldIsCovered
<1>6. CASE ~SolventIn(t)
  <2>1. Leaving(j, split, extra)[t] = 0
    BY <1>2, <1>6 DEF SolventFor
  <2> QED
    BY <2>1 DEF NeverOverdrawn
<1> QED
  BY <1>5, <1>6

\* While the contract owns what it owes in the token of an active job, and
\* for a dispute in the native token, the job has its way out.
LEMMA SolventForWayOut ==
  ASSUME TypeOK, EscrowMatchesStatus, SettledInFull, Staffed, FeesOwed, NeverOverdrawn,
         NEW j \in Posted, SolventFor(j)
  PROVE  WayOut(j)
<1> SUFFICES ASSUME {jobs[j].client, jobs[j].freelancer} \cap policy.blacklisted = {},
                    policy.whitelistMode =>
                      {jobs[j].client, jobs[j].freelancer} \subseteq policy.whitelisted \cup {NoOne}
             PROVE  /\ jobs[j].status = "Open" /\ j \notin held => MayCancel(jobs[j].client, j)
                    /\ jobs[j].status = "InProgress" => MayGiveUp(jobs[j].freelancer, j)
                    /\ jobs[j].status = "SubmittedForReview" =>
                         MayPart(jobs[j].client, jobs[j].freelancer, j, 0)
                    /\ jobs[j].status = "Disputed" => MayRefund(j)
  BY DEF WayOut
<1> DEFINE amount == jobs[j].amount
<1>1. j \in JobId /\ jobs[j].status # "Absent" /\ amount \in Nat
  BY JobRecord DEF Posted, TypeOK, Job
<1>2. jobs[j].client \in Users /\ jobs[j].client # NoOne /\ require_active_access(jobs[j].client)
  BY <1>1, CustodyAssumption DEF Staffed, require_active_access
<1>3. ASSUME jobs[j].status \in {"InProgress", "SubmittedForReview", "Disputed"}
      PROVE  jobs[j].freelancer # NoOne /\ require_active_access(jobs[j].freelancer)
  BY <1>1, <1>3, CustodyAssumption DEF Staffed, require_active_access
<1>4. /\ RefundSplit(amount).client = amount /\ RefundSplit(amount).freelancer = 0
      /\ amount + 0 = amount
  BY <1>1 DEF RefundSplit, NoSplit
<1>5. /\ 0 \in Bps /\ MulFits(amount, 0)
      /\ MutualSplit(amount, 0).client = 0 /\ MutualSplit(amount, 0).freelancer = amount
      /\ 0 + amount = amount
  BY <1>1, FeeMathAssumption DEF Bps, BPS_DENOMINATOR, MulFits, MutualSplit, BpsOf
<1>6. ASSUME is_active_job_status(jobs[j])
      PROVE  /\ Payable(j, RefundSplit(amount), 0)
             /\ Payable(j, MutualSplit(amount, 0), 0)
             /\ jobs[j].status = "Disputed" => Payable(j, RefundSplit(amount), deposit[j])
  <2>1. ASSUME NEW extra, extra = 0 \/ (extra = deposit[j] /\ jobs[j].status = "Disputed")
        PROVE  Payable(j, RefundSplit(amount), extra)
    BY <1>1, <1>4, <1>6, <2>1, ActiveIsPayable
  <2>2. Payable(j, MutualSplit(amount, 0), 0)
    BY <1>1, <1>5, <1>6, ActiveIsPayable
  <2> QED
    BY <2>1, <2>2
<1>7. jobs[j].status \in ActiveStatus => is_active_job_status(jobs[j])
  BY DEF is_active_job_status
<1> QED
  BY <1>2, <1>3, <1>5, <1>6, <1>7
     DEF MayCancel, MayGiveUp, MayPart, MayRefund, ActiveStatus, require_job_not_held

\* What the way out of a job rests on.
WayOutInv == SafeInv /\ Staffed /\ FeesOwed /\ NeverOverdrawn

LEMMA SolventTrapsNobody ==
  WayOutInv => (\A j \in Posted : SolventFor(j) => WayOut(j)) /\ (Solvent => NobodyTrapped)
<1> SUFFICES ASSUME WayOutInv
             PROVE  /\ \A j \in Posted : SolventFor(j) => WayOut(j)
                    /\ Solvent => NobodyTrapped
  OBVIOUS
<1>1. \A j \in Posted : SolventFor(j) => WayOut(j)
  BY SolventForWayOut DEF WayOutInv, SafeInv, CancelInv, MoneyInv
<1>2. ASSUME Solvent, NEW j \in Posted  PROVE SolventFor(j)
  <2>1. j \in JobId /\ jobs[j].token \in Tokens
    BY JobRecord DEF WayOutInv, SafeInv, TypeOK, Posted, Job
  <2> QED
    BY <1>2, <2>1, SolventIsSolventInAll, CustodyAssumption DEF SolventFor
<1> QED
  BY <1>1, <1>2 DEF NobodyTrapped

LEMMA WayOutHolds ==
  /\ Init => WayOutInv
  /\ WayOutInv /\ [Next]_vars => WayOutInv'
<1>1. ASSUME Init  PROVE WayOutInv
  <2>1. Staffed /\ FeesOwed /\ NeverOverdrawn
    BY <1>1 DEF Init, Staffed, NoJob, FeesOwed, NeverOverdrawn
  <2> QED
    BY <1>1, <2>1, SafeHolds DEF WayOutInv
<1>2. ASSUME WayOutInv, [Next]_vars  PROVE WayOutInv'
  <2>1. SafeInv' /\ GuardedStep
    BY <1>2, SafeHolds DEF WayOutInv
  <2>2. BookStep
    BY <1>2, EveryStepIsBooked DEF WayOutInv, SafeInv, CancelInv, MoneyInv
  <2>3. Staffed'
    BY <1>2, <2>1, StaffedStep DEF WayOutInv, SafeInv
  <2>4. FeesOwed'
    BY <1>2, <2>1, <2>2, FeesOwedStep DEF WayOutInv, SafeInv, CancelInv, MoneyInv
  <2>5. NeverOverdrawn'
    BY <1>2, <2>1, <2>2, NeverOverdrawnStep DEF WayOutInv, SafeInv
  <2> QED
    BY <2>1, <2>3, <2>4, <2>5 DEF WayOutInv
<1> QED
  BY <1>1, <1>2

(***************************************************************************)
(* No active job is trapped: while its parties have access, one of them,   *)
(* both, or for a dispute the administrator can end it at once, whatever   *)
(* the fees, the settings and the other jobs are.  This needs a contract   *)
(* solvent in the token of the job, and for a dispute in the native one,   *)
(* and nothing else: what is paid out in other tokens traps nobody.        *)
(***************************************************************************)
THEOREM NobodyIsTrapped ==
  /\ Spec => [](\A j \in Posted : SolventFor(j) => WayOut(j))
  /\ Spec => [](Solvent => NobodyTrapped)
  /\ Spec /\ [][NoPayout]_vars => []NobodyTrapped
<1> DEFINE EachItsWay == \A j \in Posted : SolventFor(j) => WayOut(j)
<1>1. WayOutInv => EachItsWay /\ (Solvent => NobodyTrapped)
  BY SolventTrapsNobody
<1> HIDE DEF EachItsWay
<1>2. Spec => []EachItsWay /\ [](Solvent => NobodyTrapped)
  BY <1>1, WayOutHolds, PTL DEF Spec
<1>3. Spec /\ [][NoPayout]_vars => []NobodyTrapped
  BY <1>2, AlwaysSolvent, PTL
<1> QED
  BY <1>2, <1>3 DEF EachItsWay

-----------------------------------------------------------------------------
(***************************************************************************)
(* Referrals.  A client is linked to a referrer once, and the referrer is  *)
(* credited when the client is marked as rewarded.                         *)
(***************************************************************************)
Attests(j) ==
  /\ attested' = attested \cup {j}
  /\ IsTerminal(jobs'[j]) /\ jobs'[j].client = jobs[j].client /\ jobs'[j].amount = jobs[j].amount
  /\ UNCHANGED incentives \/ CreditReferral(jobs[j])

Unrewarding ==
  /\ UNCHANGED attested
  /\ incentives'.rewarded = incentives.rewarded
  /\ \A u \in Users :
       /\ incentives'.earnings[u] <= incentives.earnings[u]
       /\ \/ incentives'.link[u] = incentives.link[u]
          \/ incentives.link[u] = NoOne /\ incentives'.link[u] # u

CreditStep == Unrewarding \/ \E j \in JobId : Attests(j)

LEMMA SameIncentives ==
  ASSUME TypeOK, UNCHANGED <<incentives, attested>>  PROVE CreditStep
<1>1. incentives.earnings \in [Users -> Int]
  BY DEF TypeOK, PeopleTypeOK, IncentiveType
<1> QED
  BY <1>1 DEF CreditStep, Unrewarding

LEMMA PayApprovedAttests ==
  ASSUME TypeOK, NEW j \in JobId, PayApproved(j), UNCHANGED incentives \/ CreditReferral(jobs[j])
  PROVE  CreditStep
<1> DEFINE job == [jobs[j] EXCEPT !.status = "Completed"]
<1>1. jobs' = [jobs EXCEPT ![j] = job] /\ attested' = attested \cup {j}
  BY DEF PayApproved, Settle, set_job
<1>2. job.status = "Completed" /\ job.client = jobs[j].client /\ job.amount = jobs[j].amount
  BY JobRecord DEF TypeOK, Job
<1> HIDE DEF job
<1>3. jobs'[j] = job
  BY <1>1 DEF TypeOK, JobTypeOK
<1> QED
  BY <1>1, <1>2, <1>3 DEF CreditStep, Attests, IsTerminal, TerminalStatus

LEMMA PostingCredits ==
  ASSUME TypeOK, Posting  PROVE CreditStep
<1>1. PICK u \in Users, a \in Inputs.amounts, d \in Inputs.deadlines, t \in Tokens :
        \/ PostJob(u, a, d, t)
        \/ \E b \in Inputs.bonuses : PostJobWithCategories(u, a, b, d, t)
        \/ \E r \in Inputs.referrers : PostJobWithReferral(u, a, d, t, r)
  BY DEF Posting
<1>2. CASE PostJob(u, a, d, t) \/ \E b \in Inputs.bonuses : PostJobWithCategories(u, a, b, d, t)
  BY <1>2, SameIncentives DEF PostJob, PostJobWithCategories, CreateJob, noteVars
<1>3. ASSUME NEW r \in Inputs.referrers, PostJobWithReferral(u, a, d, t, r)  PROVE CreditStep
  <2>1. UNCHANGED attested /\ r # u
    BY <1>3 DEF PostJobWithReferral, CreateJob, noteVars
  <2>2. incentives \in IncentiveType
    BY DEF TypeOK, PeopleTypeOK
  <2>3. CASE UNCHANGED incentives
    BY <2>1, <2>3, SameIncentives
  <2>4. CASE incentives.link[u] = NoOne /\ incentives' = [incentives EXCEPT !.link[u] = r]
    <3>1. /\ incentives'.rewarded = incentives.rewarded /\ incentives'.earnings = incentives.earnings
          /\ incentives'.link = [incentives.link EXCEPT ![u] = r]
      BY <2>2, <2>4 DEF IncentiveType
    <3>2. incentives.earnings \in [Users -> Int] /\ DOMAIN incentives.link = Users
      BY <2>2 DEF IncentiveType
    <3>3. Unrewarding
      BY <2>1, <2>4, <3>1, <3>2 DEF Unrewarding
    <3> QED
      BY <3>3 DEF CreditStep
  <2> QED
    BY <1>3, <2>3, <2>4 DEF PostJobWithReferral
<1> QED
  BY <1>1, <1>2, <1>3

LEMMA EndingCredits ==
  ASSUME TypeOK, NEW u \in Users, NEW j \in JobId, Ending(u, j)  PROVE CreditStep
<1>1. CASE ApproveByClient(u, j)
  BY <1>1, PayApprovedAttests DEF ApproveByClient
<1>2. CASE ApproveByApprover(u, j)
  BY <1>2, PayApprovedAttests, SameIncentives DEF ApproveByApprover, peopleVars
<1>3. CASE \/ CancelJob(u, j)
           \/ \E v \in Users : RelayCancelJob(u, v, j)
           \/ FreelancerCancelJob(u, j)
           \/ EnforceDeadline(u, j)
           \/ \E v \in Users, s \in Inputs.shares : MutualCancel(u, v, j, s)
  BY <1>3, SameIncentives DEF CancelJob, RelayCancelJob, FreelancerCancelJob, EnforceDeadline,
     MutualCancel, Refund, noteVars, peopleVars
<1> QED
  BY <1>1, <1>2, <1>3 DEF Ending

LEMMA MoneyOutCredits ==
  ASSUME TypeOK, MoneyOut  PROVE CreditStep
<1>1. incentives \in IncentiveType /\ UNCHANGED attested
  BY AdminFrame DEF TypeOK, PeopleTypeOK, Administration
<1>2. CASE UNCHANGED incentives
  BY <1>1, <1>2, SameIncentives
<1>3. ASSUME NEW i, incentives' = i, i.rewarded = incentives.rewarded,
             i.earnings = incentives.earnings, i.link = incentives.link
      PROVE  CreditStep
  <2>1. incentives.earnings \in [Users -> Int]
    BY <1>1 DEF IncentiveType
  <2> QED
    BY <1>1, <1>3, <2>1 DEF CreditStep, Unrewarding
<1>4. ASSUME NEW u \in Users, withdraw_referral_earnings(u)  PROVE CreditStep
  <2>1. incentives' = [incentives EXCEPT !.earnings[u] = 0] /\ incentives.earnings[u] > 0
    BY <1>4 DEF withdraw_referral_earnings
  <2>2. /\ incentives'.rewarded = incentives.rewarded /\ incentives'.link = incentives.link
        /\ incentives'.earnings = [incentives.earnings EXCEPT ![u] = 0]
    BY <1>1, <2>1 DEF IncentiveType
  <2>3. incentives.earnings \in [Users -> Int]
    BY <1>1 DEF IncentiveType
  <2>4. Unrewarding
    BY <1>1, <2>1, <2>2, <2>3 DEF Unrewarding
  <2> QED
    BY <2>4 DEF CreditStep
<1>5. ASSUME NEW u \in Users, register_referral(u) \/ claim_onboarding_bonus(u)  PROVE CreditStep
  <2>1. \/ incentives' = [incentives EXCEPT !.codes = @ \cup {u}]
        \/ incentives' = [incentives EXCEPT !.claimed = @ \cup {u}]
    BY <1>5 DEF register_referral, claim_onboarding_bonus, SetPeople
  <2> QED
    BY <1>1, <1>3, <2>1 DEF IncentiveType
<1>6. ASSUME NEW t, NEW a, set_onboarding_bonus(t, a)  PROVE CreditStep
  <2>1. incentives' = [incentives EXCEPT !.bonusToken = t, !.bonusAmount = a]
    BY <1>6 DEF set_onboarding_bonus, SetPeople
  <2>2. /\ incentives'.rewarded = incentives.rewarded /\ incentives'.earnings = incentives.earnings
        /\ incentives'.link = incentives.link
    BY <1>1, <2>1 DEF IncentiveType
  <2> QED
    BY <1>3, <2>2
<1>7. CASE (\E t \in Tokens : withdraw_fees(t)) \/ \E a \in Inputs.burns : execute_burn(a)
  BY <1>2, <1>7 DEF withdraw_fees, execute_burn, peopleVars
<1> QED
  BY <1>4, <1>5, <1>6, <1>7, InputsTyped DEF MoneyOut

LEMMA EveryStepCredits ==
  TypeOK /\ [Next]_vars => CreditStep
<1> SUFFICES ASSUME TypeOK, [Next]_vars PROVE CreditStep
  OBVIOUS
<1>1. ASSUME NEW u \in Users, NEW j \in JobId, Working(u, j)  PROVE CreditStep
  BY <1>1, SameIncentives DEF Working, AcceptJob, SubmitWork, RejectWork, ExtendDeadline, TopUpEscrow,
     RaiseDispute, Advance, noteVars, peopleVars
<1>2. ASSUME NEW j \in JobId, Judging(j)  PROVE CreditStep
  BY <1>2, SameIncentives
     DEF Judging, ResolveDispute, ResolveDisputeSplit, SubmitVerdict, noteVars, peopleVars
<1>3. CASE FeeChange \/ PolicyChange \/ Reputation \/ Tick \/ UNCHANGED vars
  <2>1. UNCHANGED attested
    BY <1>3, AdminFrame DEF Administration
  <2>2. CASE FeeChange
    BY <2>1, <2>2, SameIncentives
       DEF FeeChange, update_fee, update_fee_bps, update_fee_tier, set_fee_exemption,
       set_late_fee_bps, set_late_fee_enabled, update_burn_percentage, update_dispute_fee,
       update_oracle_fee, set_oracle_enabled, register_oracle, remove_oracle, SetFees, SetOracles,
       peopleVars
  <2>3. CASE PolicyChange
    BY <2>1, <2>3, SameIncentives
       DEF PolicyChange, pause_module, resume_module, add_to_blacklist, remove_from_blacklist,
       add_to_whitelist, remove_from_whitelist, set_whitelist_mode, add_approver, remove_approver,
       set_high_value_threshold, set_required_approvals, set_trusted_forwarder,
       set_max_jobs_per_user, set_max_active_jobs_per_client, set_min_rating_to_accept,
       set_exempt_verified_freelancers, add_allowed_token, remove_allowed_token, set_job_hold,
       SetPolicy, peopleVars
  <2>4. CASE Reputation
    BY <2>1, <2>4, SameIncentives
       DEF Reputation, verify_freelancer, unverify_freelancer, rate_freelancer, SetPeople
  <2>5. CASE Tick \/ UNCHANGED vars
    BY <2>1, <2>5, SameIncentives DEF Tick, vars, peopleVars
  <2> QED
    BY <1>3, <2>2, <2>3, <2>4, <2>5
<1> QED
  BY <1>1, <1>2, <1>3, PostingCredits, EndingCredits, MoneyOutCredits DEF Next

LEMMA CreditIsNumber ==
  ASSUME NEW amount \in Nat  PROVE BpsOf(amount, REFERRAL_BPS) \in Nat
BY BpsOfNat DEF REFERRAL_BPS

ShareAmong(js, done, c) ==
  Max({0} \cup {BpsOf(js[j].amount, REFERRAL_BPS) : j \in {k \in done : js[k].client = c}})

\* The best share is one of the shares, or nothing.
LEMMA ShareIsBest ==
  ASSUME NEW js \in [JobId -> Job], NEW done \in SUBSET JobId, NEW c
  PROVE  /\ ShareAmong(js, done, c) \in Nat
         /\ \A j \in done : js[j].client = c =>
              BpsOf(js[j].amount, REFERRAL_BPS) <= ShareAmong(js, done, c)
         /\ \/ ShareAmong(js, done, c) = 0
            \/ \E j \in done : /\ js[j].client = c
                               /\ ShareAmong(js, done, c) = BpsOf(js[j].amount, REFERRAL_BPS)
<1> DEFINE of     == {k \in done : js[k].client = c}
           given  == {BpsOf(js[j].amount, REFERRAL_BPS) : j \in of}
           shares == {0} \cup given
<1>1. IsFiniteSet(of)
  BY JobsFinite, FS_Subset
<1>2. IsFiniteSet(given)
  <2> DEFINE f == [j \in of |-> BpsOf(js[j].amount, REFERRAL_BPS)]
  <2>1. f \in Surjection(of, given)
    BY DEF Surjection
  <2> QED
    BY <1>1, <2>1, FS_Surjection
<1>3. IsFiniteSet(shares)
  BY <1>2, FS_Singleton, FS_Union
<1>4. \A j \in JobId : BpsOf(js[j].amount, REFERRAL_BPS) \in Nat
  BY CreditIsNumber DEF Job
<1>5. shares \in SUBSET Int /\ shares \subseteq Nat /\ 0 \in shares
  BY <1>4
<1>6. Max(shares) \in shares /\ \A y \in shares : y <= Max(shares)
  BY <1>3, <1>5, MaxOfFinite
<1> QED
  BY <1>5, <1>6 DEF ShareAmong

Credited ==
  /\ IsFiniteSet(incentives.rewarded)
  /\ \A c \in incentives.rewarded : incentives.link[c] # NoOne
  /\ \A j \in attested : IsTerminal(jobs[j])

ReferralInv == Credited /\ ReferralCreditedOnce

\* What a client brings his referrer never shrinks.
LEMMA SharesGrow ==
  ASSUME TypeOK, TypeOK', Credited, TermsKept, CreditStep, NEW c
  PROVE  BestShare(c) \in Nat /\ BestShare(c)' \in Nat /\ BestShare(c) <= BestShare(c)'
<1>1. /\ jobs \in [JobId -> Job] /\ jobs' \in [JobId -> Job]
      /\ attested \in SUBSET JobId /\ attested' \in SUBSET JobId
  BY DEF TypeOK, JobTypeOK, NoteTypeOK
<1>2. BestShare(c) = ShareAmong(jobs, attested, c) /\ BestShare(c)' = ShareAmong(jobs', attested', c)
  BY DEF BestShare, ShareAmong
<1>3. ASSUME NEW j \in attested  PROVE j \in attested' /\ jobs'[j] = jobs[j]
  <2>1. IsTerminal(jobs[j]) /\ j \in Posted
    BY <1>1, <1>3 DEF Credited, IsTerminal, TerminalStatus, Posted
  <2>2. KeepsItsTerms(j)
    BY <2>1 DEF TermsKept
  <2> QED
    BY <2>1, <2>2 DEF KeepsItsTerms, CreditStep, Unrewarding, Attests
<1>4. ShareAmong(jobs, attested, c) \in Nat /\ ShareAmong(jobs', attested', c) \in Nat
  BY <1>1, ShareIsBest
<1>5. CASE ShareAmong(jobs, attested, c) = 0
  BY <1>2, <1>4, <1>5
<1>6. ASSUME NEW j \in attested, jobs[j].client = c,
             ShareAmong(jobs, attested, c) = BpsOf(jobs[j].amount, REFERRAL_BPS)
      PROVE  ShareAmong(jobs, attested, c) <= ShareAmong(jobs', attested', c)
  <2>1. j \in attested' /\ jobs'[j] = jobs[j]
    BY <1>3
  <2>2. BpsOf(jobs'[j].amount, REFERRAL_BPS) <= ShareAmong(jobs', attested', c)
    BY <1>1, <1>6, <2>1, ShareIsBest
  <2> QED
    BY <1>6, <2>1, <2>2
<1> QED
  BY <1>1, <1>2, <1>4, <1>5, <1>6, ShareIsBest

LEMMA CreditedStep ==
  ASSUME TypeOK, Credited, TermsKept, CreditStep  PROVE Credited'
<1>0. incentives \in IncentiveType /\ attested \subseteq JobId
  BY DEF TypeOK, PeopleTypeOK, NoteTypeOK
<1>1. ASSUME NEW j \in attested  PROVE IsTerminal(jobs'[j])
  <2>1. IsTerminal(jobs[j]) /\ j \in Posted
    BY <1>0, <1>1 DEF Credited, IsTerminal, TerminalStatus, Posted
  <2> QED
    BY <2>1 DEF TermsKept, KeepsItsTerms
<1>2. CASE Unrewarding
  BY <1>0, <1>1, <1>2 DEF Credited, Unrewarding, IncentiveType
<1>3. ASSUME NEW j \in JobId, Attests(j)  PROVE Credited'
  <2>1. \A k \in attested' : IsTerminal(jobs'[k])
    BY <1>1, <1>3 DEF Attests
  <2>2. CASE UNCHANGED incentives
    BY <2>1, <2>2 DEF Credited
  <2>3. CASE ~UNCHANGED incentives
    <3> DEFINE c == jobs[j].client
               referrer == incentives.link[c]
    <3>1. /\ referrer # NoOne
          /\ incentives'.link = incentives.link
          /\ incentives'.rewarded = incentives.rewarded \cup {c}
      BY <1>0, <1>3, <2>3 DEF Attests, CreditReferral, IncentiveType
    <3>2. IsFiniteSet(incentives.rewarded \cup {c})
      BY FS_AddElement DEF Credited
    <3> QED
      BY <2>1, <3>1, <3>2 DEF Credited
  <2> QED
    BY <2>2, <2>3
<1> QED
  BY <1>2, <1>3 DEF CreditStep

LEMMA BroughtFinite ==
  ASSUME Credited, NEW u  PROVE IsFiniteSet(BroughtBy(u))
BY FS_Subset DEF Credited, BroughtBy

\* The same clients, worth no less.
LEMMA SameClients ==
  ASSUME TypeOK, TypeOK', ReferralInv, TermsKept, CreditStep, NEW u \in Users,
         BroughtBy(u)' = BroughtBy(u), incentives'.earnings[u] <= incentives.earnings[u]
  PROVE  incentives'.earnings[u] <= SumFunction([c \in BroughtBy(u)' |-> BestShare(c)'])
<1> DEFINE S == BroughtBy(u)
           f == [c \in S |-> BestShare(c)]
           e == [c \in S |-> BestShare(c)']
<1>1. IsFiniteSet(S)
  BY BroughtFinite DEF ReferralInv
<1>2. f \in [S -> Int] /\ e \in [S -> Int] /\ \A c \in S : f[c] <= e[c]
  <2>1. \A c \in S : BestShare(c) \in Nat /\ BestShare(c)' \in Nat /\ BestShare(c) <= BestShare(c)'
    BY SharesGrow DEF ReferralInv
  <2> QED
    BY <2>1
<1>3. e = [c \in BroughtBy(u)' |-> BestShare(c)'] /\ incentives.earnings[u] <= SumFunction(f)
  BY DEF ReferralInv, ReferralCreditedOnce
<1> HIDE DEF S, f, e
<1>4. SumFunction(f) <= SumFunction(e) /\ SumFunction(f) \in Int /\ SumFunction(e) \in Int
  BY <1>1, <1>2, SumMonotone, SumType
<1>5. incentives.earnings[u] \in Int /\ incentives'.earnings[u] \in Int
  BY DEF TypeOK, PeopleTypeOK, IncentiveType
<1> QED
  BY <1>3, <1>4, <1>5

\* One client more, whose approved job is worth the credit.
LEMMA OneMoreClient ==
  ASSUME TypeOK, TypeOK', ReferralInv, TermsKept, CreditStep, NEW u \in Users, NEW j \in attested',
         NEW c, c \notin BroughtBy(u), BroughtBy(u)' = BroughtBy(u) \cup {c}, jobs'[j].client = c,
         incentives'.earnings[u] <= incentives.earnings[u] + BpsOf(jobs'[j].amount, REFERRAL_BPS)
  PROVE  incentives'.earnings[u] <= SumFunction([d \in BroughtBy(u)' |-> BestShare(d)'])
<1> DEFINE S == BroughtBy(u)
           f == [d \in S |-> BestShare(d)]
           e == [d \in S \cup {c} |-> BestShare(d)']
<1>1. IsFiniteSet(S)
  BY BroughtFinite DEF ReferralInv
<1>2. \A d : BestShare(d) \in Nat /\ BestShare(d)' \in Nat /\ BestShare(d) <= BestShare(d)'
  BY SharesGrow DEF ReferralInv
<1>3. f \in [S -> Int] /\ e \in [S \cup {c} -> Int] /\ (\A d \in S : f[d] <= e[d])
      /\ e[c] = BestShare(c)'
  BY <1>2
<1>4. /\ e = [d \in BroughtBy(u)' |-> BestShare(d)'] /\ incentives.earnings[u] <= SumFunction(f)
      /\ c \notin S
  BY DEF ReferralInv, ReferralCreditedOnce
<1> HIDE DEF S, f, e
<1>5. SumFunction(f) + e[c] <= SumFunction(e)
  BY <1>1, <1>3, <1>4, SumGrows
<1>6. SumFunction(f) \in Int /\ SumFunction(e) \in Int /\ e[c] \in Int
  BY <1>1, <1>3, SumType, FS_AddElement
<1>7. /\ BpsOf(jobs'[j].amount, REFERRAL_BPS) <= BestShare(c)'
      /\ BpsOf(jobs'[j].amount, REFERRAL_BPS) \in Nat
  <2>1. jobs' \in [JobId -> Job] /\ attested' \in SUBSET JobId
    BY DEF TypeOK, JobTypeOK, NoteTypeOK
  <2>2. BestShare(c)' = ShareAmong(jobs', attested', c)
    BY DEF BestShare, ShareAmong
  <2>3. jobs'[j].amount \in Nat
    BY <2>1 DEF Job
  <2> QED
    BY <2>1, <2>2, <2>3, ShareIsBest, CreditIsNumber
<1>8. incentives.earnings[u] \in Int /\ incentives'.earnings[u] \in Int
  BY DEF TypeOK, PeopleTypeOK, IncentiveType
<1>9. incentives'.earnings[u] <= SumFunction(e)
  BY <1>3, <1>4, <1>5, <1>6, <1>7, <1>8
<1> QED
  BY <1>4, <1>9

LEMMA ReferralStep ==
  ASSUME TypeOK, TypeOK', ReferralInv, TermsKept, CreditStep  PROVE ReferralInv'
<1>1. /\ incentives \in IncentiveType /\ incentives' \in IncentiveType
      /\ incentives.earnings \in [Users -> Int] /\ incentives.rewarded \subseteq Users
  BY DEF TypeOK, PeopleTypeOK, IncentiveType
<1>2. Credited'
  BY CreditedStep DEF ReferralInv
<1>3. ASSUME NEW u \in Users
      PROVE  /\ incentives'.earnings[u] <= SumFunction([c \in BroughtBy(u)' |-> BestShare(c)'])
             /\ incentives'.link[u] # u
  <2>1. CASE Unrewarding
    <3>1. \A c \in incentives.rewarded : incentives'.link[c] = incentives.link[c]
      BY <1>1, <2>1 DEF Unrewarding, ReferralInv, Credited
    <3>2. BroughtBy(u)' = BroughtBy(u)
      BY <2>1, <3>1 DEF BroughtBy, Unrewarding
    <3>3. incentives'.link[u] # u
      BY <2>1 DEF Unrewarding, ReferralInv, ReferralCreditedOnce
    <3>4. incentives'.earnings[u] <= incentives.earnings[u]
      BY <2>1 DEF Unrewarding
    <3> QED
      BY <3>2, <3>3, <3>4, SameClients
  <2>2. ASSUME NEW j \in JobId, Attests(j), UNCHANGED incentives
        PROVE  /\ incentives'.earnings[u] <= SumFunction([c \in BroughtBy(u)' |-> BestShare(c)'])
               /\ incentives'.link[u] # u
    <3>1. BroughtBy(u)' = BroughtBy(u) /\ incentives'.earnings[u] <= incentives.earnings[u]
      BY <1>1, <2>2 DEF BroughtBy
    <3> QED
      BY <2>2, <3>1, SameClients DEF ReferralInv, ReferralCreditedOnce
  <2>3. ASSUME NEW j \in JobId, Attests(j), ~UNCHANGED incentives
        PROVE  /\ incentives'.earnings[u] <= SumFunction([c \in BroughtBy(u)' |-> BestShare(c)'])
               /\ incentives'.link[u] # u
    <3> DEFINE c == jobs[j].client
               referrer == incentives.link[c]
               credit == BpsOf(jobs[j].amount, REFERRAL_BPS)
    <3>1. /\ c \notin incentives.rewarded
          /\ incentives'.link = incentives.link
          /\ incentives'.rewarded = incentives.rewarded \cup {c}
          /\ incentives'.earnings = [incentives.earnings EXCEPT ![referrer] = @ + credit]
      BY <1>1, <2>3 DEF Attests, CreditReferral, IncentiveType
    <3>2. j \in attested' /\ jobs'[j].client = c /\ credit = BpsOf(jobs'[j].amount, REFERRAL_BPS)
      BY <2>3 DEF Attests
    <3>3. incentives'.link[u] # u
      BY <3>1 DEF ReferralInv, ReferralCreditedOnce
    <3> HIDE DEF credit, c
    <3>4. CASE u = referrer
      <4>1. incentives'.earnings[u] = incentives.earnings[u] + credit
        BY <1>1, <3>1, <3>4
      <4>2. c \notin BroughtBy(u) /\ BroughtBy(u)' = BroughtBy(u) \cup {c}
        BY <3>1, <3>4 DEF BroughtBy
      <4>3. incentives.earnings[u] + credit <= incentives.earnings[u] + credit
        <5>1. jobs'[j].amount \in Nat
          BY DEF TypeOK, JobTypeOK, Job
        <5>2. credit \in Int /\ incentives.earnings[u] \in Int
          BY <1>1, <3>2, <5>1, CreditIsNumber
        <5> QED
          BY <5>2
      <4> QED
        BY <3>2, <3>3, <4>1, <4>2, <4>3, OneMoreClient
    <3>5. CASE u # referrer
      <4>1. incentives'.earnings[u] <= incentives.earnings[u]
        BY <1>1, <3>1, <3>5
      <4>2. BroughtBy(u)' = BroughtBy(u)
        BY <3>1, <3>5 DEF BroughtBy
      <4> QED
        BY <3>3, <4>1, <4>2, SameClients
    <3> QED
      BY <3>4, <3>5
  <2> QED
    BY <2>1, <2>2, <2>3 DEF CreditStep
<1> QED
  BY <1>2, <1>3 DEF ReferralInv, ReferralCreditedOnce

LEMMA ReferralsStart == Init => ReferralInv
<1> SUFFICES ASSUME Init PROVE ReferralInv
  OBVIOUS
<1>1. ASSUME NEW u \in Users
      PROVE  /\ incentives.earnings[u] <= SumFunction([c \in BroughtBy(u) |-> BestShare(c)])
             /\ incentives.link[u] # u
  <2>1. BroughtBy(u) = {}
    BY DEF Init, BroughtBy
  <2>2. [c \in BroughtBy(u) |-> BestShare(c)] = [c \in {} |-> 0]
    BY <2>1
  <2>3. SumFunction([c \in {} |-> 0]) = 0
    BY SumOfZeros, FS_EmptySet
  <2>4. incentives.earnings[u] = 0 /\ incentives.link[u] = NoOne /\ NoOne # u
    BY CustodyAssumption DEF Init
  <2> QED
    BY <2>2, <2>3, <2>4
<1>2. Credited
  BY FS_EmptySet DEF Init, Credited
<1> QED
  BY <1>1, <1>2 DEF ReferralInv, ReferralCreditedOnce
=============================================================================
