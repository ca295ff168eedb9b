------------------------------- MODULE Profile -------------------------------
(***************************************************************************)
(* The profile of the worker (app/profile/[address]), its portfolio and    *)
(* availability kept in this browser (lib/portfolio.ts,                    *)
(* lib/availability.ts), the resume builder, the dialog that celebrates a  *)
(* job, and the button that downloads and shares its certificate.          *)
(***************************************************************************)
EXTENDS Browser

CONSTANTS
  Tags,                              \* skills one may type
  MaxSkills, MaxLinks, MaxHighlights,
  MaxBurst                           \* frames a burst of confetti stays visible

-----------------------------------------------------------------------------
(***************************************************************************)
(* The portfolio.  Of the biography it matters whether it is empty, short, *)
(* or of the twenty characters a complete profile wants.                   *)
(***************************************************************************)
emptyPortfolio    == [bio |-> "empty", skills |-> {}, links |-> 0, highlighted |-> {}]
emptyAvailability == [preference |-> "available", open |-> FALSE]

isProfileComplete(p) ==
  p.bio = "long" /\ p.skills # {} /\ p.links >= 1 /\ p.highlighted # {}

\* The client gave one opinion on a job and changes it afterwards.
Opinion(j, text) == [job |-> j, client |-> wallet, text |-> text]

upsertTestimonial(all, t) ==
  LET Same(u) == u.job = t.job /\ u.client = t.client
  IN  IF \E i \in DOMAIN all : Same(all[i])
      THEN [i \in DOMAIN all |-> IF Same(all[i]) THEN t ELSE all[i]] ELSE Append(all, t)

-----------------------------------------------------------------------------
\* The page of the worker's profile.  Other tabs keep the same two records.
ProfileUi ==
  [list |-> Nothing, loading |-> TRUE, error |-> FALSE, restricted |-> "no",
   editing |-> FALSE, draft |-> emptyPortfolio, portfolio |-> emptyPortfolio,
   testimonials |-> <<>>, thanked |-> {}, availability |-> emptyAvailability]

OnProfile == focus \in {"profile", "availability"}   \* the page; its panel for the owner
isOwner   == wallet = Worker

\* The three questions about access are asked together, then the number of
\* jobs, then one job after another.
fetchProfile == Asking("access", [next |-> 0, seen |-> Nothing])

AccessRead(a) ==
  /\ a.op = "access" /\ Answered(a)
  /\ \E restricted \in IF Failed(a) THEN {ui.restricted} ELSE {"no", "blacklisted", "pending"} :
       Goes([ui EXCEPT !.restricted = restricted], Awaits(a, "getJobCount", a.arg))

NextRead(a, seen, j) ==
  IF j \in JobIds
  THEN Goes(ui, Awaits(a, "getJob", [next |-> j, seen |-> seen]))
  ELSE Goes([ui EXCEPT !.list = ListFor(Worker, seen), !.loading = FALSE], Settled(a))

ProfileRead(a) ==
  /\ a.op \in {"getJobCount", "getJob"} /\ Answered(a)
  /\ \/ Failed(a) /\ Goes([ui EXCEPT !.loading = FALSE, !.error = TRUE], Settled(a))
     \/ ~Failed(a) /\ a.op = "getJobCount" /\ NextRead(a, a.arg.seen, 1)
     \/ /\ ~Failed(a) /\ a.op = "getJob"
        /\ LET j == a.arg.next IN NextRead(a, [a.arg.seen EXCEPT ![j] = a.seen[j]], j + 1)

ErrorDismissed == ui.error /\ Sets([ui EXCEPT !.error = FALSE])
FetchRetried ==
  /\ ui.error /\ Room
  /\ Goes([ui EXCEPT !.error = FALSE, !.loading = TRUE], fetchProfile)

\* What the page derives from the jobs it has read.
completedAsFreelancer == {j \in JobIds : ui.list[j] = "Completed"}

\* Fault: any job of the worker may be shown as completed work.
Fault_highlightableJobs_all == {j \in JobIds : ui.list[j] # "none"}
highlightableJobs    == completedAsFreelancer
highlightedJobs      == {j \in JobIds : ui.list[j] # "none"} \cap ui.portfolio.highlighted
clientCanTestifyJobs == IF wallet = Client THEN completedAsFreelancer ELSE {}
\* Editing: a draft of the portfolio, which a switch of the wallet leaves open.
startEdit  ==
  /\ isOwner /\ ~ui.editing
  /\ Sets([ui EXCEPT !.editing = TRUE, !.draft = ui.portfolio, !.thanked = {}])
cancelEdit == ui.editing /\ Sets([ui EXCEPT !.editing = FALSE])

saveEdit ==
  /\ ui.editing /\ isOwner
  /\ store' = [store EXCEPT !.portfolio = ui.draft]
  /\ ui' = [ui EXCEPT !.portfolio = ui.draft, !.editing = FALSE]
  /\ UNCHANGED <<focus, wallet, jobs, asks>>

Drafts(d) == ui.editing /\ Sets([ui EXCEPT !.draft = d])

BioTyped(bio)    == Drafts([ui.draft EXCEPT !.bio = bio])
addSkill(tag)    == Cardinality(ui.draft.skills) < MaxSkills /\ Drafts([ui.draft EXCEPT !.skills = @ \cup {tag}])
removeSkill(tag) == Drafts([ui.draft EXCEPT !.skills = @ \ {tag}])
addLink          == ui.draft.links < MaxLinks /\ Drafts([ui.draft EXCEPT !.links = @ + 1])
removeLink       == ui.draft.links > 0 /\ Drafts([ui.draft EXCEPT !.links = @ - 1])

toggleHighlight(j) ==
  /\ j \in highlightableJobs
  /\ \/ j \in ui.draft.highlighted /\ Drafts([ui.draft EXCEPT !.highlighted = @ \ {j}])
     \/ Cardinality(ui.draft.highlighted) < MaxHighlights /\ Drafts([ui.draft EXCEPT !.highlighted = @ \cup {j}])

EditMode ==
  \/ startEdit \/ cancelEdit \/ saveEdit \/ addLink \/ removeLink
  \/ \E bio \in {"empty", "long"} : BioTyped(bio)
  \/ \E tag \in Tags : addSkill(tag) \/ removeSkill(tag)
  \/ \E j \in JobIds : toggleHighlight(j)

\* The owner's availability is kept at once, and every indicator told of it.
saveAvailability(new) ==
  /\ isOwner /\ store.availability # new
  /\ store' = [store EXCEPT !.availability = new]
  /\ ui' = [ui EXCEPT !.availability = new]
  /\ UNCHANGED <<focus, wallet, jobs, asks>>

AvailabilityPanel ==
  \/ \E p \in {"available", "busy", "unavailable"} : saveAvailability([ui.availability EXCEPT !.preference = p])
  \/ saveAvailability([ui.availability EXCEPT !.open = ~@])

\* The form of a job says thank you once, until it is shown anew.
TestimonialGiven(j, text) ==
  /\ ~ui.editing /\ j \in clientCanTestifyJobs \ ui.thanked
  /\ LET all == upsertTestimonial(store.testimonials, Opinion(j, text))
     IN  /\ store' = [store EXCEPT !.testimonials = all]
         /\ ui' = [ui EXCEPT !.testimonials = all, !.thanked = @ \cup {j}]
  /\ UNCHANGED <<focus, wallet, jobs, asks>>

ProfileInit ==
  /\ focus \in {"profile", "availability"} /\ ui = ProfileUi
  /\ store = [portfolio |-> emptyPortfolio, testimonials |-> <<>>, availability |-> emptyAvailability]

ProfileUser ==
  /\ OnProfile
  /\ \/ ErrorDismissed \/ FetchRetried
     \/ focus = "profile" /\ EditMode
     \/ focus = "availability" /\ AvailabilityPanel
     \/ focus = "profile" /\ \E j \in JobIds : TestimonialGiven(j, "good") \/ TestimonialGiven(j, "bad")
     \/ \E who \in {Worker, Client} : WalletChanges(who, [ui EXCEPT !.thanked = {}])

ProfileAnswer(a) == OnProfile /\ AnswerRead(a)
ProfileStep(a)   == OnProfile /\ (AccessRead(a) \/ ProfileRead(a))

-----------------------------------------------------------------------------
(***************************************************************************)
(* The resume builder keeps every change in the browser; its effect writes *)
(* only once the stored resume has been read.                              *)
(***************************************************************************)
Sections == {"experiences", "education", "skills"}

defaultResume == [filled |-> {}, sections |-> [s \in Sections |-> 0]]

BuilderInit ==
  /\ focus = "builder"
  /\ \E old \in [filled : {{}, {"name"}}, sections : [Sections -> 0..1]] :
       store = old /\ ui = [resume |-> defaultResume, loaded |-> FALSE, preview |-> FALSE]

ResumeLoaded == ~ui.loaded /\ Sets([ui EXCEPT !.resume = store, !.loaded = TRUE])

\* Each edit is kept by the effect that follows it.
ResumeEdited(r) ==
  /\ ui.loaded /\ ~ui.preview
  /\ ui' = [ui EXCEPT !.resume = r] /\ store' = r
  /\ UNCHANGED <<focus, wallet, jobs, asks>>

updateField(f) ==
  \/ ResumeEdited([ui.resume EXCEPT !.filled = @ \cup {f}])
  \/ ResumeEdited([ui.resume EXCEPT !.filled = @ \ {f}])
addEntry(s)    == ui.resume.sections[s] < MaxSkills /\ ResumeEdited([ui.resume EXCEPT !.sections[s] = @ + 1])
removeEntry(s) == ui.resume.sections[s] > 0 /\ ResumeEdited([ui.resume EXCEPT !.sections[s] = @ - 1])

PreviewToggled == ui.loaded /\ Sets([ui EXCEPT !.preview = ~@])

BuilderNext ==
  /\ focus = "builder"
  /\ \/ ResumeLoaded \/ PreviewToggled
     \/ \E f \in {"name", "link"} : updateField(f)
     \/ \E s \in Sections : addEntry(s) \/ removeEntry(s)

-----------------------------------------------------------------------------
(***************************************************************************)
(* The celebration.  `burst` counts the frames the youngest confetti lasts; *)
(* `drawing` says that a frame is asked for, which the render loop does    *)
(* only while something is alive.                                          *)
(***************************************************************************)
CelebrationUi(rates) ==
  [open |-> TRUE, burst |-> MaxBurst, drawing |-> TRUE, calm |-> FALSE,
   rating |-> 0, submitting |-> FALSE, submitted |-> FALSE, copied |-> FALSE, rates |-> rates]

CelebrationInit ==
  /\ focus = "celebration" /\ store = "nothing"
  /\ \E rates \in BOOLEAN : ui = CelebrationUi(rates)

\* "Celebrate again": new confetti, and no new loop.
spawnConfettiBurst == ui.open /\ ~ui.calm /\ Sets([ui EXCEPT !.burst = MaxBurst])

Rendered ==
  /\ ui.drawing
  /\ LET left == IF ui.burst > 0 THEN ui.burst - 1 ELSE 0
     IN  Sets([ui EXCEPT !.burst = left, !.drawing = left > 0])

\* The system prefers less motion, or does again: the effect starts anew.
MotionChanged ==
  LET calm == ~ui.calm
  IN  ui.open /\ Sets([ui EXCEPT !.calm = calm, !.burst = IF calm THEN 0 ELSE MaxBurst, !.drawing = ~calm])

handleRatingSubmit(score) ==
  /\ ui.open /\ ~ui.submitted /\ ~ui.submitting
  /\ \/ ~ui.rates /\ Sets([ui EXCEPT !.rating = score, !.submitted = TRUE])
     \/ /\ ui.rates /\ Room
        /\ Goes([ui EXCEPT !.rating = score, !.submitting = TRUE], Asking("rateJob", score))

RatingDone(a) ==
  /\ a.op = "rateJob" /\ Answered(a)
  /\ Goes([ui EXCEPT !.submitting = FALSE, !.submitted = @ \/ ~Failed(a)], Settled(a))

copyShareLink == ui.open /\ Sets([ui EXCEPT !.copied = TRUE])
CopiedFades   == Sets([ui EXCEPT !.copied = FALSE])
handleNativeShare(supported) == ~supported /\ copyShareLink
CelebrationShut ==
  ui.open /\ Sets([ui EXCEPT !.open = FALSE, !.burst = 0, !.drawing = FALSE])

CelebrationNext ==
  /\ focus = "celebration"
  /\ \/ spawnConfettiBurst \/ Rendered \/ MotionChanged \/ copyShareLink \/ CopiedFades \/ CelebrationShut
     \/ \E score \in {1, 5} : handleRatingSubmit(score)
     \/ \E supported \in BOOLEAN : handleNativeShare(supported)
     \/ \E a \in asks : AnswerPlain(a) \/ RatingDone(a)
=============================================================================
