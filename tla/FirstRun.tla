---- MODULE FirstRun ----
(***************************************************************************)
(* From the launch of the desktop window to a finished setup: the boot     *)
(* states of the window and its sign-in screen, the gate that sends an     *)
(* organization whose first run is not finished to the wizard, the shell   *)
(* inside the gate, which shows a form for the first company and nothing   *)
(* else until its list of companies has one, the six steps of the wizard,  *)
(* and the onboarding service behind it.  The wizard shows GET /onboarding *)
(* as last read; every act is a request, and its success makes the screen  *)
(* read again.  The desktop is exempt from the plan's quotas: a company    *)
(* form that is sent twice leaves two companies.                           *)
(***************************************************************************)
EXTENDS Naturals, Sequences, FiniteSets, SequencesExt

CONSTANTS Texts,            \* the published texts that require acceptance
          Seeds,            \* what the seed step offers: the first client, the first product
          MaxDetours        \* bound on failed requests, sign-outs, steps skipped or redone,
                            \* on companies after the first, and on what is entered at the
                            \* optional seed step

ASSUME FirstRunAssumption == MaxDetours \in Nat

VARIABLES boot,         \* the window: connecting, ready, in, error
          signingOut,   \* options.signedOut of the connect under way
          autoOpen,     \* later launches skip the sign-in screen
          page,         \* the route: wizard, home, profile
          wizardStep,   \* the wizard's step, "language" when it is mounted
          org,          \* the server's facts
          onboarding,   \* GET /onboarding as last read, or Unread
          readError,    \* the last read failed
          reading,      \* a read is under way
          companies,    \* the shell's list of companies as last read: unread, none, some
          listing,      \* a read of it is under way
          sending,      \* the requests under way
          orphans,      \* those of a window that was closed since
          unnoticed,    \* history: the facts changed and nothing reads them again
          detours,
          formNo        \* the company form that is on the screen, counted as forms come and go

firstMoves == <<boot, signingOut, autoOpen, page, wizardStep, org, onboarding, readError,
                reading, companies, listing, sending, orphans, unnoticed, detours>>
firstVars == <<firstMoves, formNo>>

StepKeys == <<"language", "profile", "company", "legal", "seed", "done">>
StepNumber(s) == CHOOSE i \in DOMAIN StepKeys : StepKeys[i] = s
Unread == [completed |-> "unread"]

Acts == {"name", "rename", "company", "accept", "seed", "complete", "update"}

(***************************************************************************)
(* OnboardingService.                                                      *)
(***************************************************************************)
ProfileComplete(o) == o.person /\ o.firm

CanComplete(o) ==
    ProfileComplete(o) /\ o.company = "valid" /\ \A k \in Texts : o.accepted[k] # "no"

\* status(): derived on every call, the company's part from the first by name.
StatusOf(o) ==
    [profile |-> ProfileComplete(o), company |-> o.company,
     accepted |-> {k \in Texts : o.accepted[k] # "no"},
     seeds |-> o.seeds,
     canComplete |-> CanComplete(o), completed |-> o.completed]

\* accept(): once per version, with the names of that moment on the contract.
Accept(o, k) ==
    IF o.accepted[k] # "no" THEN o
    ELSE [o EXCEPT !.accepted[k] = IF ProfileComplete(o) THEN "by person" ELSE "by placeholder"]

\* A company beside those there are: whichever name comes first is judged.
SecondCompany(o, v) == {[o EXCEPT !.several = TRUE],
                        [o EXCEPT !.several = TRUE, !.company = v]}

\* What a request may leave; the empty set when it is refused.  An update is of
\* the company the shell has selected, which need not be the one that is judged.
Outcomes(o, r) ==
    CASE r.act = "name"     -> {[o EXCEPT !.person = TRUE]}
      [] r.act = "rename"   -> {[o EXCEPT !.firm = TRUE]}
      [] r.act = "company"  -> IF o.company = "none" THEN {[o EXCEPT !.company = r.arg]}
                               ELSE SecondCompany(o, r.arg)
      [] r.act = "update"   -> {[o EXCEPT !.company = r.arg]} \cup (IF o.several THEN {o} ELSE {})
      [] r.act = "accept"   -> {Accept(o, r.arg)}
      [] r.act = "seed"     -> {[o EXCEPT !.seeds = @ \cup {r.arg}]}
      [] r.act = "complete" -> IF o.completed THEN {o}
                               ELSE IF CanComplete(o) THEN {[o EXCEPT !.completed = TRUE]}
                               ELSE {}

FirstTypeOK ==
    /\ boot \in {"connecting", "ready", "in", "error"}
    /\ page \in {"wizard", "home", "profile"} /\ wizardStep \in Range(StepKeys)
    /\ org.accepted \in [Texts -> {"no", "by placeholder", "by person"}]
    /\ org.company \in {"none", "invalid", "valid"}
    /\ \A r \in sending \cup orphans : r.act \in Acts
    /\ \A r, s \in sending :
         r.act = s.act => r = s \/ r.act = "seed" \/ (r.act = "company" /\ r.form # s.form)
    /\ onboarding = Unread => reading \/ readError \/ boot # "in"
    /\ companies = "some" => org.company # "none"
    /\ detours \in 0..MaxDetours

FirstInit ==
    /\ boot = "connecting" /\ signingOut = FALSE /\ autoOpen \in BOOLEAN
    /\ page = "home" /\ wizardStep = "language"
    /\ org = [person |-> FALSE, firm |-> FALSE, company |-> "none", several |-> FALSE,
              accepted |-> [k \in Texts |-> "no"], seeds |-> {},
              completed |-> FALSE]
    /\ onboarding = Unread /\ readError = FALSE /\ reading = FALSE
    /\ companies = "unread" /\ listing = FALSE
    /\ sending = {} /\ orphans = {} /\ unnoticed = FALSE /\ detours = 0 /\ formNo = 0

Detour == detours < MaxDetours /\ detours' = detours + 1
Screen == <<page, wizardStep>>
List == <<companies, listing>>
Reads == <<onboarding, readError, reading, companies, listing>>
Late == <<orphans, unnoticed>>
Window == <<boot, signingOut, autoOpen>>

(***************************************************************************)
(* The window.  The product is mounted with a new router and a new query   *)
(* cache each time the window opens it.                                    *)
(***************************************************************************)
EnterApp ==
    /\ boot' = "in" /\ reading' = TRUE
    /\ UNCHANGED <<Screen, onboarding, readError, List, unnoticed>>

\* "Auto-open is for launches, not for a sign-out the person just asked for."
Connected ==
    /\ boot = "connecting"
    /\ \/ autoOpen /\ ~signingOut /\ EnterApp
       \/ ~(autoOpen /\ ~signingOut) /\ boot' = "ready"
          /\ UNCHANGED <<Screen, Reads, unnoticed>>
    /\ UNCHANGED <<signingOut, autoOpen, org, sending, orphans, detours>>

ConnectFails ==
    /\ Detour /\ boot = "connecting" /\ boot' = "error"
    /\ UNCHANGED <<signingOut, autoOpen, Screen, Reads, org, sending, Late>>

\* Retry is a launch again: its connect knows of no sign-out.
RetryConnect ==
    /\ boot = "error" /\ boot' = "connecting" /\ signingOut' = FALSE
    /\ UNCHANGED <<autoOpen, Screen, Reads, org, sending, Late, detours>>

OpenApp ==
    /\ boot = "ready" /\ EnterApp
    /\ UNCHANGED <<signingOut, autoOpen, org, sending, orphans, detours>>

ChangeAutoOpen ==
    /\ boot = "ready" /\ autoOpen' = ~autoOpen
    /\ UNCHANGED <<boot, signingOut, Screen, Reads, org, sending, Late, detours>>

\* The screen and its cache are gone; the requests under way go on without.
DesktopSignOut ==
    /\ Detour /\ boot = "in"
    /\ boot' = "connecting" /\ signingOut' = TRUE
    /\ page' = "home" /\ wizardStep' = "language"
    /\ onboarding' = Unread /\ readError' = FALSE /\ reading' = FALSE
    /\ companies' = "unread" /\ listing' = FALSE
    /\ orphans' = orphans \cup sending /\ sending' = {} /\ unnoticed' = FALSE
    /\ UNCHANGED <<autoOpen, org>>

(***************************************************************************)
(* FirstRunGate: a status that was read and says "not completed" shows     *)
(* only the wizard; an error opens the gate.  A redirect mounts the wizard *)
(* anew.                                                                   *)
(***************************************************************************)
GateCloses(known, failed) == known # Unread /\ ~failed /\ ~known.completed

Navigate(p, known, failed) ==
    LET target == IF GateCloses(known, failed) THEN "wizard" ELSE p
    IN  /\ page' = target
        /\ wizardStep' = IF p = "wizard" THEN wizardStep ELSE "language"

\* The first answer, or its failure, mounts the shell: it reads its list.
ShellMounts ==
    /\ listing' = (listing \/ (onboarding = Unread /\ companies = "unread"))
    /\ UNCHANGED companies

OnboardingRead ==
    /\ boot = "in" /\ reading
    /\ onboarding' = StatusOf(org) /\ readError' = FALSE /\ reading' = FALSE
    /\ Navigate(page, StatusOf(org), FALSE) /\ ShellMounts
    /\ unnoticed' = FALSE
    /\ UNCHANGED <<Window, org, sending, orphans, detours>>

OnboardingReadFails ==
    /\ Detour /\ boot = "in" /\ reading
    /\ readError' = TRUE /\ reading' = FALSE /\ ShellMounts
    /\ UNCHANGED <<Window, Screen, org, onboarding, sending, Late>>

\* Focus, or a mount after the stale time.  With nothing read before, the gate
\* shows its loading screen, and the shell is down.
ReadAgain ==
    /\ boot = "in" /\ ~reading /\ reading' = TRUE
    /\ UNCHANGED <<Window, Screen, org, onboarding, readError, List, sending, Late, detours>>

(***************************************************************************)
(* ProductShell.  Its routes are there once its list has a company; until  *)
(* then it shows the form for the first company, also after a first read   *)
(* that failed.  A list with a company in it keeps one: its later reads    *)
(* are left out.                                                           *)
(***************************************************************************)
ShellUp == boot = "in" /\ ~(onboarding = Unread /\ reading)
Outlet == ShellUp /\ companies = "some"
FirstCompanyForm == ShellUp /\ companies # "some" /\ ~(companies = "unread" /\ listing)

CompanyListRead ==
    /\ boot = "in" /\ listing /\ listing' = FALSE
    /\ companies' = IF org.company = "none" THEN "none" ELSE "some"
    /\ UNCHANGED <<Window, Screen, org, onboarding, readError, reading, sending, Late, detours>>

CompanyListFails ==
    /\ Detour /\ boot = "in" /\ listing /\ listing' = FALSE
    /\ UNCHANGED <<Window, Screen, org, onboarding, readError, reading, companies, sending, Late>>

\* Focus, or a mount that finds the list old or marked as old.
ReadCompanyList ==
    /\ ShellUp /\ companies # "some" /\ ~listing /\ listing' = TRUE
    /\ UNCHANGED <<Window, Screen, org, onboarding, readError, reading, companies, sending, Late,
                   detours>>

(***************************************************************************)
(* The wizard, one of the shell's routes.  Next is never disabled; the     *)
(* stepper goes back only.                                                 *)
(***************************************************************************)
OnStep(s) == Outlet /\ page = "wizard" /\ onboarding # Unread /\ wizardStep = s

\* What a diligent person does not leave a step without.
Needed(s) ==
    \/ s = "profile" /\ ~onboarding.profile
    \/ s = "company" /\ onboarding.company # "valid"
    \/ s = "legal" /\ onboarding.accepted # Texts
    \/ s = "done" /\ ~onboarding.completed

GoNext(s) ==
    /\ OnStep(s) /\ s # "done"
    /\ wizardStep' = StepKeys[StepNumber(s) + 1]
    /\ IF Needed(s) THEN Detour ELSE UNCHANGED detours
    /\ UNCHANGED <<Window, page, org, Reads, sending, Late>>

GoBack(s) ==
    /\ OnStep(wizardStep) /\ StepNumber(s) < StepNumber(wizardStep)
    /\ wizardStep' = s
    /\ IF wizardStep = "done" /\ Needed(s) THEN UNCHANGED detours ELSE Detour
    /\ UNCHANGED <<Window, page, org, Reads, sending, Late>>

Idle(acts) == \A r \in sending : r.act \notin acts

Send(requests) ==
    /\ sending' = sending \cup requests
    /\ UNCHANGED <<Window, Screen, org, Reads, Late, detours>>

\* One button, two requests: the person's name and the organization's.
SubmitProfile ==
    /\ OnStep("profile") /\ Idle({"name", "rename"})
    /\ Send({[act |-> "name"], [act |-> "rename"]})

\* CompanyForm: the shell's own, or the wizard's when the status knows of no
\* company.  A form that comes up anew knows nothing of what the last one sent.
CompanyForm ==
    IF FirstCompanyForm THEN "shell"
    ELSE IF OnStep("company") /\ onboarding.company = "none" THEN "wizard" ELSE "absent"
FormComes == formNo' = IF CompanyForm' = CompanyForm THEN formNo ELSE formNo + 1

\* It checks nothing; the server judges the identifiers.  Its button is back as
\* soon as the answer is, before the list and the status are read again; a
\* company after the first is counted with the detours.
CreateCompany(v) ==
    /\ CompanyForm # "absent" /\ \A r \in sending : r.act = "company" => r.form # formNo
    /\ IF org.company = "none" THEN UNCHANGED detours ELSE Detour
    /\ sending' = sending \cup {[act |-> "company", arg |-> v, form |-> formNo]}
    /\ UNCHANGED <<Window, Screen, org, Reads, Late>>

AcceptText(k) ==
    /\ OnStep("legal") /\ k \notin onboarding.accepted /\ Idle({"accept"})
    /\ Send({[act |-> "accept", arg |-> k]})

\* Optional: counted with the detours.
AddSeed(kind) ==
    /\ Detour /\ OnStep("seed") /\ onboarding.company # "none" /\ kind \notin onboarding.seeds
    /\ \A r \in sending : r.act = "seed" => r.arg # kind
    /\ sending' = sending \cup {[act |-> "seed", arg |-> kind]}
    /\ UNCHANGED <<Window, Screen, org, Reads, Late>>

\* Faulty variant of FinishSetup: the first client and product are required.
FinishSetupSeeded ==
    /\ OnStep("done") /\ ~onboarding.completed /\ onboarding.canComplete /\ Idle({"complete"})
    /\ onboarding.seeds = Seeds
    /\ Send({[act |-> "complete"]})

FinishSetup ==
    /\ OnStep("done") /\ ~onboarding.completed /\ onboarding.canComplete /\ Idle({"complete"})
    /\ Send({[act |-> "complete"]})

\* "Edit company" leads to the company's own screen, through the gate.
EditCompany ==
    /\ OnStep("company") /\ onboarding.company # "none"
    /\ Navigate("profile", onboarding, readError)
    /\ IF onboarding.company = "valid" THEN Detour ELSE UNCHANGED detours
    /\ UNCHANGED <<Window, org, Reads, sending, Late>>

LeaveWizard ==
    /\ OnStep("done") /\ onboarding.completed
    /\ Navigate("home", onboarding, readError)
    /\ UNCHANGED <<Window, org, Reads, sending, Late, detours>>

\* The company screen (CompanySettingsPanel), where the gate is open.
UpdateCompany(v) ==
    /\ Outlet /\ page = "profile" /\ Idle({"update"})
    /\ Send({[act |-> "update", arg |-> v]})

\* A mutation's success reads the status again, except an update of the
\* company; a new company also reads the list again, where a shell shows it.
Invalidates(act) == act # "update"
Relists(act) == act = "company" /\ ShellUp /\ companies # "some"

ActAnswered(r, reread, relist) ==
    /\ \E o \in Outcomes(org, r) : org' = o
    /\ sending' = sending \ {r}
    /\ reading' = (reading \/ reread) /\ listing' = (listing \/ relist)
    /\ UNCHANGED <<Window, Screen, onboarding, readError, companies, orphans>>

ActServed(r) ==
    /\ ActAnswered(r, Invalidates(r.act), Relists(r.act))
    /\ unnoticed' = (unnoticed \/ ~Invalidates(r.act)) /\ UNCHANGED detours

\* The answer is lost: the screen sees a failure, the server has acted.
ActLost(r) == Detour /\ ActAnswered(r, FALSE, FALSE) /\ unnoticed' = TRUE

\* Refused, or failed on the way: the screen shows an error at most.
ActFails(r) ==
    /\ \/ Outcomes(org, r) = {} /\ UNCHANGED detours
       \/ Detour
    /\ sending' = sending \ {r}
    /\ UNCHANGED <<Window, Screen, org, Reads, Late>>

\* The request of a window that was closed: its success reads nothing again
\* (the query client is the old window's).
OrphanEnds(r) ==
    /\ \/ \E o \in Outcomes(org, r) : org' = o
       \/ Outcomes(org, r) = {} /\ UNCHANGED org
    /\ orphans' = orphans \ {r} /\ unnoticed' = (boot = "in" \/ unnoticed)
    /\ UNCHANGED <<Window, Screen, Reads, sending, detours>>

WizardActs ==
    \/ \E s \in Range(StepKeys) : GoNext(s) \/ GoBack(s)
    \/ SubmitProfile \/ FinishSetup \/ EditCompany \/ LeaveWizard
    \/ \E v \in {"valid", "invalid"} : CreateCompany(v) \/ UpdateCompany(v)
    \/ \E k \in Texts : AcceptText(k)
    \/ \E kind \in Seeds : AddSeed(kind)

FirstMove ==
    \/ Connected \/ ConnectFails \/ RetryConnect \/ OpenApp \/ ChangeAutoOpen \/ DesktopSignOut
    \/ OnboardingRead \/ OnboardingReadFails \/ ReadAgain
    \/ CompanyListRead \/ CompanyListFails \/ ReadCompanyList
    \/ WizardActs
    \/ \E r \in sending : ActServed(r) \/ ActLost(r) \/ ActFails(r)
    \/ \E r \in orphans : OrphanEnds(r)

FirstNext == FirstMove /\ FormComes

\* A diligent person fills the company form that is shown, does what a step offers and is still needed, then goes
\* on, and comes back from the last step to what is missing.
Progress ==
    \/ SubmitProfile /\ Needed("profile")
    \/ \E v \in {"valid", "invalid"} : CreateCompany(v)
    \/ EditCompany /\ onboarding.company = "invalid"
    \/ UpdateCompany("valid") /\ org.company = "invalid"
    \/ \E k \in Texts : AcceptText(k)
    \/ FinishSetup
    \/ \E s \in Range(StepKeys) : GoNext(s) /\ ~Needed(s)
    \/ \E s \in Range(StepKeys) :
         GoBack(s) /\ wizardStep = "done" /\ ~onboarding.canComplete /\ Needed(s)

\* The window comes up, requests are answered, the status and the list are read
\* again when the window is looked at again, and the person is diligent.
FirstFairness ==
    /\ WF_firstMoves(Connected) /\ WF_firstMoves(RetryConnect) /\ WF_firstMoves(OpenApp)
    /\ WF_firstMoves(OnboardingRead) /\ WF_firstMoves(ReadAgain)
    /\ WF_firstMoves(CompanyListRead) /\ WF_firstMoves(ReadCompanyList)
    /\ WF_firstMoves(\E r \in sending : ActServed(r) \/ ActFails(r))
    /\ WF_firstMoves(\E r \in orphans : OrphanEnds(r))
    /\ WF_firstMoves(Progress)

FirstSpec == FirstInit /\ [][FirstNext]_firstVars
FairFirstSpec == FirstSpec /\ FirstFairness

(***************************************************************************)
(* Properties.                                                             *)
(***************************************************************************)

\* "GET /onboarding is re-read after every act" (OnboardingWizard.tsx): with no
\* request and no read under way, the wizard shows the server's facts, in
\* whichever order the answers of several acts came back, unless an answer was
\* lost or an act of a window closed earlier took effect since the last read.
WizardCurrent ==
    boot = "in" /\ sending = {} /\ ~reading /\ ~readError /\ ~unnoticed
        => onboarding = StatusOf(org)

\* A diligent person finishes the setup, through the shell's company form and
\* the wizard behind it, whatever failed, was lost or was interrupted by a
\* sign-out, unless the identifiers of the company that is judged were wrong.
SetupFinishes == <>(org.completed \/ org.company = "invalid")
====
