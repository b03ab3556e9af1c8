------------------------------ MODULE MCScreens ------------------------------
(***************************************************************************)
(* The screens of the product, one of them mounted.  The router mounts one *)
(* screen and a screen's state dies with it, so a behaviour of the product *)
(* is a behaviour of the screen it has mounted.  The invoice workspace is  *)
(* no route yet: it is a scaffold beside the shell, mounted on its own.    *)
(***************************************************************************)
EXTENDS InvoiceBuilder, InvoiceWorkspace, InvoiceActions, TemplateStudio, FirstRun,
        ProductList, CompanySettings, ProductShell

VARIABLE mounted   \* the screen of this behaviour

Screens == {"builder", "workspace", "actions", "studio", "first run", "products",
            "company", "shell"}

MCPrice == [p \in Products |-> 3]
MCRate == [p \in Products |-> 6]
MCBlockKinds == <<"header", "items", "notes">>

screenVars == <<mounted, builderVars, wsVars, actVars, studioVars, firstVars, listVars,
                settingsVars, shellVars>>

Init ==
    /\ mounted \in Screens
    /\ BuilderInit /\ WsInit /\ ActInit /\ StudioInit /\ FirstInit /\ ListInit
    /\ SettingsInit /\ ShellInit
    \* the screens that are not mounted start in one way only
    /\ mounted # "actions" => screen = "list" /\ \A i \in Invoices : status[i] = "draft"
    /\ mounted # "studio" => stored = <<>>
    /\ mounted # "first run" => autoOpen
    /\ mounted # "products" => filter = "any"
    /\ mounted # "shell" =>
         build.surface = "saas" /\ owned = <<>> /\ tour = "absent"

Next ==
    /\ UNCHANGED mounted
    /\ \/ /\ mounted = "builder" /\ BuilderNext
          /\ UNCHANGED <<wsVars, actVars, studioVars, firstVars, listVars, settingsVars, shellVars>>
       \/ /\ mounted = "workspace" /\ WsNext
          /\ UNCHANGED <<builderVars, actVars, studioVars, firstVars, listVars, settingsVars, shellVars>>
       \/ /\ mounted = "actions" /\ ActNext
          /\ UNCHANGED <<builderVars, wsVars, studioVars, firstVars, listVars, settingsVars, shellVars>>
       \/ /\ mounted = "studio" /\ StudioNext
          /\ UNCHANGED <<builderVars, wsVars, actVars, firstVars, listVars, settingsVars, shellVars>>
       \/ /\ mounted = "first run" /\ FirstNext
          /\ UNCHANGED <<builderVars, wsVars, actVars, studioVars, listVars, settingsVars, shellVars>>
       \/ /\ mounted = "products" /\ ListNext
          /\ UNCHANGED <<builderVars, wsVars, actVars, studioVars, firstVars, settingsVars, shellVars>>
       \/ /\ mounted = "company" /\ SettingsNext
          /\ UNCHANGED <<builderVars, wsVars, actVars, studioVars, firstVars, listVars, shellVars>>
       \/ /\ mounted = "shell" /\ ShellNext
          /\ UNCHANGED <<builderVars, wsVars, actVars, studioVars, firstVars, listVars,
                         settingsVars>>

\* BuilderFairness and FirstFairness, of the screen that is mounted.
Fairness ==
    /\ WF_builderVars(mounted = "builder" /\ PreviewServed)
    /\ WF_builderVars(mounted = "builder" /\ TreatmentServed)
    /\ WF_firstMoves(mounted = "first run" /\ Connected)
    /\ WF_firstMoves(mounted = "first run" /\ RetryConnect)
    /\ WF_firstMoves(mounted = "first run" /\ OpenApp)
    /\ WF_firstMoves(mounted = "first run" /\ OnboardingRead)
    /\ WF_firstMoves(mounted = "first run" /\ ReadAgain)
    /\ WF_firstMoves(mounted = "first run" /\ CompanyListRead)
    /\ WF_firstMoves(mounted = "first run" /\ ReadCompanyList)
    /\ WF_firstMoves(mounted = "first run" /\ \E r \in sending : ActServed(r) \/ ActFails(r))
    /\ WF_firstMoves(mounted = "first run" /\ \E r \in orphans : OrphanEnds(r))
    /\ WF_firstMoves(mounted = "first run" /\ Progress)

Spec == Init /\ [][Next]_screenVars /\ Fairness

\* The state of every screen is well formed.  The workspace's drawer is open only
\* over an item that is there: whatever removes the item closes it.  The builder's
\* overlay and the product list's editor claim less: the overlay stands over a
\* line number, whose line may have been removed behind it (filling it then fills
\* nothing), and the list selects a product of the catalogue or none.  An action's
\* hook has one latest mutation, only cleaned texts of the company are sent, a
\* read follows every mount of the gate, and the shell counts on a company only
\* when there is one.
ScreensTypeOK ==
    /\ mounted \in Screens
    /\ BuilderTypeOK /\ WsTypeOK /\ ActTypeOK /\ StudioTypeOK /\ FirstTypeOK
    /\ ListTypeOK /\ SettingsTypeOK /\ ShellTypeOK

\* The amounts on the screens are right: the builder's totals are the server's
\* for the lines on the screen, whose rates follow the customer's treatment,
\* and the workspace's sums add up, to each other and, where none of its printed
\* rows is NaN, to the rows.
MoneyShown == TotalsMatchLines /\ FreeLinesFollowTreatment /\ TotalsAddUp

\* Pressing twice stores once, unless an answer was lost in between: a draft, a
\* payment or credit note, a product.
PressedOnce == OneDraftPerComposition /\ RecordedOnce /\ CreatedOnce

\* A screen shows, tells and edits the record it stands for, whichever was
\* open before and however late an answer comes: a line in its drawer, the
\* outcome of an action, the wizard's facts, a product in its editor, a verdict
\* beside its field.  A template's save and publication are of the row that its
\* composition was made as or opened from, with the required blocks shown, except
\* after the workspace was left while a create was under way: that answer gives
\* its row to whatever is open by then (OwnRow of TemplateStudio).
TrueToItsRecord ==
    /\ DrawerShowsLine /\ OutcomeShown /\ RequiredShown /\ OwnRow /\ WizardCurrent
    /\ EditsOwnProduct /\ VerdictsHonest

\* No save undoes another: not an older one of the same template, nor one of
\* another window that changes other fields of the company.
NoSaveUndone == [][SavesInOrder /\ OthersEditsSurvive]_<<studioVars, settingsVars>>

\* SetupFinishes, where the first run is what is mounted: a diligent person gets
\* through the shell's own company form, which stands before everything else while
\* there is no company, and then the wizard, whatever single detour the instance
\* allows.
FirstRunFinishes == mounted = "first run" => SetupFinishes
==============================================================================
