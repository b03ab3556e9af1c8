---------------------------- MODULE DesktopBackups ----------------------------
(***************************************************************************)
(* The desktop build's dated backups (desktop/bootstrap.run() and          *)
(* desktop/backups.write_backup()): at every start unless the day has an   *)
(* archive, and over it at a clean exit.  The shell ends the sidecar with  *)
(* TerminateProcess, so a Kill is the normal end; a failure to write is    *)
(* swallowed.  One sidecar runs at a time.                                 *)
(***************************************************************************)
EXTENDS Naturals, FiniteSets

CONSTANTS
    Keep,     \* dated archives the rotation keeps
    MaxDay,   \* bound: days that pass
    MaxData   \* bound: changes to the database

ASSUME DesktopAssumption ==
    /\ Keep \in Nat \ {0} /\ MaxDay \in Nat \ {0} /\ MaxData \in Nat

VARIABLES
    day,       \* date.today()
    data,      \* version of the database; 0: nobody has signed up
    folder,    \* folder[d]: the version in d's archive; a day without one is not in the domain
    phase,     \* of the sidecar
    write,     \* the write_backup() under way: its target day, the version it
               \* exported, the archives it is to remove, what run() does next
    session,   \* of the sidecar: the day it started on, and whether its
               \* start-up backup failed
    dayStart   \* the version the day began with

desktopVars == <<day, data, folder, phase, write, session, dayStart>>

Days == 1..MaxDay

\* A dated file that is not a whole archive.
Torn == 0

DesktopPhases == {"off", "starting", "exported", "staging", "staged", "pruning", "serving", "closing"}

DesktopTypeOK ==
    /\ day \in Days
    /\ data \in Nat /\ dayStart \in Nat
    /\ DOMAIN folder \subseteq Days /\ \A d \in DOMAIN folder : folder[d] \in Nat
    /\ phase \in DesktopPhases
    /\ write \in [target : Days, copy : Nat, doomed : SUBSET Days, then : {"serving", "off"}]
    /\ session \in [day : Days, failed : BOOLEAN]

DesktopInit ==
    /\ day = 1 /\ data = 0 /\ dayStart = 0
    /\ folder = [d \in {} |-> Torn]
    /\ phase = "off"
    /\ write = [target |-> 1, copy |-> 0, doomed |-> {}, then |-> "off"]
    /\ session = [day |-> 1, failed |-> FALSE]

\* Licensed and migrated; run() comes to the start-up backup.
Launch ==
    /\ phase = "off"
    /\ phase' = "starting"
    /\ session' = [day |-> day, failed |-> FALSE]
    /\ UNCHANGED <<day, data, folder, write, dayStart>>

-----------------------------------------------------------------------------
(* write_backup(), called at both ends.                                    *)

\* Faulty variant of Covered: any archive will do.
CoveredOnce == DOMAIN folder # {} /\ phase = "starting"

\* overwrite=False is the rule of the start, overwrite=True of the exit.
Covered == day \in DOMAIN folder /\ phase = "starting"
After == IF phase = "starting" THEN "serving" ELSE "off"

\* "A file already there means this day is covered", or no organization yet.
Skip ==
    /\ phase \in {"starting", "closing"}
    /\ Covered \/ data = 0
    /\ phase' = After
    /\ UNCHANGED <<day, data, folder, write, session, dayStart>>

\* The target is named and the database exported; nothing else writes to it.
Export ==
    /\ phase \in {"starting", "closing"} /\ data # 0
    /\ ~Covered
    /\ write' = [target |-> day, copy |-> data, doomed |-> {}, then |-> After]
    /\ phase' = "exported"
    /\ UNCHANGED <<day, data, folder, session, dayStart>>

With(d, content) == [e \in DOMAIN folder \cup {d} |-> IF e = d THEN content ELSE folder[e]]

\* Faulty variant of OpenStaging: the zip is written in place.
OpenTarget ==
    /\ phase = "exported"
    /\ phase' = "staging"
    /\ folder' = With(write.target, Torn)
    /\ UNCHANGED <<day, data, write, session, dayStart>>

\* ZipFile(".<date>.zip.part", "w") empties whatever a killed run left there;
\* no name of that form is a dated one.
OpenStaging ==
    /\ phase = "exported"
    /\ phase' = "staging"
    /\ UNCHANGED <<day, data, folder, write, session, dayStart>>

CloseStaging ==
    /\ phase = "staging"
    /\ phase' = "staged"
    /\ UNCHANGED <<day, data, folder, write, session, dayStart>>

\* Faulty variant of Doomed: the newest are removed.
DoomedNewest(days) ==
    {d \in days : Cardinality({e \in days : e < d}) >= Keep}

\* prune(): all but the Keep newest by name.
Doomed(days) ==
    {d \in days : Cardinality({e \in days : e > d}) >= Keep}

\* staging.replace(target), and the listing prune() works from
Rename ==
    /\ phase = "staged"
    /\ phase' = "pruning"
    /\ folder' = With(write.target, write.copy)
    /\ write' = [write EXCEPT !.doomed = Doomed(DOMAIN folder')]
    /\ UNCHANGED <<day, data, session, dayStart>>

\* One entry, oldest first; an unlink that fails is passed over.
Unlink ==
    \E d \in write.doomed :
        /\ phase = "pruning"
        /\ \A e \in write.doomed : d <= e
        /\ write' = [write EXCEPT !.doomed = @ \ {d}]
        /\ \/ folder' = [e \in DOMAIN folder \ {d} |-> folder[e]]
           \/ UNCHANGED folder
        /\ UNCHANGED <<day, data, phase, session, dayStart>>

Finish ==
    /\ phase = "pruning" /\ write.doomed = {}
    /\ phase' = write.then
    /\ UNCHANGED <<day, data, folder, write, session, dayStart>>

\* safe_backup(): whatever write_backup() raises, the app goes on.
BackupFails ==
    /\ \/ phase \in {"starting", "closing"} /\ ~Covered /\ phase' = After
       \/ phase \in {"exported", "staging", "staged"} /\ phase' = write.then
    /\ session' = [session EXCEPT !.failed = @ \/ phase' = "serving"]
    /\ UNCHANGED <<day, data, folder, write, dayStart>>

-----------------------------------------------------------------------------
Edit ==
    /\ phase = "serving" /\ data < MaxData
    /\ data' = data + 1
    /\ UNCHANGED <<day, folder, phase, write, session, dayStart>>

\* uvicorn returns.
Close ==
    /\ phase = "serving"
    /\ phase' = "closing"
    /\ UNCHANGED <<day, data, folder, write, session, dayStart>>

Kill ==
    /\ phase # "off"
    /\ phase' = "off"
    /\ UNCHANGED <<day, data, folder, write, session, dayStart>>

Midnight ==
    /\ day < MaxDay
    /\ day' = day + 1
    /\ dayStart' = data
    /\ UNCHANGED <<data, folder, phase, write, session>>

DesktopNext ==
    \/ Launch \/ Skip \/ Export \/ OpenStaging \/ CloseStaging \/ Rename \/ Unlink \/ Finish
    \/ BackupFails \/ Edit \/ Close \/ Kill \/ Midnight

DesktopSpec == DesktopInit /\ [][DesktopNext]_desktopVars

-----------------------------------------------------------------------------
\* "A crash mid-write must not leave a truncated zip where the rotation will
\* count it as one of the thirty good ones": and a later day's archive never
\* holds less than an earlier day's, which is what newest by name relies on.
NewestIsNewest ==
    \A d \in DOMAIN folder :
        /\ folder[d] # Torn
        /\ \A e \in DOMAIN folder : d <= e => folder[d] <= folder[e]

\* While the app serves on the day it was started, what the earlier days left
\* is in an archive, unless the backup of this very start failed; kills during
\* earlier starts, at any point of the writing, do not matter.
EarlierDaysSaved ==
    phase = "serving" /\ session.day = day /\ ~session.failed /\ dayStart # 0 =>
        \E d \in DOMAIN folder : folder[d] >= dayStart

\* The rotation gives up an archive only for Keep newer ones that are in the
\* folder, and nothing else makes one disappear.
RotationKeeps ==
    [][\A d \in DOMAIN folder \ DOMAIN folder' :
          Cardinality({e \in DOMAIN folder' : e > d}) >= Keep]_folder
=============================================================================
