------------------------ MODULE CertificateRefresh ------------------------
(***************************************************************************)
(* The certificate service: RefreshService, whose goroutine first makes    *)
(* the certificate_active flags agree with the domains file, in several    *)
(* operations, and cleans the polling history when its workers are done.   *)
(* A save appends to the history and then replaces the latest state.       *)
(*                                                                         *)
(* A definition marked "Slip" is no part of the specification: it is a     *)
(* plausible mistake in the definition below it, that a property notices.  *)
(***************************************************************************)
EXTENDS RefreshService

CONSTANTS
    RetentionDays,
    MaxDay          \* bound on the calendar

ASSUME CertificateAssumption == RetentionDays \in Nat \ {0} /\ MaxDay \in Nat \ {0}

VARIABLES
    today,
    active,     \* the domains whose certificate_active flag is set
    history,    \* domain_certificate_history
    latest,     \* domain_certificates: the latest state of each domain
    task,       \* what the goroutine of each refresh is about to do, and what it knows
    save,       \* each worker's position in its save, and its result
    stale       \* ghost: entries of the history that did not become the latest state

certVars == <<today, active, history, latest, task, save, stale>>
certRefreshVars == <<serviceVars, certVars>>

\* One result of polling; run tells the refreshes apart.
Check   == [domain : Domains, day : Nat, ok : BOOLEAN, run : 1..MaxRuns]
NoCheck == [domain |-> NoDomain, day |-> 0, ok |-> FALSE, run |-> 0]

\* before: the day whose cutoff the cleanup uses; newest: the newest successes it found.
TaskType ==
    [pc : {"none", "clear", "set", "list", "failures", "find", "successes", "cleaned"},
     domains : SUBSET Domains, before : Nat, newest : [Domains -> Nat]]
NoTask == [pc |-> "none", domains |-> {}, before |-> 0, newest |-> [d \in Domains |-> 0]]

SaveType == [pc : {"none", "check", "append", "replace", "saved", "unsaved"},
             check : Check \cup {NoCheck}]
NoSave   == [pc |-> "none", check |-> NoCheck]

CertInit ==
    /\ ServiceInit
    /\ today = 1
    /\ active = {}
    /\ history = {}
    /\ latest = [d \in Domains |-> NoCheck]
    /\ task = [c \in Callers |-> NoTask]
    /\ save = [x \in Pool |-> NoSave]
    /\ stale = {}

(***************************************************************************)
(* The domains file                                                        *)
(***************************************************************************)
\* An operator edits the file at will; it is never empty.
LoadFile(c) ==
    /\ run[c].pc = "list" /\ task[c].pc = "none"
    /\ \E domains \in SUBSET Domains \ {{}} :
          task' = [task EXCEPT ![c].pc = "clear", ![c].domains = domains]
    /\ UNCHANGED <<serviceVars, today, active, history, latest, save, stale>>

\* Slip: the flags of domains that have left the file are never cleared.
ClearFlagsNever(c) ==
    /\ task[c].pc = "clear"
    /\ task' = [task EXCEPT ![c].pc = "set"]
    /\ UNCHANGED <<serviceVars, today, active, history, latest, save, stale>>

\* SyncCertificateDomains: clear all flags, and then
ClearFlags(c) ==
    /\ task[c].pc = "clear"
    /\ active' = {}
    /\ task' = [task EXCEPT ![c].pc = "set"]
    /\ UNCHANGED <<serviceVars, today, history, latest, save, stale>>

\* ... set those of the domains in the file, one by one.
SetFlag(c) ==
    /\ task[c].pc = "set"
    /\ \E d \in task[c].domains :
        /\ active' = active \cup {d}
        /\ task' = [task EXCEPT ![c].pc =
                        IF task[c].domains \subseteq active' THEN "list" ELSE "set"]
    /\ UNCHANGED <<serviceVars, today, history, latest, save, stale>>

ListCertificateDomains(c) ==
    /\ task[c].pc = "list"
    /\ Listed(c, active)
    /\ task' = [task EXCEPT ![c] = NoTask]
    /\ UNCHANGED <<today, active, history, latest, save, stale>>

\* Loading, synchronizing or listing fails: the refresh ends.
SyncFails(c) ==
    /\ ListingFails(c)
    /\ task' = [task EXCEPT ![c] = NoTask]
    /\ UNCHANGED <<today, active, history, latest, save, stale>>

(***************************************************************************)
(* The workers                                                             *)
(***************************************************************************)
HandCertificate(c, w) ==
    /\ Hand(c, w)
    /\ save' = [save EXCEPT ![<<c, w>>].pc = "check"]
    /\ UNCHANGED <<today, active, history, latest, task, stale>>

\* Whether the check succeeds or fails, it is dated and saved.
CheckCertificate(c, w) ==
    /\ save[<<c, w>>].pc = "check"
    /\ \E ok \in BOOLEAN : save' = [save EXCEPT ![<<c, w>>] =
          [pc |-> "append", check |-> [domain |-> worker[<<c, w>>].domain, day |-> today,
                                       ok |-> ok, run |-> used.runs]]]
    /\ UNCHANGED <<serviceVars, today, active, history, latest, task, stale>>

\* Slip: the error of the insertion is dropped.
AppendHistoryUnchecked(c, w) ==
    /\ save[<<c, w>>].pc = "append"
    /\ history' \in {history, history \cup {save[<<c, w>>].check}}
    /\ save' = [save EXCEPT ![<<c, w>>].pc = "replace"]
    /\ UNCHANGED <<serviceVars, today, active, latest, task, stale>>

\* SaveCertificate: append to the history,
AppendHistory(c, w) ==
    /\ save[<<c, w>>].pc = "append"
    /\ history' = history \cup {save[<<c, w>>].check}
    /\ save' = [save EXCEPT ![<<c, w>>].pc = "replace"]
    /\ UNCHANGED <<serviceVars, today, active, latest, task, stale>>

\* ... and replace the latest state.
ReplaceLatest(c, w) ==
    LET new == save[<<c, w>>].check IN
    /\ save[<<c, w>>].pc = "replace"
    /\ latest' = [latest EXCEPT ![new.domain] = new]
    /\ save' = [save EXCEPT ![<<c, w>>].pc = "saved"]
    /\ UNCHANGED <<serviceVars, today, active, history, task, stale>>

SaveFails(c, w) ==
    /\ save[<<c, w>>].pc \in {"append", "replace"}
    /\ save' = [save EXCEPT ![<<c, w>>].pc = "unsaved"]
    /\ stale' = IF save[<<c, w>>].pc = "replace" THEN stale \cup {save[<<c, w>>].check} ELSE stale
    /\ UNCHANGED <<serviceVars, today, active, history, latest, task>>

\* A success is a check that succeeded and was saved.
RecordCertificate(c, w) ==
    /\ save[<<c, w>>].pc \in {"saved", "unsaved"}
    /\ Record(c, w, save[<<c, w>>].pc = "saved" /\ save[<<c, w>>].check.ok)
    /\ save' = [save EXCEPT ![<<c, w>>] = NoSave]
    /\ UNCHANGED <<today, active, history, latest, task, stale>>

(***************************************************************************)
(* CleanupCertificateHistory, when the workers have returned               *)
(***************************************************************************)
\* Day d is before the cutoff RetentionDays before day n.
Expired(d, n) == d + RetentionDays < n

Successes(d) == {h \in history : h.domain = d /\ h.ok}

\* The latest day of a success of d; 0 stands for none.
NewestSuccess(d) ==
    IF Successes(d) = {} THEN 0
    ELSE CHOOSE n \in {h.day : h \in Successes(d)} : \A h \in Successes(d) : h.day <= n

StartCleanup(c) ==
    /\ run[c].pc = "waiting" /\ task[c].pc = "none"
    /\ \A w \in Workers : worker[<<c, w>>].pc = "none"
    /\ task' = [task EXCEPT ![c].pc = "failures", ![c].before = today]
    /\ UNCHANGED <<serviceVars, today, active, history, latest, save, stale>>

\* Slip: the failures of domains that have left the file stay for ever.
DeleteFailuresOfActive(c) ==
    /\ task[c].pc = "failures"
    /\ history' = {h \in history :
          h.ok \/ ~Expired(h.day, task[c].before) \/ h.domain \notin active}
    /\ task' = [task EXCEPT ![c].pc = "find"]
    /\ UNCHANGED <<serviceVars, today, active, latest, save, stale>>

DeleteFailures(c) ==
    /\ task[c].pc = "failures"
    /\ history' = {h \in history : h.ok \/ ~Expired(h.day, task[c].before)}
    /\ task' = [task EXCEPT ![c].pc = "find"]
    /\ UNCHANGED <<serviceVars, today, active, latest, save, stale>>

FindNewest(c) ==
    /\ task[c].pc = "find"
    /\ task' = [task EXCEPT ![c].pc = "successes",
                            ![c].domains = {d \in Domains : Successes(d) # {}},
                            ![c].newest = [d \in Domains |-> NewestSuccess(d)]]
    /\ UNCHANGED <<serviceVars, today, active, history, latest, save, stale>>

\* Slip: successes are dropped by today's date alone, like failures.
KeptUntilTodayOnly(c, d) == task[c].before

\* certificateSuccessRetentionCutoff: a domain's successes are kept for the retention
\* period before today or before its newest success, whichever is earlier.
KeptUntil(c, d) ==
    IF task[c].newest[d] < task[c].before THEN task[c].newest[d] ELSE task[c].before

\* The unordered bulk write deletes the successes of one domain after the other.
DeleteSuccesses(c) ==
    /\ task[c].pc = "successes"
    /\ \/ \E d \in task[c].domains :
            /\ history' = history \ {h \in Successes(d) : Expired(h.day, KeptUntil(c, d))}
            /\ task' = [task EXCEPT ![c].domains = @ \ {d}]
       \/ /\ task[c].domains = {}
          /\ task' = [task EXCEPT ![c].pc = "cleaned"]
          /\ UNCHANGED history
    /\ UNCHANGED <<serviceVars, today, active, latest, save, stale>>

\* Done, or given up half way.
EndCleanup(c) ==
    /\ task[c].pc \in {"failures", "find", "successes", "cleaned"}
    /\ Wait(c)
    /\ task' = [task EXCEPT ![c] = NoTask]
    /\ UNCHANGED <<today, active, history, latest, save, stale>>

(***************************************************************************)
(* The rest                                                                *)
(***************************************************************************)
NewDay ==
    /\ today < MaxDay
    /\ today' = today + 1
    /\ UNCHANGED <<serviceVars, active, history, latest, task, save, stale>>

RestartCerts ==
    /\ RestartService
    /\ task' = [c \in Callers |-> NoTask]
    /\ save' = [x \in Pool |-> NoSave]
    /\ stale' = stale \cup {save[x].check : x \in {y \in Pool : save[y].pc = "replace"}}
    /\ UNCHANGED <<today, active, history, latest>>

CertServiceStep ==
    /\ \/ \E c \in Callers :
            \/ RefreshAsync(c) \/ ResetProgress(c) \/ CloseJobs(c)
            \/ FinishProgress(c) \/ Release(c) \/ \E w \in Workers : Return(c, w)
       \/ Cancel
    /\ UNCHANGED certVars

CertGoroutineStep(c) ==
    \/ LoadFile(c) \/ ClearFlags(c) \/ SetFlag(c) \/ ListCertificateDomains(c) \/ SyncFails(c)
    \/ StartCleanup(c) \/ DeleteFailures(c) \/ FindNewest(c) \/ DeleteSuccesses(c) \/ EndCleanup(c)

CertWorkerStep(c, w) ==
    \/ HandCertificate(c, w) \/ CheckCertificate(c, w) \/ AppendHistory(c, w)
    \/ ReplaceLatest(c, w) \/ SaveFails(c, w) \/ RecordCertificate(c, w)

CertNext ==
    \/ CertServiceStep
    \/ \E c \in Callers : CertGoroutineStep(c) \/ \E w \in Workers : CertWorkerStep(c, w)
    \/ NewDay \/ RestartCerts

CertSpec == CertInit /\ [][CertNext]_certRefreshVars

(***************************************************************************)
(* Properties                                                              *)
(***************************************************************************)
CertTypeOK ==
    /\ ServiceTypeOK
    /\ today \in 1..MaxDay
    /\ active \in SUBSET Domains
    /\ history \in SUBSET Check
    /\ latest \in [Domains -> Check \cup {NoCheck}]
    /\ task \in [Callers -> TaskType]
    /\ save \in [Pool -> SaveType]
    /\ stale \in SUBSET Check

\* When a refresh lists its domains they are those of the file it has loaded, no more
\* and no fewer, although other callers would synchronize the flags as well.
ListIsTheFile == \A c \in Callers : task[c].pc = "list" => active = task[c].domains

\* The dashboard's latest state is as new as every entry of the history, but for the one
\* being saved and those whose replacement has failed.
LatestIsNewest ==
    \A h \in history : \/ h.run <= latest[h.domain].run
                       \/ h \in stale
                       \/ \E x \in Pool : save[x].pc = "replace" /\ save[x].check = h

\* And what it shows has been appended before: it is in the history for as long as the
\* retention period by today's date keeps it there, whichever operation of a save fails.
LatestIsInHistory ==
    \A d \in Domains :
        \/ latest[d] = NoCheck \/ latest[d] \in history
        \/ Expired(latest[d].day, today)

\* The two collections that a save writes agree, in both directions, although it writes one
\* after the other, and either write may fail or the process end between them.
LatestIsCurrent == LatestIsNewest /\ LatestIsInHistory

\* What the cleanup of a refresh leaves, if it comes to its end: no failure, and no
\* success, that is out of its retention period.
OldChecksAreGone ==
    \A c \in Callers : task[c].pc = "cleaned" =>
        \A h \in history : Expired(h.day, task[c].before) =>
            h.ok /\ ~Expired(h.day, task[c].newest[h.domain])

\* A step deletes only what is older than the retention period by today's date, and
\* of a domain's successes only what is older by its newest success, so that one week
\* of known-good data survives any outage, and the newest success always does.
RecentChecksAreKept ==
    [][\A h \in history \ history' :
          /\ Expired(h.day, today)
          /\ h.ok => Expired(h.day, NewestSuccess(h.domain))]_certRefreshVars

=============================================================================
