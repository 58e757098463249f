--------------------------- MODULE TitleRefresh ---------------------------
(***************************************************************************)
(* The title service: RefreshService, with workers that ask an agent for   *)
(* the title of a page and save it.  A save is up to three operations of   *)
(* the database: find the current title, update it, and, if a known title  *)
(* has changed, append the change to the history.                          *)
(*                                                                         *)
(* A definition marked "Slip" is no part of the specification: it is a     *)
(* plausible mistake in the definition below it, that a property notices.  *)
(***************************************************************************)
EXTENDS RefreshService, Sequences

CONSTANTS
    Titles,     \* what a page can be called
    NoTitle     \* no check of the page has succeeded

ASSUME TitleAssumption == NoTitle \notin Titles

VARIABLES
    titles,     \* the current title of each domain
    changes,    \* the changes of each domain's title
    saving,     \* each worker's position in its save, and what it knows
    lost        \* ghost: changes that were counted, but not appended

titleVars == <<serviceVars, titles, changes, saving, lost>>

DomainTitle ==
    [exists : BOOLEAN, title : Titles \cup {NoTitle}, count : Nat, failed : BOOLEAN]
Unchecked == [exists |-> FALSE, title |-> NoTitle, count |-> 0, failed |-> FALSE]

Change == [old : Titles, new : Titles]

SavingType ==
    [pc : {"none", "check", "failure", "find", "write", "append", "saved", "unsaved"},
     title : Titles \cup {NoTitle}, seen : DomainTitle]
NotSaving == [pc |-> "none", title |-> NoTitle, seen |-> Unchecked]

TitleInit ==
    /\ ServiceInit
    /\ titles = [d \in Domains |-> Unchecked]
    /\ changes = [d \in Domains |-> <<>>]
    /\ saving = [x \in Pool |-> NotSaving]
    /\ lost = [d \in Domains |-> 0]

HandTitle(c, w) ==
    /\ Hand(c, w)
    /\ saving' = [saving EXCEPT ![<<c, w>>].pc = "check"]
    /\ UNCHANGED <<titles, changes, lost>>

\* An agent answers, or the check fails, for instance because the context is done.
CheckTitle(c, w) ==
    /\ saving[<<c, w>>].pc = "check"
    /\ \/ \E t \in Titles : saving' = [saving EXCEPT ![<<c, w>>].pc = "find", ![<<c, w>>].title = t]
       \/ saving' = [saving EXCEPT ![<<c, w>>].pc = "failure"]
    /\ UNCHANGED <<serviceVars, titles, changes, lost>>

\* SaveDomainTitleFailure, an upsert: the title stays as it is.
SaveDomainTitleFailure(c, w) ==
    LET d == worker[<<c, w>>].domain IN
    /\ saving[<<c, w>>].pc = "failure"
    /\ titles' = [titles EXCEPT ![d].exists = TRUE, ![d].failed = TRUE]
    /\ saving' = [saving EXCEPT ![<<c, w>>].pc = "unsaved"]
    /\ UNCHANGED <<serviceVars, changes, lost>>

\* SaveDomainTitle: find the title,
FindTitle(c, w) ==
    /\ saving[<<c, w>>].pc = "find"
    /\ saving' = [saving EXCEPT ![<<c, w>>].pc = "write",
                            ![<<c, w>>].seen = titles[worker[<<c, w>>].domain]]
    /\ UNCHANGED <<serviceVars, titles, changes, lost>>

Changed(s) == s.seen.title # NoTitle /\ s.seen.title # s.title

\* ... insert it when there was none,
InsertTitle(c, w) ==
    LET d == worker[<<c, w>>].domain
        s == saving[<<c, w>>]
    IN  /\ s.pc = "write" /\ ~s.seen.exists
        /\ IF titles[d].exists
           THEN saving' = [saving EXCEPT ![<<c, w>>].pc = "unsaved"] /\ UNCHANGED titles
           ELSE /\ titles' = [titles EXCEPT ![d] =
                                 [Unchecked EXCEPT !.exists = TRUE, !.title = s.title]]
                /\ saving' = [saving EXCEPT ![<<c, w>>].pc = "saved"]
        /\ UNCHANGED <<serviceVars, changes, lost>>

\* Slip: the count is written back from what was read, and not yet incremented.
UpdateTitleUncounted(c, w) ==
    LET d == worker[<<c, w>>].domain
        s == saving[<<c, w>>]
    IN  /\ s.pc = "write" /\ s.seen.exists
        /\ titles' = [titles EXCEPT ![d] =
              [exists |-> TRUE, title |-> s.title, count |-> s.seen.count, failed |-> FALSE]]
        /\ saving' = [saving EXCEPT ![<<c, w>>].pc = IF Changed(s) THEN "append" ELSE "saved"]
        /\ UNCHANGED <<serviceVars, changes, lost>>

\* ... or update it and count a change,
UpdateTitle(c, w) ==
    LET d == worker[<<c, w>>].domain
        s == saving[<<c, w>>]
    IN  /\ s.pc = "write" /\ s.seen.exists
        /\ titles' = [titles EXCEPT ![d] =
              [exists |-> TRUE, title |-> s.title, failed |-> FALSE,
               count |-> IF Changed(s) THEN @.count + 1 ELSE @.count]]
        /\ saving' = [saving EXCEPT ![<<c, w>>].pc = IF Changed(s) THEN "append" ELSE "saved"]
        /\ UNCHANGED <<serviceVars, changes, lost>>

\* ... and append the change to the history.
AppendChange(c, w) ==
    LET d == worker[<<c, w>>].domain
        s == saving[<<c, w>>]
    IN  /\ s.pc = "append"
        /\ changes' = [changes EXCEPT ![d] = Append(@, [old |-> s.seen.title, new |-> s.title])]
        /\ saving' = [saving EXCEPT ![<<c, w>>].pc = "saved"]
        /\ UNCHANGED <<serviceVars, titles, lost>>

\* Any of these operations fails; a change that is not appended is lost.
OperationFails(c, w) ==
    /\ saving[<<c, w>>].pc \in {"failure", "find", "write", "append"}
    /\ saving' = [saving EXCEPT ![<<c, w>>].pc = "unsaved"]
    /\ lost' = IF saving[<<c, w>>].pc = "append"
               THEN [lost EXCEPT ![worker[<<c, w>>].domain] = @ + 1] ELSE lost
    /\ UNCHANGED <<serviceVars, titles, changes>>

RecordTitle(c, w) ==
    /\ saving[<<c, w>>].pc \in {"saved", "unsaved"}
    /\ Record(c, w, saving[<<c, w>>].pc = "saved")
    /\ saving' = [saving EXCEPT ![<<c, w>>] = NotSaving]
    /\ UNCHANGED <<titles, changes, lost>>

Appending(d) == {x \in Pool : saving[x].pc = "append" /\ worker[x].domain = d}

\* What the database holds survives a restart.
RestartTitles ==
    /\ RestartService
    /\ saving' = [x \in Pool |-> NotSaving]
    /\ lost' = [d \in Domains |-> lost[d] + Cardinality(Appending(d))]
    /\ UNCHANGED <<titles, changes>>

\* The steps that RefreshService describes in full.
TitleServiceStep ==
    /\ \/ \E c \in Callers :
            \/ RefreshAsync(c) \/ ResetProgress(c) \/ List(c) \/ CloseJobs(c)
            \/ Wait(c) \/ FinishProgress(c) \/ Release(c)
            \/ \E w \in Workers : Return(c, w)
       \/ Cancel
    /\ UNCHANGED <<titles, changes, saving, lost>>

TitleWorkerStep(c, w) ==
    \/ HandTitle(c, w) \/ CheckTitle(c, w) \/ SaveDomainTitleFailure(c, w) \/ FindTitle(c, w)
    \/ InsertTitle(c, w) \/ UpdateTitle(c, w) \/ AppendChange(c, w)
    \/ OperationFails(c, w) \/ RecordTitle(c, w)

TitleNext ==
    \/ TitleServiceStep
    \/ \E c \in Callers, w \in Workers : TitleWorkerStep(c, w)
    \/ RestartTitles

TitleSpec == TitleInit /\ [][TitleNext]_titleVars

(***************************************************************************)
(* Properties                                                              *)
(***************************************************************************)
TitleTypeOK ==
    /\ ServiceTypeOK
    /\ titles \in [Domains -> DomainTitle]
    /\ \A d \in Domains : changes[d] \in Seq(Change)
    /\ saving \in [Pool -> SavingType]
    /\ lost \in [Domains -> Nat]

\* What a save has read is still so when it writes: it decides on no stale title,
\* although finding and writing are two operations and callers are many.
ReadIsCurrent ==
    \A x \in Pool : saving[x].pc = "write" => saving[x].seen = titles[worker[x].domain]

\* The history is what the counter and the current title say of it.  change_count is
\* the number of its entries, ahead only by those about to be appended or whose
\* insertion has failed; and, unless one was lost, they are the chain of the titles
\* the domain has had, up to its current one, none of them a change to the same title.
HistoryIsTheChange ==
    \A d \in Domains :
        LET h == changes[d] IN
        /\ titles[d].count = Len(h) + Cardinality(Appending(d)) + lost[d]
        /\ \A i \in 1..Len(h) : h[i].old # h[i].new
        /\ lost[d] = 0 =>
              /\ \A i \in 2..Len(h) : h[i].old = h[i-1].new
              /\ h # <<>> /\ Appending(d) = {} => h[Len(h)].new = titles[d].title
=============================================================================
