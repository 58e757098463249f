------------------------------ MODULE Notifier ------------------------------
(***************************************************************************)
(* The daemon that reports weight changes.  Once a day it asks the API for *)
(* two days of every active domain, concurrently, compares them, puts the  *)
(* changes on pages of limited size, and posts every page to every webhook *)
(* with one retry.  It keeps nothing on disk: a crash or a stop loses what *)
(* it was doing.                                                           *)
(*                                                                         *)
(* A definition marked "Slip" is no part of the specification: it is a     *)
(* plausible mistake in the definition below it, that a property notices.  *)
(***************************************************************************)
EXTENDS Integers, Sequences, FiniteSets

CONSTANTS
    N,              \* the active domains are 1..N, in the order of their names
    Fields,         \* the weight fields are 1..Fields
    BaiduFields,    \* those that a verified result must have
    NoWeight,       \* the source returned no value
    Snapshots,      \* what the API may say of a day, NoSnapshot included
    NoSnapshot,
    Urls,           \* the webhooks are 1..Urls
    Limits,         \* page sizes that may be configured
    Day,            \* scheduled times are the multiples of Day on the wall clock
    ClockChanges,   \* pairs: the wall clock may be set from the first to the second
    MaxTime,        \* bound on the clock
    MaxSetbacks,    \* bound on changes that put the clock back
    MaxRestarts     \* bound on crashes and stops

\* A page has room for its first line, a label and the longest line; a line about
\* domain d takes d units, every other line one.  Who marks weights as valid names the
\* source.  The clock begins between two scheduled times.
ASSUME NotifierAssumption ==
    /\ {N, Fields, Urls, Day} \subseteq Nat \ {0} /\ Day > 1
    /\ BaiduFields \subseteq 1..Fields
    /\ \A l \in Limits : l \in Nat /\ N + 2 <= l
    /\ NoSnapshot \in Snapshots
    /\ \A s \in Snapshots \ {NoSnapshot} :
          /\ s \in [source : {"", "aizhan", "chinaz"}, valid : BOOLEAN,
                    weights : [1..Fields -> Int \cup {NoWeight}]]
          /\ s.valid => s.source # ""
    /\ ClockChanges \subseteq Nat \X Nat
    /\ MaxTime \in Nat /\ MaxSetbacks \in Nat /\ MaxRestarts \in Nat

VARIABLES
    config,     \* limit, enabled, onStart: read from the environment once
    clock,      \* the wall clock of the configured zone
    daemon,     \* its position, the day of its next run, what is left of the wait for
                \* it, whether it is to stop (and the setbacks when the wait was set)
    fetched,    \* of each domain: "pending", "failed", or the two days it was told
    messages,   \* the pages of this run
    delivery,   \* where the run is in sending them
    verdict,    \* what the last run_check returned
    \* --- bookkeeping of the model
    reported,   \* history: of each scheduled run its day, and daemon.setbacks
    missed,     \* history: unreported days that came while the daemon did not wait for them
    setbacks,   \* how often the wall clock was put back
    restarts

\* What a step of the daemon leaves alone.
outside == <<config, clock, setbacks>>

vars == <<config, clock, daemon, fetched, messages, delivery, verdict, reported, missed,
          setbacks, restarts>>

Domain == 1..N
Field  == 1..Fields
Target == 1..Urls

(***************************************************************************)
(* Comparison                                                              *)
(***************************************************************************)
NoChange == [domain |-> 0, field |-> 0, delta |-> 0]

\* comparable_source: only verified daily weights take part.
ComparableSource(s) ==
    IF /\ s # NoSnapshot
       /\ s.source \in {"aizhan", "chinaz"} /\ s.valid
       /\ \A f \in BaiduFields : s.weights[f] # NoWeight
    THEN s.source ELSE ""

ComparableSnapshots(previous, current) ==
    /\ ComparableSource(current) # ""
    /\ ComparableSource(current) = ComparableSource(previous)

\* A weight that is missing is not 0.
ChangesForDomain(d, previous, current) ==
    IF ~ComparableSnapshots(previous, current) THEN {}
    ELSE {[domain |-> d, field |-> f, delta |-> current.weights[f] - previous.weights[f]] :
              f \in {g \in Field : /\ NoWeight \notin {previous.weights[g], current.weights[g]}
                                   /\ previous.weights[g] # current.weights[g]}}

Answered(d) == fetched[d] \notin {<<"pending">>, <<"failed">>}
Changes ==
    UNION {ChangesForDomain(d, fetched[d][1], fetched[d][2]) : d \in {e \in Domain : Answered(e)}}
NoneFailed == \A d \in Domain : fetched[d] # <<"failed">>

(***************************************************************************)
(* Pages                                                                   *)
(***************************************************************************)
Abs(n) == IF n < 0 THEN -n ELSE n

\* sort_changes: the largest span first, then by name, then by field.
Before(a, b) ==
    \/ Abs(a.delta) > Abs(b.delta)
    \/ Abs(a.delta) = Abs(b.delta) /\ a.domain < b.domain
    \/ Abs(a.delta) = Abs(b.delta) /\ a.domain = b.domain /\ a.field < b.field

Entry(kind, up, change) == [kind |-> kind, up |-> up, change |-> change]
Total     == Entry("total", TRUE, NoChange)
Separator == Entry("separator", TRUE, NoChange)
Label(up) == Entry("label", up, NoChange)
Line(c)   == Entry("line", c.delta > 0, c)

Width(e) == IF e.kind = "line" THEN e.change.domain ELSE 1
Size(page) ==
    LET Until[i \in 0..Len(page)] == IF i = 0 THEN 0 ELSE Until[i - 1] + Width(page[i])
    IN  Until[Len(page)]

\* The changes from the first to the last: no two of them tie.
Sorted(changes) ==
    CHOOSE s \in [1..Cardinality(changes) -> changes] :
        \A i, j \in DOMAIN s : i < j => Before(s[i], s[j])

\* Of one section; lead: what precedes its first line.
Section(changes, lead) ==
    [i \in 1..Cardinality(changes) |->
        [change |-> Sorted(changes)[i], lead |-> IF i = 1 THEN lead ELSE <<>>]]

Items(changes) ==
    LET increases == {c \in changes : c.delta > 0}
        decreases == {c \in changes : c.delta < 0}
    IN  Section(increases, <<Label(TRUE)>>)
        \o Section(decreases, IF increases = {} THEN <<Label(FALSE)>>
                                               ELSE <<Separator, Label(FALSE)>>)

Flushed(book) == IF Len(book.current) > 1 THEN Append(book.pages, book.current) ELSE book.pages

\* Slip: a page that is full is followed by one without a label.
NextPageUnlabelled(book, line) == [pages |-> Flushed(book), current |-> <<Total, line>>]

\* A page that is full is followed by one that repeats the label.
NextPage(book, line) == [pages |-> Flushed(book), current |-> <<Total, Label(line.up), line>>]

\* Slip: the change for which there was no room is forgotten.
AddItemOrNot(limit, book, item) ==
    LET line  == Line(item.change)
        whole == book.current \o item.lead \o <<line>>
    IN  IF Size(whole) <= limit THEN [book EXCEPT !.current = whole]
        ELSE [pages |-> Flushed(book), current |-> <<Total, Label(line.up)>>]

\* One change goes on the current page if there is room for it and for its lead.
AddItem(limit, book, item) ==
    LET line  == Line(item.change)
        whole == book.current \o item.lead \o <<line>>
    IN  IF Size(whole) <= limit THEN [book EXCEPT !.current = whole] ELSE NextPage(book, line)

\* The pages after each number of items.
Books(limit, items) ==
    LET Book[n \in 0..Len(items)] ==
            IF n = 0 THEN [pages |-> <<>>, current |-> <<Total>>]
            ELSE AddItem(limit, Book[n - 1], items[n])
    IN  Book

BuildMessages(limit, changes) ==
    Flushed(Books(limit, Items(changes))[Len(Items(changes))])

(***************************************************************************)
(* The daemon                                                              *)
(***************************************************************************)
Pending == [d \in Domain |-> <<"pending">>]
NoDelivery == [message |-> 0, url |-> 0, attempt |-> 0, sent |-> TRUE,
               heard |-> FALSE, unheard |-> FALSE, tried |-> 0]

\* Slip: a time that is just now is still to come.
NextRunNow(now) == (now + Day - 1) \div Day

\* next_run: the first scheduled time after now; of the k-th day it is k * Day.
NextRun(now) == now \div Day + 1

\* The wait: a difference of two readings of the wall clock, whatever may become of it.
Delay == NextRun(clock) * Day - clock

\* The daemon as its process begins.
Begun ==
    [pc |-> IF config.onStart THEN "listing" ELSE "waiting", next |-> NextRun(clock),
     timer |-> Delay, setbacks |-> setbacks, stopped |-> FALSE]

Init ==
    /\ config \in [limit : Limits, enabled : BOOLEAN, onStart : BOOLEAN]
    /\ clock = 1 /\ setbacks = 0
    /\ daemon = Begun
    /\ fetched = Pending
    /\ messages = <<>>
    /\ delivery = NoDelivery
    /\ verdict = "none"
    /\ reported = <<>>
    /\ missed = {}
    /\ restarts = 0

Waiting(k)  == daemon.pc = "waiting" /\ daemon.next = k
Reported(k) == \E i \in DOMAIN reported : reported[i].day = k

\* The clock has another reading, and days may have come of which nobody takes notice.
ClockReads(now) ==
    /\ clock' = now
    /\ missed' = missed \cup
          {k \in 1..(now \div Day) : clock < k * Day /\ ~Waiting(k) /\ ~Reported(k)}
    /\ UNCHANGED <<config, fetched, messages, delivery, verdict, reported, restarts>>

\* Time passes at any moment: requests take long, and timers may be late.
Tick ==
    /\ clock < MaxTime
    /\ ClockReads(clock + 1)
    /\ daemon' = [daemon EXCEPT !.timer = IF @ > 0 THEN @ - 1 ELSE 0]
    /\ UNCHANGED setbacks

\* The wall clock is set, by the rules of its zone or by hand.  A wait does not notice.
ChangeClock ==
    \E c \in ClockChanges :
        /\ clock = c[1]
        /\ c[2] < c[1] => setbacks < MaxSetbacks
        /\ ClockReads(c[2])
        /\ setbacks' = setbacks + (IF c[2] < c[1] THEN 1 ELSE 0)
        /\ UNCHANGED daemon

\* The wait is over, and run_check begins for the day it was set for, whatever the
\* clock says by now.
Fire ==
    /\ daemon.pc = "waiting" /\ ~daemon.stopped
    /\ daemon.timer = 0
    /\ daemon' = [daemon EXCEPT !.pc = "listing"]
    /\ reported' = Append(reported, [day |-> daemon.next, setbacks |-> daemon.setbacks])
    /\ fetched' = Pending
    /\ messages' = <<>> /\ delivery' = NoDelivery /\ verdict' = "none"
    /\ UNCHANGED <<outside, missed, restarts>>

\* run_check returns or raises; the loop looks at the clock again.
Finish(v) ==
    /\ verdict' = v
    /\ daemon' = [daemon EXCEPT !.pc = "waiting", !.next = NextRun(clock), !.timer = Delay,
                               !.setbacks = setbacks]

\* list_active_domains; its error ends the run.
ListActiveDomains ==
    /\ daemon.pc = "listing"
    /\ \/ daemon' = [daemon EXCEPT !.pc = "comparing"] /\ UNCHANGED verdict
       \/ Finish("failed")
    /\ UNCHANGED <<outside, fetched, messages, delivery, reported, missed, restarts>>

\* fetch_one in a thread of the pool: the answers come in any order.
FetchOne(d) ==
    /\ daemon.pc = "comparing"
    /\ fetched[d] = <<"pending">>
    /\ \E answer \in (Snapshots \X Snapshots) \cup {<<"failed">>} :
          fetched' = [fetched EXCEPT ![d] = answer]
    /\ UNCHANGED <<outside, daemon, messages, delivery, verdict, reported, missed, restarts>>

\* All futures are done: without a change there is nothing to send, and without
\* the switch nothing is sent.
Compare ==
    /\ daemon.pc = "comparing"
    /\ \A d \in Domain : fetched[d] # <<"pending">>
    /\ messages' = BuildMessages(config.limit, Changes)
    /\ IF Changes # {} /\ config.enabled
       THEN /\ daemon' = [daemon EXCEPT !.pc = "sending"]
            /\ delivery' = [NoDelivery EXCEPT !.message = 1, !.url = 1, !.attempt = 1]
            /\ UNCHANGED verdict
       ELSE /\ Finish(IF Changes = {} /\ NoneFailed THEN "ok" ELSE "failed")
            /\ UNCHANGED delivery
    /\ UNCHANGED <<outside, fetched, reported, missed, restarts>>

\* Slip: a message that could not be delivered is forgotten after the next one.
AndSentLast(sent, ok) == ok

\* Every chunk is attempted even if an earlier one failed, and one failure counts.
AndSent(sent, ok) == sent /\ ok

\* post_webhook_once: ok, refused, or an answer that is lost on its way back.  After
\* a retry its result is reported to another address, which changes nothing here.
PostWebhookOnce ==
    /\ daemon.pc = "sending"
    /\ \E o \in {"ok", "lost", "failed"} :
        LET heard  == delivery.heard \/ o # "failed"
            again  == o # "ok" /\ delivery.attempt = 1
            last   == delivery.url = Urls /\ delivery.message = Len(messages)
            sent   == AndSent(delivery.sent, o = "ok")
            tried  == delivery.tried + (IF delivery.attempt = 1 THEN 1 ELSE 0)
            unheard == delivery.unheard \/ ~heard
        IN  /\ delivery' =
                 IF again THEN [delivery EXCEPT !.attempt = 2, !.heard = heard, !.tried = tried]
                 ELSE [message |-> delivery.message + (IF delivery.url = Urls THEN 1 ELSE 0),
                       url     |-> IF delivery.url = Urls THEN 1 ELSE delivery.url + 1,
                       attempt |-> 1, sent |-> sent,
                       heard |-> FALSE, unheard |-> unheard, tried |-> tried]
            /\ IF ~again /\ last THEN Finish(IF sent /\ NoneFailed THEN "ok" ELSE "failed")
                                 ELSE UNCHANGED <<daemon, verdict>>
    /\ UNCHANGED <<outside, fetched, messages, reported, missed, restarts>>

\* SIGTERM or SIGINT: a run under way is finished first.
Stop ==
    /\ daemon.pc # "down" /\ ~daemon.stopped
    /\ restarts < MaxRestarts /\ restarts' = restarts + 1
    /\ daemon' = [daemon EXCEPT !.stopped = TRUE]
    /\ UNCHANGED <<outside, fetched, messages, delivery, verdict, reported, missed>>

GoDown ==
    /\ missed' = missed \cup
          {k \in {daemon.next} : daemon.pc = "waiting" /\ k * Day <= clock /\ ~Reported(k)}
    /\ daemon' = [daemon EXCEPT !.pc = "down"]
    /\ fetched' = Pending /\ messages' = <<>> /\ delivery' = NoDelivery /\ verdict' = "none"
    /\ UNCHANGED <<outside, reported>>

Exit == daemon.pc = "waiting" /\ daemon.stopped /\ GoDown /\ UNCHANGED restarts

Crash ==
    /\ daemon.pc # "down"
    /\ restarts < MaxRestarts /\ restarts' = restarts + 1
    /\ GoDown

Boot ==
    /\ daemon.pc = "down"
    /\ daemon' = Begun
    /\ UNCHANGED <<outside, fetched, messages, delivery, verdict, reported, missed, restarts>>

Next ==
    \/ Tick \/ ChangeClock \/ Fire \/ ListActiveDomains \/ Compare \/ PostWebhookOnce
    \/ \E d \in Domain : FetchOne(d)
    \/ Stop \/ Exit \/ Crash \/ Boot

Spec == Init /\ [][Next]_vars

(***************************************************************************)
(* Properties                                                              *)
(***************************************************************************)
\* Where the lines are: the page and the position on it, from the first to the last.
Places(pages) ==
    UNION {{p} \X {i \in DOMAIN pages[p] : pages[p][i].kind = "line"} : p \in DOMAIN pages}
ChangeAt(pages, x) == pages[x[1]][x[2]].change
Precedes(x, y) == x[1] < y[1] \/ (x[1] = y[1] /\ x[2] < y[2])

\* Rising before falling, and the largest span first.
Ranked(a, b) ==
    \/ a.delta > 0 /\ b.delta < 0
    \/ a.delta > 0 /\ b.delta > 0 /\ a.delta >= b.delta
    \/ a.delta < 0 /\ b.delta < 0 /\ a.delta <= b.delta

\* A weight that one source verified on both days, and that has changed.
Verified(s) == s # NoSnapshot /\ s.valid /\ \A f \in BaiduFields : s.weights[f] # NoWeight
IsChange(d, f) ==
    /\ Answered(d)
    /\ LET old == fetched[d][1]
           new == fetched[d][2]
       IN  /\ Verified(old) /\ Verified(new) /\ old.source = new.source
           /\ NoWeight \notin {old.weights[f], new.weights[f]}
           /\ old.weights[f] # new.weights[f]
ChangeOf(d, f) ==
    [domain |-> d, field |-> f, delta |-> fetched[d][2].weights[f] - fetched[d][1].weights[f]]

\* The pages together say every change of one source between two verified results,
\* once, and in order, and nothing else, in whatever order the threads were done and
\* wherever the pages break.
EveryChangeIsReported ==
    daemon.pc = "sending" =>
        /\ {ChangeAt(messages, x) : x \in Places(messages)} =
              UNION {{ChangeOf(d, f) : f \in {g \in Field : IsChange(d, g)}} : d \in Domain}
        /\ \A x, y \in Places(messages) : Precedes(x, y) =>
              /\ Ranked(ChangeAt(messages, x), ChangeAt(messages, y))
              /\ ChangeAt(messages, x) # ChangeAt(messages, y)

\* Each page can be read by itself: it has a change, keeps the limit, and the label
\* above a change, if not right above it then with no other label between, is its own.
PagesAreReadable ==
    \A p \in DOMAIN messages :
        LET page == messages[p] IN
        /\ Size(page) <= config.limit
        /\ \E i \in DOMAIN page : page[i].kind = "line"
        /\ \A i \in DOMAIN page : page[i].kind = "line" =>
              \E k \in 1..(i - 1) :
                  /\ page[k] = Label(page[i].change.delta > 0)
                  /\ \A j \in (k + 1)..(i - 1) : page[j].kind = "line"

\* A run that calls itself a success has asked every domain and brought every page to
\* every webhook.  One that does not has tried each of them all the same, if it came so
\* far as to send: without the switch, or the list of domains, nothing is sent.
SuccessMeansDelivered ==
    /\ verdict = "ok" =>
          /\ \A d \in Domain : Answered(d)
          /\ Changes # {} => messages # <<>> /\ ~delivery.unheard
    /\ verdict # "none" /\ delivery # NoDelivery => delivery.tried = Len(messages) * Urls

\* Of two scheduled runs the later one is for a later day, unless the clock was put back
\* after the wait for the first had been set and before that for the second was: only then
\* is a day reported again.  And no day is left out but for a reason, whatever the clock
\* does: when its time came the daemon was at work, or down, or waiting for another day.
\* What is reported without a setback was not missed before.
EveryDayIsAccountedFor ==
    /\ \A i, j \in DOMAIN reported : i < j =>
          reported[i].day < reported[j].day \/ reported[i].setbacks < reported[j].setbacks
    /\ \A k \in 1..(clock \div Day) : k \in missed \/ Reported(k) \/ Waiting(k)
    /\ \A i \in DOMAIN reported : reported[i].day \in missed => reported[i].setbacks > 0

\* A day is reported once: so a daily notification suggests, and so it is where the clock
\* is never put back.  Where it is, a wait may end before the scheduled time.
OnceADay ==
    \A i, j \in DOMAIN reported : i # j => reported[i].day # reported[j].day
=============================================================================
