---------------------------- MODULE MCNotifier ----------------------------
(* Instances of Notifier: what the API may say of a day, two weights each,  *)
(* and how the wall clock may be changed.                                   *)
EXTENDS Notifier

Said(source, valid, first, second) ==
    [source |-> source, valid |-> valid, weights |-> <<first, second>>]

\* Rises and falls of different spans, a weight that is missing, another source, and
\* a result that was not verified.
SomeDays ==
    {NoSnapshot,
     Said("aizhan", TRUE, 1, 2), Said("aizhan", TRUE, 3, 1),
     Said("aizhan", TRUE, 2, NoWeight), Said("chinaz", TRUE, 1, 1),
     Said("aizhan", FALSE, 4, 4)}

\* Days of two units.  The hour before a scheduled time is repeated, as where summer time
\* ends; and the clock skips two scheduled times.
SomeChanges == {<<1, 0>>, <<1, 4>>}
===========================================================================
