----------------------------- MODULE BrowserTab -----------------------------
(***************************************************************************)
(* The one thing the learner's screens share: the tab shows one page at a  *)
(* time, and a router.push takes effect some time after it is asked for.   *)
(* A page that is not shown keeps no component state; what its unfinished  *)
(* calls do afterwards is up to each screen.                               *)
(***************************************************************************)
EXTENDS Integers

CONSTANT MaxClicks  \* bound: choices, checks, moves, submissions and retries

VARIABLES
    page,    \* the page shown
    pushing, \* the page a router.push is on its way to, and the id in its path
    clicks   \* clicks so far

NoPush == [to |-> "none", id |-> 0]
Push(to, id) == pushing' = [to |-> to, id |-> id]

\* The page is replaced, and with it the navigation under way.
Show(next) == page' = next /\ pushing' = NoPush

\* A click that counts against the bound.
Click == clicks < MaxClicks /\ clicks' = clicks + 1

=============================================================================
