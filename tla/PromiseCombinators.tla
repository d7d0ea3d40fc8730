------------------------ MODULE PromiseCombinators ------------------------
(***************************************************************************)
(* Promise.all, Promise.race and Promise.allSettled of ialang              *)
(* (runtime/promise.go) over the same input promises, which settle in any  *)
(* order or never.  all and allSettled await the inputs one after the      *)
(* other; race has a goroutine per input and a channel of capacity one,    *)
(* into which only the first of them gets its result.                      *)
(***************************************************************************)
EXTENDS Naturals, FiniteSets

CONSTANTS
  N            (* the length of the array given to the three functions       *)

VARIABLES
  input,       (* state of each input promise                                *)
  first,       (* the input that settled first, 0 while there is none        *)
  allAt, all,          (* the input that all awaits; its promise             *)
  settledAt, report,   (* the same of allSettled; the results it has filled  *)
  watcher,             (* the goroutines of race                             *)
  channel, race        (* the input whose result is buffered; race's promise *)

vars == <<input, first, allAt, all, settledAt, report, watcher, channel, race>>
allVars == <<allAt, all>>
settledVars == <<settledAt, report>>
raceVars == <<watcher, channel, race>>

Inputs == 1 .. N
Settled == {"value", "error"}
Pending == [by |-> 0, result |-> "pending"]

(* A combinator's promise names the input that decided it, 0 for all of    *)
(* them together.                                                          *)
Promises == [by : 0 .. N, result : Settled \cup {"pending"}]

TypeOK ==
  /\ input \in [Inputs -> Settled \cup {"pending"}]
  /\ first \in 0 .. N
  /\ allAt \in 1 .. N + 1 /\ all \in Promises
  /\ settledAt \in 1 .. N + 1 /\ report \in [Inputs -> Settled \cup {"none"}]
  /\ watcher \in [Inputs -> {"waiting", "holding", "gone"}]
  /\ channel \in 0 .. N /\ race \in Promises

Init ==
  /\ input = [i \in Inputs |-> "pending"] /\ first = 0
  /\ allAt = 1 /\ all = Pending
  /\ settledAt = 1 /\ report = [i \in Inputs |-> "none"]
  /\ watcher = [i \in Inputs |-> "waiting"]
  /\ channel = 0 /\ race = Pending

(* The task behind an input returns, which nothing obliges it to. *)
Settle(i) ==
  /\ input[i] = "pending"
  /\ \E result \in Settled : input' = [input EXCEPT ![i] = result]
  /\ first' = IF first = 0 THEN i ELSE first
  /\ UNCHANGED <<allVars, settledVars, raceVars>>

-----------------------------------------------------------------------------
(* PromiseAll. *)

AllAwaitsIgnoring ==
  /\ all = Pending /\ allAt \in Inputs /\ input[allAt] # "pending"
  /\ allAt' = allAt + 1
  /\ UNCHANGED <<input, first, all, settledVars, raceVars>>

AllAwaits ==
  /\ all = Pending /\ allAt \in Inputs
  /\ \/ /\ input[allAt] = "value"
        /\ allAt' = allAt + 1
        /\ UNCHANGED all
     \/ /\ input[allAt] = "error"
        /\ all' = [by |-> allAt, result |-> "error"]
        /\ UNCHANGED allAt
  /\ UNCHANGED <<input, first, settledVars, raceVars>>

AllResolvesAtLast ==
  /\ all = Pending /\ allAt = N
  /\ all' = [by |-> 0, result |-> "value"]
  /\ UNCHANGED <<input, first, allAt, settledVars, raceVars>>

AllResolves ==
  /\ all = Pending /\ allAt = N + 1
  /\ all' = [by |-> 0, result |-> "value"]
  /\ UNCHANGED <<input, first, allAt, settledVars, raceVars>>

(* PromiseAllSettled.  It has settled when settledAt is N + 1. *)
SettledAwaitsMisplaced ==
  /\ settledAt \in Inputs /\ input[settledAt] # "pending"
  /\ report' = [report EXCEPT ![settledAt] = input[first]]
  /\ settledAt' = settledAt + 1
  /\ UNCHANGED <<input, first, allVars, raceVars>>

SettledAwaits ==
  /\ settledAt \in Inputs /\ input[settledAt] # "pending"
  /\ report' = [report EXCEPT ![settledAt] = input[settledAt]]
  /\ settledAt' = settledAt + 1
  /\ UNCHANGED <<input, first, allVars, raceVars>>

(* PromiseRace. *)
WatcherWakes(i) ==
  /\ watcher[i] = "waiting" /\ input[i] # "pending"
  /\ watcher' = [watcher EXCEPT ![i] = "holding"]
  /\ UNCHANGED <<input, first, allVars, settledVars, channel, race>>

WatcherBlocks(i) ==
  /\ watcher[i] = "holding" /\ race # Pending
  /\ watcher' = [watcher EXCEPT ![i] = "gone"]
  /\ UNCHANGED <<input, first, allVars, settledVars, channel, race>>

WatcherSends(i) ==
  /\ watcher[i] = "holding"
  /\ watcher' = [watcher EXCEPT ![i] = "gone"]
  /\ channel' = IF channel = 0 THEN i ELSE channel
  /\ UNCHANGED <<input, first, allVars, settledVars, race>>

RaceReceives ==
  /\ race = Pending /\ channel # 0
  /\ race' = [by |-> channel, result |-> input[channel]]
  /\ channel' = 0
  /\ UNCHANGED <<input, first, allVars, settledVars, watcher>>

-----------------------------------------------------------------------------
Watch(i) == WatcherWakes(i) \/ WatcherSends(i)

Combine ==
  \/ \E i \in Inputs : Watch(i)
  \/ AllAwaits \/ AllResolves \/ SettledAwaits \/ RaceReceives

Next == Combine \/ \E i \in Inputs : Settle(i)

(* Goroutines run; there are finitely many steps, so none is starved. *)
Spec == Init /\ [][Next]_vars /\ WF_vars(Combine)

-----------------------------------------------------------------------------
(* Properties. *)

(* all resolves only when every input has resolved, rejects only with the  *)
(* error of an input, and is then decided, however the inputs overtake     *)
(* each other.  That the inputs in front of that one have all resolved is  *)
(* what the loop over Await does; RejectsImmediately says otherwise.       *)
AllFaithful ==
  /\ all.result = "value" => \A i \in Inputs : input[i] = "value"
  /\ all.result = "error" =>
       /\ input[all.by] = "error"
       /\ \A i \in 1 .. all.by - 1 : input[i] = "value"

(* "If any promise rejects, the returned promise rejects immediately"      *)
(* (promise.go:56): at least, all does so in the end, whatever becomes of  *)
(* the other inputs.                                                       *)
RejectsImmediately == (\E i \in Inputs : input[i] = "error") ~> all.result = "error"

(* What allSettled has filled in is what that input, and no other, became. *)
ReportFaithful ==
  \A i \in Inputs : IF i < settledAt THEN report[i] = input[i] ELSE report[i] = "none"

(* What the two report is what became of their inputs.                     *)
CombinatorsFaithful == AllFaithful /\ ReportFaithful

(* A race with a settled input has settled; no goroutine of it is left     *)
(* behind by the others (the channel holds one result and a send never     *)
(* blocks).                                                                *)
RaceSettled ==
  /\ first # 0 => race # Pending
  /\ \A i \in Inputs : watcher[i] # "holding"

(* When every input has settled, so have all and allSettled. *)
CombinatorsSettled ==
  (\A i \in Inputs : input[i] # "pending") => all # Pending /\ settledAt = N + 1

(* In the end, no combinator is pending that has what it needs.            *)
AllSettled == RaceSettled /\ CombinatorsSettled

-----------------------------------------------------------------------------
(* The inductive invariant behind CombinatorsFaithful: what a combinator   *)
(* has passed was settled when it did, and stays so.                       *)
AllInv ==
  /\ \A i \in Inputs : i < allAt => input[i] = "value"
  /\ all.result = "value" => allAt = N + 1
  /\ all.result = "error" => all.by = allAt /\ allAt \in Inputs /\ input[allAt] = "error"

ReportInv == ReportFaithful /\ \A i \in Inputs : i < settledAt => input[i] # "pending"

CombineInv == AllInv /\ ReportInv
=============================================================================
