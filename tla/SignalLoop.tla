----------------------------- MODULE SignalLoop -----------------------------
(***************************************************************************)
(* The signal goroutine of cmd/flow-router/main.go: SIGHUP reloads the     *)
(* rules file, any other signal stops the runtime.  The channel has room   *)
(* for one signal, and os/signal drops what finds it full.  The runtime is *)
(* seen through Ready, ReplaceRules, Stop and Done.                        *)
(***************************************************************************)
EXTENDS Integers, Sequences

CONSTANTS HasRulesFile,   \* --rules-file was given
          Buffered,       \* capacity of the channel signals
          MaxEdits        \* bound: edits of the rules file

ASSUME SignalAssumption == HasRulesFile \in BOOLEAN /\ Buffered \in Nat \ {0}
                           /\ MaxEdits \in Nat

VARIABLES
  signals,      \* contents of the channel
  loop,         \* control point of the goroutine
  updated,      \* version of the file it has loaded
  runtime,      \* "starting", "running", "closing", "failed" or "done"
  stop,         \* dp.stop
  file, wellFormed,  \* version of the file, and whether it parses
  published,    \* version of the rules packets follow
  read,         \* history: latest version LoadRulesFile has looked at
  hup,          \* history: version of the file at the latest SIGHUP
  term          \* history: SIGTERM or SIGINT arrived while the goroutine ran

vars == <<signals, loop, updated, runtime, stop, file, wellFormed, published, read,
          hup, term>>

Init ==
  /\ signals = <<>> /\ loop = "select" /\ updated = 0
  /\ runtime = "starting" /\ stop = FALSE
  /\ file = 0 /\ wellFormed = TRUE /\ published = 0
  /\ read = 0 /\ hup = 0 /\ term = FALSE

-----------------------------------------------------------------------------
(* The operator *)

EditFile ==
  /\ file < MaxEdits /\ file' = file + 1
  /\ wellFormed' \in BOOLEAN
  /\ UNCHANGED <<signals, loop, updated, runtime, stop, published, read, hup, term>>

(* signal.Notify never blocks: a signal that finds the channel full is lost *)
Deliver(s) == signals' = IF Len(signals) < Buffered THEN Append(signals, s) ELSE signals

SendHup ==
  /\ runtime # "done" /\ Deliver("SIGHUP")
  /\ hup' = file
  /\ UNCHANGED <<loop, updated, runtime, stop, file, wellFormed, published, read, term>>

SendTerm ==
  /\ runtime # "done" /\ Deliver("SIGTERM")
  /\ term' = (term \/ loop # "returned")
  /\ UNCHANGED <<loop, updated, runtime, stop, file, wellFormed, published, read, hup>>

-----------------------------------------------------------------------------
(* The goroutine *)

Receive(s) == /\ loop = "select" /\ signals # <<>> /\ Head(signals) = s
              /\ signals' = Tail(signals)

ReceiveStop ==
  /\ Receive("SIGTERM")
  /\ stop' = TRUE                       \* r.Stop
  /\ loop' = "returned"
  /\ UNCHANGED <<updated, runtime, file, wellFormed, published, read, hup, term>>

ReceiveHup ==
  /\ Receive("SIGHUP")
  /\ loop' = IF HasRulesFile THEN "load" ELSE "select"
  /\ UNCHANGED <<updated, runtime, stop, file, wellFormed, published, read, hup, term>>

LoadRulesFile ==
  /\ loop = "load"
  /\ read' = file
  /\ IF wellFormed THEN updated' = file /\ loop' = "replace"
                   ELSE loop' = "select" /\ UNCHANGED updated
  /\ UNCHANGED <<signals, runtime, stop, file, wellFormed, published, hup, term>>

(* Mutation: signals that came during the reload are drained. *)
ReplaceRulesAndDrain ==
  /\ loop = "replace" /\ runtime # "starting"
  /\ signals' = <<>> /\ loop' = "select"
  /\ UNCHANGED <<updated, runtime, stop, file, wellFormed, published, read, hup, term>>

(* Waits for Ready; refused once the runtime closes or when memory is short *)
ReplaceRules ==
  /\ loop = "replace" /\ runtime # "starting"
  /\ \/ runtime \in {"running", "closing"} /\ published' = updated
     \/ UNCHANGED published
  /\ loop' = "select"
  /\ UNCHANGED <<signals, updated, runtime, stop, file, wellFormed, read, hup, term>>

(* Mutation: the select has no case for Done. *)
SelectSignalsOnly == FALSE /\ UNCHANGED vars

SelectDone ==
  /\ loop = "select" /\ runtime = "done"
  /\ loop' = "returned"
  /\ UNCHANGED <<signals, updated, runtime, stop, file, wellFormed, published, read,
                 hup, term>>

-----------------------------------------------------------------------------
(* Runtime.owner; a stop request that came during the start is not lost.    *)

StartEnds ==
  /\ runtime = "starting" /\ runtime' \in {"running", "failed"}
  /\ UNCHANGED <<signals, loop, updated, stop, file, wellFormed, published, read,
                 hup, term>>

(* The workers have seen dp.stop, or one of them failed. *)
RunReturns ==
  /\ runtime = "running" /\ runtime' = "closing"
  /\ UNCHANGED <<signals, loop, updated, stop, file, wellFormed, published, read,
                 hup, term>>

Finish ==
  /\ runtime \in {"closing", "failed"} /\ runtime' = "done"
  /\ UNCHANGED <<signals, loop, updated, stop, file, wellFormed, published, read,
                 hup, term>>

Loop == ReceiveStop \/ ReceiveHup \/ LoadRulesFile \/ ReplaceRules \/ SelectDone

Next == EditFile \/ SendHup \/ SendTerm \/ Loop \/ StartEnds \/ RunReturns \/ Finish

(* The goroutine runs whenever it can, ReplaceRules returns, the start ends, *)
(* the workers see a stop request, and the cleanup ends.  Select chooses at  *)
(* random: done is not passed over for ever.  No signal has to be sent.      *)
Fairness == /\ WF_vars(Loop) /\ SF_vars(SelectDone)
            /\ WF_vars(StartEnds) /\ WF_vars(RunReturns /\ stop) /\ WF_vars(Finish)

Spec == Init /\ [][Next]_vars /\ Fairness

-----------------------------------------------------------------------------
(* Properties *)

(* A SIGHUP may be dropped, yet a reload is never missed: after the last of  *)
(* them the file is read at the version it had then or a later one, unless   *)
(* the process stops.  A dropped SIGHUP always has another signal before it. *)
ReloadNotMissed ==
  HasRulesFile => \A v \in 1 .. MaxEdits :
    hup = v ~> (read >= v \/ stop \/ runtime = "done")

(* The goroutine does not outlive the runtime.                               *)
LoopReturns == runtime = "done" ~> loop = "returned"

(* A stop request reaches the process: SIGTERM and SIGINT are in charge of   *)
(* stopping.                                                                 *)
TermStops == term ~> (stop \/ runtime = "done")
=============================================================================
