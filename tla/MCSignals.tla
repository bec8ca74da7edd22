----------------------------- MODULE MCSignals -----------------------------
(***************************************************************************)
(* Small instances of the components that must bring word to somebody in   *)
(* the end: the signals of a run, the monitors and the asks.  A behaviour  *)
(* is one of the component `part`; the others stay in one initial state,   *)
(* in which their fairness asks for nothing.                               *)
(***************************************************************************)
EXTENDS RunSignals, MonitorPoller, KeychainAsks

CONSTANT Parties    \* how many signals and live runs a behaviour of the signals has

VARIABLE part

Senders == {s \in Signals : sender[s].at = "idle"}
Pending == {r \in SigRuns : IsLive(r)}

\* Runs and processes are interchangeable.
First(S) == CHOOSE x \in S : TRUE

MCInit ==
    /\ part \in {"signals", "monitors", "asks"}
    /\ SigInit /\ MonInit /\ AskInit
    /\ Cardinality(Senders) + Cardinality(Pending) = IF part = "signals" THEN Parties ELSE 0
    /\ IF part = "monitors" THEN mon.pattern => (\E i, j \in Pieces : proc.text[i] # proc.text[j]) ELSE ~mon.pattern
    /\ Pending # {} => First(SigRuns) \in Pending
    /\ \A c \in Callers : answer[c].on = First(Cores)

StandsStill(p, v) == part # p => UNCHANGED v

MCNext ==
    /\ UNCHANGED part
    /\ \/ part = "signals" /\ SigNext
       \/ part = "monitors" /\ MonNext
       \/ part = "asks" /\ AskNext
    /\ StandsStill("signals", sigVars) /\ StandsStill("monitors", monVars)
    /\ StandsStill("asks", askVars)

MCSpec ==
    /\ MCInit /\ [][MCNext]_<<part, sigVars, monVars, askVars>>
    /\ SigFairness /\ MonFairness /\ AskFairness

\* Signals, monitors and asks keep the shape of their tables through faults and retries.
WordTypesOK == SigTypeOK /\ MonTypeOK /\ AskTypeOK

\* No message for a live run, no end of a job and no answer to an ask is left lying for
\* ever: each is taken up by somebody, and told unless a fault, a refused turn or a
\* destination nobody may see stands in the way.
WordGetsThrough == []<>~(SteersWait \/ EndWaits \/ AsksWait)
=============================================================================
