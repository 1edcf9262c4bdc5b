----------------------------- MODULE MCSpiHostTx -----------------------------
(* Model values for SpiHostTx: the two network devices and one serial user.  *)
EXTENDS SpiHostTx

CONSTANT serial

MCUsers == {serial}

\* Next while the data path stays open and every transfer succeeds: with no
\* reinit and no failure to come (MaxReinit = MaxFail = 0) nothing else of it can
\* happen.  MCHost checks the whole of Next.
FlowNext ==
    \/ \E w \in Writers :
          \/ EnterWrite(w) \/ CheckPending(w) \/ EnqueueHci(w) \/ Enqueue(w)
          \/ IncPending(w) \/ Pause(w) \/ Kick(w)
    \/ WorkStep
    \/ SlaveReady

FlowSpec == Init /\ [][FlowNext]_vars /\ Fairness
=============================================================================
