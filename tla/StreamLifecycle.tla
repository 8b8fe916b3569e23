-------------------------- MODULE StreamLifecycle --------------------------
(***************************************************************************)
(* What the control daemon promises to a client of its socket, whatever    *)
(* its goroutines do: how the state of each target's stream changes, who   *)
(* is waiting for a PIN, and when the screen is captured.                  *)
(***************************************************************************)

CONSTANTS Targets, NoTarget

VARIABLES status,    \* the state of the stream to each target, or "idle"
          waiting,   \* the target a PIN would go to, or NoTarget
          casting    \* the daemon shares a capture among its streams

vars == <<status, waiting, casting>>

Idle(s) == \A t \in Targets : s[t] = "idle"

Init == /\ status = [t \in Targets |-> "idle"]
        /\ waiting = NoTarget
        /\ casting = FALSE

Connect(t) == /\ status[t] = "idle"
              /\ status' = [status EXCEPT ![t] = "connecting"]
              /\ UNCHANGED <<waiting, casting>>

\* Only one target at a time gets the attention of the user with the PIN.
AskPIN(t) == /\ status[t] = "connecting"
             /\ waiting = NoTarget
             /\ status' = [status EXCEPT ![t] = "pin_required"]
             /\ waiting' = t
             /\ UNCHANGED casting

GivePIN(t) == /\ status[t] = "pin_required"
              /\ waiting = t
              /\ status' = [status EXCEPT ![t] = "connecting"]
              /\ waiting' = NoTarget
              /\ UNCHANGED casting

\* A stream that ended before this one began may take the turn away.
LoseTurn == /\ waiting' = NoTarget
            /\ UNCHANGED <<status, casting>>

\* The first stream that gets so far starts the capture ...
Cast == /\ ~casting
        /\ casting' = TRUE
        /\ UNCHANGED <<status, waiting>>

Stream(t) == /\ status[t] = "connecting"
             /\ casting
             /\ status' = [status EXCEPT ![t] = "streaming"]
             /\ UNCHANGED <<waiting, casting>>

\* ... and the last one that goes ends it.
Drop(t) == /\ status[t] # "idle"
           /\ status' = [status EXCEPT ![t] = "idle"]
           /\ waiting' = IF waiting = t THEN NoTarget ELSE waiting
           /\ casting' = (casting /\ ~Idle(status'))

DropAll == /\ status' = [t \in Targets |-> "idle"]
           /\ waiting' = NoTarget
           /\ casting' = FALSE

\* A capture that started after its streams had gone ends too.
Settle == /\ Idle(status)
          /\ casting' = FALSE
          /\ UNCHANGED <<status, waiting>>

Next == \/ \E t \in Targets : \/ Connect(t) \/ AskPIN(t) \/ GivePIN(t)
                              \/ Stream(t) \/ Drop(t)
        \/ LoseTurn \/ Cast \/ DropAll \/ Settle

Spec == Init /\ [][Next]_vars
=============================================================================
