----------------------------- MODULE SagaProtocol -----------------------------
(***************************************************************************)
(* What the saga engine promises, with no runners, leases, retries or      *)
(* crashes in it: an instance goes forward one step at a time, turns round *)
(* at most once and only at or before the pivot, and then goes back one    *)
(* step at a time.  Past the pivot, and in a compensation, the only other  *)
(* end is STUCK.                                                           *)
(***************************************************************************)
EXTENDS Integers

CONSTANTS Saga, N, Kind

VARIABLES status, cursor

protocolVars == <<status, cursor>>

ProtocolInit ==
    /\ status = [s \in Saga |-> "ABSENT"]
    /\ cursor = [s \in Saga |-> 0]

Move(s, from, to, position) ==
    /\ status[s] = from
    /\ status' = [status EXCEPT ![s] = to]
    /\ cursor' = [cursor EXCEPT ![s] = position]

Started(s) == Move(s, "ABSENT", "RUNNING", 0)

Forward(s) ==
    \/ cursor[s] + 1 < N /\ Move(s, "RUNNING", "RUNNING", cursor[s] + 1)
    \/ cursor[s] + 1 = N /\ Move(s, "RUNNING", "COMPLETED", N)

TurnRound(s) ==
    /\ Move(s, "RUNNING", "COMPENSATING", cursor[s])
    /\ Kind[cursor[s]] # "retriable"

Back(s) ==
    \/ cursor[s] > 0 /\ Move(s, "COMPENSATING", "COMPENSATING", cursor[s] - 1)
    \/ cursor[s] = 0 /\ Move(s, "COMPENSATING", "COMPENSATED", -1)

GetStuck(s) ==
    \/ Move(s, "RUNNING", "STUCK", cursor[s]) /\ Kind[cursor[s]] = "retriable"
    \/ Move(s, "COMPENSATING", "STUCK", cursor[s]) /\ Kind[cursor[s]] = "compensatable"

ProtocolNext ==
    \E s \in Saga :
        Started(s) \/ Forward(s) \/ TurnRound(s) \/ Back(s) \/ GetStuck(s)

ProtocolSpec == ProtocolInit /\ [][ProtocolNext]_protocolVars
=============================================================================
