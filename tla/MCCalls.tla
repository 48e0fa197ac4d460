-------------------------------- MODULE MCCalls --------------------------------
(****************************************************************************)
(* Instances for TLC of two components that share no state: the deliveries  *)
(* of webhooks, of which every one wants every event, and the connection of *)
(* a browser to the gateway. They stand side by side, and the first state   *)
(* says which of them moves in a behaviour. The fair actions of the one     *)
(* that stands still are all disabled in its first state, so the fairness   *)
(* of both is asked for.                                                    *)
(****************************************************************************)
EXTENDS Webhooks, Sequences

CONSTANTS MaxSockets, Root, MaxAttempts, MaxMissed, HasToken, MaxPresses

VARIABLES
  socket, current, url, handshake, shown, heartbeat, missed, pings, attempts, manual,
  blocked, tokenOnly, tried, timer, strays, presses, overtaken,
  moves

AllWanted == Hooks \X Events
Paths == <<"gateway-ws", "gw">>

G == INSTANCE GatewayClient WITH Fallbacks <- Paths

ASSUME BoundsAreNumbers ==
  /\ MaxSockets \in Nat /\ MaxAttempts \in Nat
  /\ MaxMissed \in Nat /\ MaxPresses \in Nat

webhookVars == <<state, failures, deliveries, nextId, inflight, fired>>
gatewayVars == <<socket, current, url, handshake, shown, heartbeat, missed, pings, attempts,
                 manual, blocked, tokenOnly, tried, timer, strays, presses, overtaken>>
allVars == <<moves, webhookVars, gatewayVars>>

InitAll == moves \in {"webhooks", "gateway"} /\ Init /\ G!Init

NextAll ==
  /\ UNCHANGED moves
  /\ \/ moves = "webhooks" /\ Next /\ UNCHANGED gatewayVars
     \/ moves = "gateway" /\ G!Next /\ UNCHANGED webhookVars

SpecAll == InitAll /\ [][NextAll]_allVars /\ Fairness /\ G!Fairness

TypesOK == TypeOK /\ G!TypeOK

ConnectionIsShown == G!ConnectionIsShown
SilenceIsNoticed == G!SilenceIsNoticed
GivesUp == G!GivesUp
================================================================================
