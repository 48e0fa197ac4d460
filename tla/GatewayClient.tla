----------------------------- MODULE GatewayClient -----------------------------
(****************************************************************************)
(* lib/websocket.ts: the browser's connection to the gateway. The module    *)
(* keeps one current socket and its flags in variables that every handler   *)
(* of every socket shares; a socket that was replaced still has its onclose *)
(* to come, which may be long after the next one was opened. The gateway    *)
(* and the network do as they please.                                       *)
(****************************************************************************)
EXTENDS Naturals, Sequences, FiniteSets, SequencesExt

CONSTANTS
  MaxSockets,   \* bound: sockets that are not finished at the same time
  Root,         \* a URL without a path
  Fallbacks,    \* the URLs tried in its place, in order
  MaxAttempts,  \* maxReconnectAttempts
  MaxMissed,    \* MAX_MISSED_PONGS
  HasToken,     \* there is a token for the gateway
  MaxPresses    \* bound: what the person at the browser does

Sockets == 1..MaxSockets
None == 0
Urls == {Root} \cup ToSet(Fallbacks)
Latest == "latest"      \* a timer that looks up reconnectUrl when it fires

VARIABLES
  socket,     \* of each socket: readyState, URL, handshake, silence of its network
  current,    \* wsRef
  url,        \* reconnectUrl
  handshake,  \* handshakeCompleteRef
  shown,      \* connection.isConnected, what the person sees
  heartbeat,  \* the ping interval runs
  missed,     \* missedPongsRef
  pings,      \* gatewaySupportsPingRef
  attempts,   \* reconnectAttemptsRef
  manual,     \* manualDisconnectRef
  blocked,    \* nonRetryableErrorRef
  tokenOnly,  \* tokenOnlyFallbackTriedRef
  tried,      \* wsPathFallbackTriedRef
  timer,      \* reconnectTimeoutRef: "none", Latest or a URL
  strays,     \* timers that reconnectTimeoutRef no longer refers to
  presses,    \* what the person has done so far
  overtaken   \* history: an older socket closed after the current one was opened

state == <<socket, current, url, handshake, shown, heartbeat, missed, pings>>
control == <<attempts, manual, blocked, tokenOnly, tried, timer, strays>>
vars == <<state, control, presses, overtaken>>

Gone == [is |-> "gone", url |-> Root, step |-> "waiting", silent |-> FALSE]

TypeOK ==
  /\ socket \in [Sockets -> [is : {"connecting", "open", "closing", "gone"}, url : Urls,
                  step : {"waiting", "signing", "asked", "accepted"}, silent : BOOLEAN]]
  /\ current \in Sockets \cup {None}
  /\ url \in Urls \cup {"none"}
  /\ {handshake, shown, heartbeat, pings, manual, blocked, tokenOnly, overtaken} \subseteq BOOLEAN
  /\ missed \in 0..MaxMissed
  /\ attempts \in 0..MaxAttempts
  /\ tried \subseteq ToSet(Fallbacks)
  /\ timer \in Urls \cup {Latest, "none"} /\ strays \subseteq Urls \cup {Latest}
  /\ presses \in 0..MaxPresses

Init ==
  /\ socket = [s \in Sockets |-> Gone]
  /\ current = None /\ url = "none"
  /\ handshake = FALSE /\ shown = FALSE
  /\ heartbeat = FALSE /\ missed = 0 /\ pings = TRUE
  /\ attempts = 0 /\ manual = FALSE /\ blocked = FALSE /\ tokenOnly = FALSE
  /\ tried = {} /\ timer = "none" /\ strays = {}
  /\ presses = 0 /\ overtaken = FALSE

Is(s, states) == socket[s].is \in states
Busy == current # None /\ Is(current, {"connecting", "open"})
Press == presses < MaxPresses /\ presses' = presses + 1

--------------------------------------------------------------------------------
(* connect *)

ConnectAnyway(to) ==  \* mutant: the state of the current socket is not looked at
  \E s \in Sockets :
    /\ Is(s, {"gone"})
    /\ socket' = [socket EXCEPT ![s] = [Gone EXCEPT !.is = "connecting", !.url = to]]
    /\ current' = s /\ url' = to
    /\ tried' = IF url = to THEN tried ELSE {}
    /\ handshake' = FALSE /\ manual' = FALSE /\ blocked' = FALSE /\ overtaken' = FALSE
    /\ UNCHANGED <<shown, heartbeat, missed, pings, attempts, tokenOnly>>

connect(to) ==
  \/ Busy /\ UNCHANGED <<state, attempts, manual, blocked, tokenOnly, tried, overtaken>>
  \/ /\ ~Busy
     /\ \E s \in Sockets :
          /\ Is(s, {"gone"})
          /\ socket' = [socket EXCEPT ![s] = [Gone EXCEPT !.is = "connecting", !.url = to]]
          /\ current' = s /\ url' = to
          /\ tried' = IF url = to THEN tried ELSE {}
          /\ handshake' = FALSE /\ manual' = FALSE /\ blocked' = FALSE /\ overtaken' = FALSE
     /\ UNCHANGED <<shown, heartbeat, missed, pings, attempts, tokenOnly>>

(* The page, or the person who chooses a gateway.                           *)
Connect ==
  /\ Press
  /\ connect(Root)
  /\ UNCHANGED <<timer, strays>>

Goal(which) == IF which = Latest THEN url ELSE which

TimerFires ==
  /\ timer # "none"
  /\ connect(Goal(timer))
  /\ timer' = "none"
  /\ UNCHANGED <<strays, presses>>

StrayFires(which) ==
  /\ which \in strays
  /\ connect(Goal(which))
  /\ strays' = strays \ {which}
  /\ UNCHANGED <<timer, presses>>

--------------------------------------------------------------------------------
(* The handshake *)

AttemptsAnew == 0     \* mutant: an open socket is taken for a success
AttemptsWhenOpen == attempts

(* Nothing counts yet: the handshake is to come.                            *)
Opens(s) ==
  /\ Is(s, {"connecting"})
  /\ socket' = [socket EXCEPT ![s].is = "open"]
  /\ attempts' = AttemptsWhenOpen
  /\ UNCHANGED <<current, url, handshake, shown, heartbeat, missed, pings, manual, blocked,
                 tokenOnly, tried, timer, strays, presses, overtaken>>

Hears(s) == Is(s, {"open"}) /\ ~socket[s].silent

Step(s, from, to) ==
  /\ socket[s].step = from
  /\ socket' = [socket EXCEPT ![s].step = to]
  /\ UNCHANGED <<current, url, handshake, shown, heartbeat, missed, pings,
                 control, presses, overtaken>>

(* sendConnectHandshake up to its await, and after it.                      *)
Challenge(s) == Hears(s) /\ Step(s, "waiting", "signing")
Signed(s) == Is(s, {"open"}) /\ Step(s, "signing", "asked")

(* The response to the connect request: startHeartbeat included.            *)
Accepted(s) ==
  /\ Hears(s)
  /\ socket[s].step = "asked"
  /\ ~handshake
  /\ socket' = [socket EXCEPT ![s].step = "accepted"]
  /\ handshake' = TRUE /\ shown' = TRUE /\ heartbeat' = TRUE
  /\ attempts' = 0
  /\ UNCHANGED <<current, url, missed, pings, manual, blocked, tokenOnly, tried, timer, strays,
                 presses, overtaken>>

stopHeartbeat == heartbeat' = FALSE /\ missed' = 0

Close(s) == socket' = [socket EXCEPT ![s].is = "closing"]

Fails(s) == Hears(s) /\ socket[s].step \in {"asked", "accepted"}

(* The device credentials are refused: once, without them.                  *)
DeviceRefused(s) ==
  /\ Fails(s)
  /\ HasToken /\ ~tokenOnly
  /\ tokenOnly' = TRUE
  /\ stopHeartbeat
  /\ Close(s)
  /\ UNCHANGED <<current, url, handshake, shown, pings, attempts, manual, blocked, tried, timer,
                 strays, presses, overtaken>>

(* An error that trying again does not help.                                *)
Blocked(s) ==
  /\ Fails(s)
  /\ blocked' = TRUE
  /\ stopHeartbeat
  /\ Close(s)
  /\ UNCHANGED <<current, url, handshake, shown, pings, attempts, manual, tokenOnly, tried, timer,
                 strays, presses, overtaken>>

--------------------------------------------------------------------------------
(* The heartbeat *)

Beats == heartbeat /\ current # None /\ Is(current, {"open"}) /\ handshake /\ pings

CountedOnce == 1  \* mutant: the count does not go on
Counted == missed + 1

HeartbeatTick ==
  /\ Beats
  /\ IF missed >= MaxMissed
       THEN Close(current) /\ UNCHANGED missed
       ELSE missed' = Counted /\ UNCHANGED socket
  /\ UNCHANGED <<current, url, handshake, shown, heartbeat, pings, control, presses, overtaken>>

(* Any answer to a ping; a gateway that does not know it is not asked again.*)
Pong(s) ==
  /\ Hears(s)
  /\ missed > 0
  /\ missed' = 0
  /\ pings' \in {pings, FALSE}
  /\ UNCHANGED <<socket, current, url, handshake, shown, heartbeat, control, presses, overtaken>>

(* The network stops to carry anything, and nobody says so.                 *)
FallsSilent(s) ==
  /\ Is(s, {"open"}) /\ ~socket[s].silent
  /\ socket' = [socket EXCEPT ![s].silent = TRUE]
  /\ UNCHANGED <<current, url, handshake, shown, heartbeat, missed, pings,
                 control, presses, overtaken>>

--------------------------------------------------------------------------------
(* onclose *)

Untried(s) ==
  {i \in DOMAIN Fallbacks : socket[s].url = Root /\ Fallbacks[i] \notin tried}

Schedule(which) ==
  /\ timer' = which
  /\ strays' = strays \cup ({timer} \ {"none"})

OneMoreAttempt == attempts <= MaxAttempts  \* mutant: off by one
MayTryAgain == attempts < MaxAttempts

(* By then handshakeCompleteRef is false, whatever it was.                  *)
FallsBack(s) == Untried(s) # {}

AfterClose(s) ==
  CASE manual -> UNCHANGED <<url, tried, timer, strays, attempts>>
    [] ~manual /\ FallsBack(s) ->
         /\ \E first \in Untried(s) :
              /\ \A i \in Untried(s) : first <= i
              /\ tried' = tried \cup {Fallbacks[first]}
              /\ url' = Fallbacks[first]
              /\ Schedule(Fallbacks[first])
         /\ UNCHANGED attempts
    [] ~manual /\ ~FallsBack(s) /\ ~blocked /\ MayTryAgain ->
         /\ attempts' = attempts + 1
         /\ Schedule(Latest)
         /\ UNCHANGED <<url, tried>>
    [] OTHER -> UNCHANGED <<url, tried, timer, strays, attempts>>

OnClose(s) ==
  /\ Is(s, {"connecting", "open", "closing"})
  /\ socket' = [socket EXCEPT ![s] = Gone]
  /\ current' = IF current = s THEN None ELSE current
  /\ handshake' = FALSE /\ shown' = FALSE
  /\ stopHeartbeat
  /\ AfterClose(s)
  /\ overtaken' = (overtaken \/ (current \notin {s, None}))
  /\ UNCHANGED <<pings, manual, blocked, tokenOnly, presses>>

disconnect ==
  /\ manual' = TRUE /\ attempts' = 0 /\ tried' = {}
  /\ timer' = "none"
  /\ stopHeartbeat
  /\ IF current = None THEN UNCHANGED socket ELSE Close(current)
  /\ current' = None
  /\ handshake' = FALSE /\ shown' = FALSE
  /\ UNCHANGED <<url, pings, blocked, tokenOnly, overtaken>>

(* The buttons; the second one has a timer of its own for the connection.   *)
Disconnect ==
  /\ Press
  /\ disconnect
  /\ UNCHANGED strays

Reconnect ==
  /\ Press
  /\ disconnect
  /\ strays' = IF url = "none" THEN strays ELSE strays \cup {Latest}

--------------------------------------------------------------------------------
Next ==
  \/ Connect \/ Disconnect \/ Reconnect \/ TimerFires \/ \E which \in strays : StrayFires(which)
  \/ HeartbeatTick
  \/ \E s \in Sockets :
       \/ Opens(s) \/ Challenge(s) \/ Signed(s) \/ Accepted(s)
       \/ DeviceRefused(s) \/ Blocked(s) \/ Pong(s) \/ FallsSilent(s) \/ OnClose(s)

Spec == Init /\ [][Next]_vars

(* The browser's timers fire, and it reports the end of a socket it was     *)
(* asked to close. Nothing is promised of the gateway.                      *)
Fairness ==
  /\ WF_vars(TimerFires)
  /\ \A which \in Urls \cup {Latest} : WF_vars(StrayFires(which))
  /\ WF_vars(HeartbeatTick)
  /\ \A s \in Sockets : WF_vars(Is(s, {"closing"}) /\ OnClose(s))

FairSpec == Spec /\ Fairness

--------------------------------------------------------------------------------
(* There is one socket: whatever timers and buttons do, no second one is    *)
(* connecting or open beside it.                                            *)
OneSocket == Cardinality({s \in Sockets : Is(s, {"connecting", "open"})}) <= 1

(* A connection that works is shown, used and watched, unless an older      *)
(* socket reported its end after the current one was opened; and none is    *)
(* shown that does not, unless an older socket is still to report.          *)
ShownAsItIs ==
  /\ current # None /\ Is(current, {"open"}) /\ socket[current].step = "accepted" /\ ~overtaken
     => handshake /\ shown /\ heartbeat
  /\ shown =>
       \/ current # None /\ socket[current].step = "accepted" /\ handshake
       \/ \E s \in Sockets \ {current} : Is(s, {"closing"})

(* One connection, and the state of it that the browser shows.              *)
ConnectionIsShown == OneSocket /\ ShownAsItIs

(* A gateway that no longer answers is noticed by its missing pongs, if it  *)
(* knows pings (websocket.ts:146).                                          *)
SilenceIsNoticed ==
  \A s \in Sockets :
    []((shown /\ current = s /\ socket[s].silent) => <>(~shown \/ current # s \/ ~pings))

(* When no handshake succeeds any more, reconnecting comes to an end        *)
(* (maxReconnectAttempts).                                                  *)
GivesUp == <>[]~handshake => <>[](timer = "none" /\ strays = {})
===============================================================================
