----------------------------- MODULE CtpSession -----------------------------
(***************************************************************************)
(* The futures feed: MdSpiBridge, whose callbacks run in the thread of the *)
(* CTP library, and what MdApiSession does with it in the main thread.     *)
(* The front and the library's thread are external: the library delivers   *)
(* one callback at a time, a response only on the connection on which it   *)
(* was asked for, and Release returns when no callback is running.         *)
(***************************************************************************)
EXTENDS Naturals, LinuxEvent

CONSTANTS
    Instruments,    \* ctp.instruments: the monitored contracts
    MaxConnects,    \* bound on the connections to the front
    MaxRefusals     \* bound on requests that are refused or answered by an error

ASSUME CtpAssumption ==
    /\ Instruments # {}
    /\ MaxConnects \in Nat /\ MaxRefusals \in Nat

VARIABLES
    front,      \* external: the connection, and what the front owes and streams
    ctp_api,    \* MdApiSession::api_: "none", "live" or "released"
    ctp_spi,    \* MdApiSession::spi_: "none", "live" or "freed"
    ctp,        \* the flags of the bridge
    event,      \* the events of the bridge
    ctp_cb,     \* what the running callback has left to do
    told,       \* history: the listener has been told of a tick
    connects, refusals  \* history: the counters that the bounds are for

ctp_vars == <<front, ctp_api, ctp_spi, ctp, event, ctp_cb, told, connects, refusals>>

NewFront ==
    [link |-> "down",      \* "lost": gone, OnFrontDisconnected not called yet
     loginDue |-> FALSE,   \* a login response is owed
     subDue |-> {},        \* instruments whose subscription response is owed
     streams |-> {},       \* instruments subscribed on this connection
     refused |-> FALSE]    \* history: the front turned something down on it

NewFlags ==
    [login_accepted |-> TRUE, login_succeeded |-> FALSE,
     subscription_accepted |-> TRUE, subscription_error_seen |-> FALSE,
     subscription_succeeded |-> FALSE, has_received_first |-> FALSE]

Events == {"connected", "login", "subscription", "first"}

CtpInit ==
    /\ front = NewFront
    /\ ctp_api = "none" /\ ctp_spi = "none"
    /\ ctp = NewFlags
    /\ event = [e \in Events |-> FALSE]
    /\ ctp_cb = "idle"
    /\ told = FALSE
    /\ connects = 0 /\ refusals = 0

CtpTypeOK ==
    /\ front \in [link : {"down", "up", "lost"}, loginDue : BOOLEAN,
                  subDue : SUBSET Instruments, streams : SUBSET Instruments,
                  refused : BOOLEAN]
    /\ ctp_api \in {"none", "live", "released"}
    /\ ctp_spi \in {"none", "live", "freed"}
    /\ ctp \in [DOMAIN NewFlags -> BOOLEAN]
    /\ event \in [Events -> BOOLEAN]
    /\ ctp_cb \in {"idle", "setConnected", "setLogin", "listener"}
    /\ told \in BOOLEAN
    /\ connects \in 0 .. MaxConnects /\ refusals \in 0 .. MaxRefusals

-----------------------------------------------------------------------------
(* Requests, made from callbacks.  A negative return value counts as a      *)
(* refusal; the front then owes nothing.                                    *)

Refuse(refused) ==
    /\ refused => refusals < MaxRefusals
    /\ refusals' = IF refused THEN refusals + 1 ELSE refusals

\* MdSpiBridge::BeginLoginRequest, for the connection that f describes
BeginLoginRequest(f, accepted) ==
    /\ ctp' = [ctp EXCEPT !.login_accepted = accepted, !.login_succeeded = FALSE]
    /\ event' = IF accepted THEN ResetEvent(event, "login")
                ELSE SetEvent(ResetEvent(event, "login"), "login")
    /\ front' = [f EXCEPT !.loginDue = accepted, !.refused = ~accepted]
    /\ Refuse(~accepted)

\* MdSpiBridge::BeginSubscriptionRequest, after a successful login
BeginSubscriptionRequest(accepted) ==
    /\ ctp' = [ctp EXCEPT !.login_succeeded = TRUE,
                          !.subscription_accepted = accepted,
                          !.subscription_error_seen = FALSE,
                          !.subscription_succeeded = FALSE]
    /\ event' = IF accepted THEN ResetEvent(event, "subscription")
                ELSE SetEvent(ResetEvent(event, "subscription"), "subscription")
    /\ front' = [front EXCEPT !.loginDue = FALSE, !.refused = ~accepted,
                              !.subDue = IF accepted THEN Instruments ELSE {}]
    /\ Refuse(~accepted)

-----------------------------------------------------------------------------
(* Callbacks of the library's thread, from Init to Release. *)

CallbackMayRun == ctp_api = "live" /\ ctp_cb = "idle"

\* Mutant of OnFrontConnected: the login is left out once there has been one.
LogInOnce(accepted) ==
    /\ CallbackMayRun
    /\ front.link = "down" /\ connects < MaxConnects
    /\ connects' = connects + 1
    /\ \/ connects = 0 /\ BeginLoginRequest([NewFront EXCEPT !.link = "up"], accepted)
       \/ /\ connects # 0
          /\ front' = [NewFront EXCEPT !.link = "up"]
          /\ UNCHANGED <<ctp, event, refusals>>
    /\ ctp_cb' = "setConnected"
    /\ UNCHANGED <<ctp_api, ctp_spi, told>>

OnFrontConnected(accepted) ==
    /\ CallbackMayRun
    /\ front.link = "down" /\ connects < MaxConnects
    /\ connects' = connects + 1
    /\ BeginLoginRequest([NewFront EXCEPT !.link = "up"], accepted)
    /\ ctp_cb' = "setConnected"
    /\ UNCHANGED <<ctp_api, ctp_spi, told>>

\* Mutant of FinishCallback: login_event_ is for failures only.
SignalsFailedLogin ==
    /\ \/ ctp_cb = "setConnected" /\ event' = SetEvent(event, "connected")
       \/ /\ ctp_cb = "setLogin"
          /\ event' = IF ctp.login_succeeded THEN event ELSE SetEvent(event, "login")
    /\ ctp_cb' = "idle"
    /\ UNCHANGED <<front, ctp_api, ctp_spi, ctp, told, connects, refusals>>

\* The last step of a callback: SetEvent of connected_event_ or login_event_.
FinishCallback ==
    /\ \/ ctp_cb = "setConnected" /\ event' = SetEvent(event, "connected")
       \/ ctp_cb = "setLogin" /\ event' = SetEvent(event, "login")
    /\ ctp_cb' = "idle"
    /\ UNCHANGED <<front, ctp_api, ctp_spi, ctp, told, connects, refusals>>

\* External: the connection goes, and with it what the front owes.
LoseFront ==
    /\ front.link = "up"
    /\ front' = [NewFront EXCEPT !.link = "lost"]
    /\ UNCHANGED <<ctp_api, ctp_spi, ctp, event, ctp_cb, told, connects, refusals>>

OnFrontDisconnected ==
    /\ CallbackMayRun
    /\ front.link = "lost"
    /\ front' = NewFront
    /\ ctp' = [ctp EXCEPT !.login_succeeded = FALSE,
                          !.subscription_succeeded = FALSE,
                          !.subscription_error_seen = FALSE]
    /\ UNCHANGED <<ctp_api, ctp_spi, event, ctp_cb, told, connects, refusals>>

\* A login that is turned down is not tried again.
OnRspUserLogin(ok, accepted) ==
    /\ CallbackMayRun
    /\ front.loginDue
    /\ \/ ok /\ BeginSubscriptionRequest(accepted)
       \/ /\ ~ok /\ Refuse(TRUE)
          /\ ctp' = [ctp EXCEPT !.login_succeeded = FALSE]
          /\ front' = [front EXCEPT !.loginDue = FALSE, !.refused = TRUE]
          /\ UNCHANGED event
    /\ ctp_cb' = "setLogin"
    /\ UNCHANGED <<ctp_api, ctp_spi, told, connects>>

\* Mutant of Erroneous: only the last response counts.
ErroneousLast(seen, ok) == ~ok

\* subscription_error_seen_ after a response
Erroneous(seen, ok) == seen \/ ~ok

\* One response for each instrument, in the front's order; bIsLast is TRUE on
\* the last one.
OnRspSubMarketData(i, ok) ==
    LET error == Erroneous(ctp.subscription_error_seen, ok)
        last == front.subDue = {i}
    IN  /\ CallbackMayRun
        /\ i \in front.subDue
        /\ front' = [front EXCEPT !.subDue = @ \ {i}, !.refused = @ \/ ~ok,
                       !.streams = IF ok THEN @ \cup {i} ELSE @]
        /\ ctp' = [ctp EXCEPT !.subscription_error_seen = error,
                     !.subscription_succeeded = IF last THEN ~error ELSE @]
        /\ event' = IF last THEN SetEvent(event, "subscription") ELSE event
        /\ Refuse(~ok)
        /\ UNCHANGED <<ctp_api, ctp_spi, ctp_cb, told, connects>>

\* The first tick sets its event before the listener is told of it.
OnRtnDepthMarketData ==
    /\ CallbackMayRun
    /\ front.streams # {}
    /\ ctp' = [ctp EXCEPT !.has_received_first = TRUE]
    /\ event' = IF ctp.has_received_first THEN event ELSE SetEvent(event, "first")
    /\ ctp_cb' = "listener"
    /\ UNCHANGED <<front, ctp_api, ctp_spi, told, connects, refusals>>

\* listener_.OnTick returns.
CtpListenerReturns ==
    /\ ctp_cb = "listener"
    /\ told' = TRUE
    /\ ctp_cb' = "idle"
    /\ UNCHANGED <<front, ctp_api, ctp_spi, ctp, event, connects, refusals>>

\* What the library and the bridge do once the front has done its part
CtpAnswers ==
    \/ \E accepted \in BOOLEAN : OnFrontConnected(accepted)
    \/ OnFrontDisconnected
    \/ \E ok, accepted \in BOOLEAN : OnRspUserLogin(ok, accepted)
    \/ \E i \in Instruments, ok \in BOOLEAN : OnRspSubMarketData(i, ok)

CtpFinishes == FinishCallback \/ CtpListenerReturns

CtpNext == CtpAnswers \/ CtpFinishes \/ OnRtnDepthMarketData \/ LoseFront

-----------------------------------------------------------------------------
(* What the main thread does: the parts of MdApiSession::Start between its  *)
(* waits, and its destructor.                                               *)

\* CreateMdApi, the bridge, RegisterSpi, RegisterFront, Init
CtpCreate ==
    /\ ctp_api' = "live" /\ ctp_spi' = "live"
    /\ UNCHANGED <<front, ctp, event, ctp_cb, told, connects, refusals>>

CtpWait(e) ==
    /\ WaitReturns(event, e)
    /\ event' = AfterWait(event, e)
    /\ UNCHANGED <<front, ctp_api, ctp_spi, ctp, ctp_cb, told, connects, refusals>>

LoginIsGood == ctp.login_accepted /\ ctp.login_succeeded
SubscriptionIsGood == ctp.subscription_accepted /\ ctp.subscription_succeeded

\* api_->Release()
CtpRelease ==
    /\ ctp_cb = "idle"
    /\ ctp_api' = IF ctp_api = "live" THEN "released" ELSE ctp_api
    /\ front' = NewFront
    /\ UNCHANGED <<ctp_spi, ctp, event, ctp_cb, told, connects, refusals>>

\* The member spi_ goes after the body of the destructor.
CtpFreeBridge ==
    /\ ctp_spi' = IF ctp_spi = "live" THEN "freed" ELSE ctp_spi
    /\ UNCHANGED <<front, ctp_api, ctp, event, ctp_cb, told, connects, refusals>>
=============================================================================
