----------------------------- MODULE XtpSession -----------------------------
(***************************************************************************)
(* The index feed: XtpMarketDataSession.  Login and subscription are calls *)
(* of the library that answer at once; they are made by the main thread in *)
(* Start and, after a disconnection, by the library's thread, without a    *)
(* lock between the two.  The quote server and the library are external:   *)
(* the library delivers one callback at a time, does not log in again by   *)
(* itself, and its Release returns when no callback is running.            *)
(***************************************************************************)
EXTENDS Naturals

CONSTANTS
    Indices,           \* xtp.index_instruments, as records of ticker and suffix
    FallbackExchange,  \* xtp.exchange_id
    MaxDrops,          \* bound on the disconnections
    MaxDenials         \* bound on the refused logins and subscriptions

ASSUME XtpAssumption == MaxDrops \in Nat /\ MaxDenials \in Nat

VARIABLES
    xserver,      \* external: the connection and what it streams
    xtp_api,      \* api_: "none", "live", or "releasing" and then "released",
                  \* both with a null pointer
    xtp_spi,      \* spi_bridge_: "none", "live" or "freed"
    started,      \* started_
    first_received,  \* first_market_data_received_
    sdk,          \* what the library's thread is doing
    call,         \* how far each thread is in LoginAndSubscribe
    misused,      \* a freed bridge or the null api_ has been used
    drops, denials   \* history: the counters that the bounds are for

xtp_vars == <<xserver, xtp_api, xtp_spi, started, first_received, sdk, call,
              misused, drops, denials>>

-----------------------------------------------------------------------------
(* Which exchanges are subscribed.                                          *)

ParseExchangeId(value) ==
    CASE value \in {"sh", "sse"} -> "SH"
      [] value \in {"sz", "szse"} -> "SZ"
      [] value = "nq" -> "NQ"
      [] value = "hk" -> "HK"
      [] OTHER -> "UNKNOWN"

\* The exchange of NormalizeSubscriptionInstrument
ExchangeOf(instrument) ==
    CASE instrument.suffix = "XSHG" -> "SH"
      [] instrument.suffix = "XSHE" -> "SZ"
      [] OTHER -> ParseExchangeId(FallbackExchange)

\* The keys of grouped_tickers in SubscribeCurrentInstruments
Groups == {ExchangeOf(i) : i \in {j \in Indices : j.ticker # ""}} \ {"UNKNOWN"}

\* The map's order, that of the library's enumeration
Rank == [SH |-> 1, SZ |-> 2, NQ |-> 3, HK |-> 4]
IsNextGroup(g, done) ==
    /\ g \in Groups \ done
    /\ \A h \in Groups \ done : Rank[g] <= Rank[h]

-----------------------------------------------------------------------------
Threads == {"main", "sdk"}
NotCalling == [at |-> "idle", done |-> {}]
Calling(at, done) == [at |-> at, done |-> done]
NewServer == [login |-> FALSE, streams |-> {}, discDue |-> FALSE]

XtpInit ==
    /\ xserver = NewServer
    /\ xtp_api = "none" /\ xtp_spi = "none"
    /\ started = FALSE
    /\ first_received = FALSE
    /\ sdk = "idle"
    /\ call = [t \in Threads |-> NotCalling]
    /\ misused = FALSE
    /\ drops = 0 /\ denials = 0

XtpTypeOK ==
    /\ xserver \in [login : BOOLEAN, streams : SUBSET Groups, discDue : BOOLEAN]
    /\ xtp_api \in {"none", "live", "releasing", "released"}
    /\ xtp_spi \in {"none", "live", "freed"}
    /\ started \in BOOLEAN /\ first_received \in BOOLEAN /\ misused \in BOOLEAN
    /\ sdk \in {"idle", "tick", "listener", "recover"}
    /\ call \in [Threads -> [at : {"idle", "login", "subscribe", "succeeded", "failed"},
                             done : SUBSET Groups]]
    /\ call["sdk"].at \in {"idle", "login", "subscribe"}
    /\ drops \in 0 .. MaxDrops /\ denials \in 0 .. MaxDenials

-----------------------------------------------------------------------------
(* LoginAndSubscribe, by thread t *)

\* Mutant of Returns: the library's thread, too, leaves a result behind.
ReturnsToBoth(t, result) ==
    /\ call' = [call EXCEPT ![t] = Calling(IF result THEN "succeeded" ELSE "failed", {})]
    /\ sdk' = IF t = "sdk" THEN "idle" ELSE sdk

\* The call returns: the main thread goes on in Start, the library's thread
\* leaves the callback, whatever the result.
Returns(t, result) ==
    /\ call' = [call EXCEPT ![t] =
                  IF t = "sdk" THEN NotCalling
                  ELSE Calling(IF result THEN "succeeded" ELSE "failed", {})]
    /\ sdk' = IF t = "sdk" THEN "idle" ELSE sdk

\* External: a call is turned down.  A login is also turned down, at no cost,
\* when there is one already.
Denied(free) ==
    /\ free \/ denials < MaxDenials
    /\ denials' = IF denials < MaxDenials THEN denials + 1 ELSE denials

XtpLogin(t) ==
    /\ call[t].at = "login" /\ xtp_api = "live"
    /\ \/ /\ xserver' = [xserver EXCEPT !.login = TRUE]
          /\ \/ Groups # {} /\ call' = [call EXCEPT ![t].at = "subscribe"] /\ UNCHANGED sdk
             \/ Groups = {} /\ Returns(t, FALSE)
          /\ UNCHANGED denials
       \/ /\ Denied(xserver.login) /\ Returns(t, FALSE)
          /\ UNCHANGED xserver
    /\ UNCHANGED <<xtp_api, xtp_spi, started, first_received, misused, drops>>

\* One SubscribeMarketData per exchange; a failure leaves the earlier ones
\* subscribed.  Without a login it fails.
XtpSubscribe(t, g) ==
    LET done == call[t].done \cup {g}
    IN  /\ call[t].at = "subscribe" /\ xtp_api = "live"
        /\ IsNextGroup(g, call[t].done)
        /\ \/ /\ xserver.login
              /\ xserver' = [xserver EXCEPT !.streams = @ \cup {g}]
              /\ \/ done # Groups /\ call' = [call EXCEPT ![t].done = done] /\ UNCHANGED sdk
                 \/ done = Groups /\ Returns(t, TRUE)
              /\ UNCHANGED denials
           \/ /\ ~xserver.login /\ Returns(t, FALSE)
              /\ UNCHANGED <<xserver, denials>>
           \/ /\ xserver.login /\ Denied(FALSE) /\ Returns(t, FALSE)
              /\ UNCHANGED xserver
        /\ UNCHANGED <<xtp_api, xtp_spi, started, first_received, misused, drops>>

\* The library's thread is in LoginAndSubscribe when Stop has made api_ null:
\* the next call is one through a null pointer.
XtpNullCall ==
    /\ call["sdk"].at # "idle" /\ xtp_api = "releasing"
    /\ misused' = TRUE
    /\ UNCHANGED <<xserver, xtp_api, xtp_spi, started, first_received, sdk, call,
                   drops, denials>>

-----------------------------------------------------------------------------
(* Callbacks of the library's thread.  A callback on a freed bridge either   *)
(* goes on as on a live one or ends the process (DualSession!Crash).         *)

SdkIsFree == xtp_api \in {"live", "releasing"} /\ sdk = "idle"
UseBridge == misused' = (misused \/ xtp_spi = "freed")

\* External: the connection is lost.
XtpDrop ==
    /\ xserver.login /\ xtp_api = "live"
    /\ drops < MaxDrops
    /\ drops' = drops + 1
    /\ xserver' = [NewServer EXCEPT !.discDue = TRUE]
    /\ UNCHANGED <<xtp_api, xtp_spi, started, first_received, sdk, call, misused, denials>>

OnDisconnected ==
    /\ SdkIsFree
    /\ xserver.discDue
    /\ xserver' = [xserver EXCEPT !.discDue = FALSE]
    /\ UseBridge
    /\ \/ started /\ sdk' = "recover" /\ call' = [call EXCEPT !["sdk"] = Calling("login", {})]
       \/ ~started /\ UNCHANGED <<sdk, call>>
    /\ UNCHANGED <<xtp_api, xtp_spi, started, first_received, drops, denials>>

\* Mutant of XtpRecoverySteps: the recovery logs in and leaves it at that.
RecoveryLogsIn ==
    /\ call["sdk"].at = "login" /\ XtpLogin("sdk")
    \/ /\ call["sdk"].at = "subscribe" /\ Returns("sdk", TRUE)
       /\ UNCHANGED <<xserver, xtp_api, xtp_spi, started, first_received, misused,
                      drops, denials>>

\* LoginAndSubscribe, called by OnDisconnected
XtpRecoverySteps == XtpLogin("sdk") \/ \E g \in Groups : XtpSubscribe("sdk", g)

\* The flag and the condition variable come before the listener.
OnDepthMarketData ==
    /\ SdkIsFree
    /\ xserver.streams # {}
    /\ UseBridge
    /\ first_received' = TRUE
    /\ sdk' = "tick"
    /\ UNCHANGED <<xserver, xtp_api, xtp_spi, started, call, drops, denials>>

\* session_.listener_.OnTick(tick): one more access to the bridge
XtpTellListener ==
    /\ sdk = "tick"
    /\ UseBridge
    /\ sdk' = "listener"
    /\ UNCHANGED <<xserver, xtp_api, xtp_spi, started, first_received, call, drops, denials>>

XtpListenerReturns ==
    /\ sdk = "listener"
    /\ sdk' = "idle"
    /\ UNCHANGED <<xserver, xtp_api, xtp_spi, started, first_received, call, misused,
                   drops, denials>>

XtpThread ==
    \/ OnDisconnected \/ XtpRecoverySteps \/ XtpNullCall
    \/ XtpTellListener \/ XtpListenerReturns

XtpNext == XtpThread \/ OnDepthMarketData \/ XtpDrop

-----------------------------------------------------------------------------
(* The main thread's part: Start and Stop.                                  *)

\* Start up to ConfigureAndLogin: api, bridge, RegisterSpi, started_
XtpCreate ==
    /\ xtp_api' = "live" /\ xtp_spi' = "live"
    /\ started' = TRUE /\ first_received' = FALSE
    /\ UNCHANGED <<xserver, sdk, call, misused, drops, denials>>

\* ConfigureAndLogin: SetConfigFile succeeds or fails.
XtpConfigure ==
    /\ \E set \in BOOLEAN :
         call' = [call EXCEPT !["main"] = Calling(IF set THEN "login" ELSE "failed", {})]
    /\ UNCHANGED <<xserver, xtp_api, xtp_spi, started, first_received, sdk, misused,
                   drops, denials>>

XtpStartSteps == XtpLogin("main") \/ \E g \in Groups : XtpSubscribe("main", g)

\* The result of Start
XtpStartReturns(result) ==
    /\ call["main"].at = IF result THEN "succeeded" ELSE "failed"
    /\ call' = [call EXCEPT !["main"] = NotCalling]
    /\ started' = result
    /\ UNCHANGED <<xserver, xtp_api, xtp_spi, first_received, sdk, misused, drops, denials>>

\* Stop: started_ = false and, when there is an api, Logout.  Ticks that the
\* library has received by then may still be delivered.
XtpLogout ==
    /\ started' = FALSE
    /\ xserver' = [xserver EXCEPT !.login = FALSE]
    /\ UNCHANGED <<xtp_api, xtp_spi, first_received, sdk, call, misused, drops, denials>>

\* spi_bridge_.reset()
XtpFreeBridge ==
    /\ xtp_spi' = IF xtp_spi = "live" THEN "freed" ELSE xtp_spi
    /\ UNCHANGED <<xserver, xtp_api, started, first_received, sdk, call, misused,
                   drops, denials>>

\* api_.reset() makes the pointer null ...
XtpForgetApi ==
    /\ xtp_api' = IF xtp_api = "live" THEN "releasing" ELSE xtp_api
    /\ UNCHANGED <<xserver, xtp_spi, started, first_received, sdk, call, misused,
                   drops, denials>>

\* ... and then the adapter's destructor calls Release.
XtpRelease ==
    /\ sdk = "idle"
    /\ xtp_api' = IF xtp_api = "releasing" THEN "released" ELSE xtp_api
    /\ UNCHANGED <<xserver, xtp_spi, started, first_received, sdk, call, misused,
                   drops, denials>>
=============================================================================
