------------------------- MODULE DualSessionProofs -------------------------
(***************************************************************************)
(* The sessions for every set of instruments, every list of indices and    *)
(* every number of connections, refusals, disconnections and denials: the  *)
(* types, the events that Start waits for, who may call a bridge, and what *)
(* is known when the main loop begins.                                     *)
(***************************************************************************)
EXTENDS DualSession, TLAPS

\* What the main thread does to the futures half
CtpMain ==
    \/ CtpCreate \/ CtpRelease \/ CtpFreeBridge
    \/ \E e \in Events : CtpWait(e)

\* What the main thread does to the index half
XtpMain ==
    \/ XtpCreate \/ XtpConfigure \/ XtpStartSteps
    \/ \E result \in BOOLEAN : XtpStartReturns(result)
    \/ XtpLogout \/ XtpFreeBridge \/ XtpForgetApi \/ XtpRelease

USE DEF SetEvent, ResetEvent, WaitReturns, AfterWait

-----------------------------------------------------------------------------
FlagNames == {"login_accepted", "login_succeeded", "subscription_accepted",
              "subscription_error_seen", "subscription_succeeded", "has_received_first"}

(* The names of the bridge's flags *)
LEMMA FlagsDomain == DOMAIN NewFlags = FlagNames
  BY DEF NewFlags, FlagNames

(* Each half is initialised with its types. *)
LEMMA CtpInitTypes == CtpInit => CtpTypeOK
<1> SUFFICES ASSUME CtpInit PROVE CtpTypeOK
  OBVIOUS
<1>1. front \in [link : {"down", "up", "lost"}, loginDue : BOOLEAN,
                  subDue : SUBSET Instruments, streams : SUBSET Instruments,
                  refused : BOOLEAN]
  BY DEF CtpInit, NewFront
<1>2. ctp \in [DOMAIN NewFlags -> BOOLEAN]
  <2>1. DOMAIN NewFlags = FlagNames
    BY FlagsDomain
  <2>2. \A x \in FlagNames : NewFlags[x] \in BOOLEAN
    <3>1. /\ NewFlags["login_accepted"] = TRUE /\ NewFlags["login_succeeded"] = FALSE
          /\ NewFlags["subscription_accepted"] = TRUE
          /\ NewFlags["subscription_error_seen"] = FALSE
          /\ NewFlags["subscription_succeeded"] = FALSE
          /\ NewFlags["has_received_first"] = FALSE
      BY DEF NewFlags
    <3>2. QED
      BY <3>1, Zenon DEF FlagNames
  <2>3. NewFlags = [x \in FlagNames |-> NewFlags[x]]
    BY DEF NewFlags, FlagNames
  <2>4. NewFlags \in [FlagNames -> BOOLEAN]
    BY <2>2, <2>3, Zenon
  <2>5. QED
    BY <2>1, <2>4 DEF CtpInit
<1>3. event \in [Events -> BOOLEAN]
  BY DEF CtpInit
<1>4. connects \in 0 .. MaxConnects /\ refusals \in 0 .. MaxRefusals
  BY CtpAssumption DEF CtpInit
<1>5. ctp_api = "none" /\ ctp_spi = "none" /\ ctp_cb = "idle" /\ told = FALSE
  BY DEF CtpInit
<1>6. QED
  BY <1>1, <1>2, <1>3, <1>4, <1>5, Zenon DEF CtpTypeOK

(* The index half is initialised with its types. *)
LEMMA XtpInitTypes == XtpInit => XtpTypeOK
<1> SUFFICES ASSUME XtpInit PROVE XtpTypeOK
  OBVIOUS
<1>1. xserver \in [login : BOOLEAN, streams : SUBSET Groups, discDue : BOOLEAN]
  BY DEF XtpInit, NewServer
<1>2. call \in [Threads -> [at : {"idle", "login", "subscribe", "succeeded", "failed"},
                            done : SUBSET Groups]]
  BY DEF XtpInit, NotCalling
<1>3. call["sdk"].at = "idle"
  BY DEF XtpInit, NotCalling, Threads
<1>4. drops \in 0 .. MaxDrops /\ denials \in 0 .. MaxDenials
  BY XtpAssumption DEF XtpInit
<1>5. /\ xtp_api = "none" /\ xtp_spi = "none" /\ sdk = "idle"
      /\ started = FALSE /\ first_received = FALSE /\ misused = FALSE
  BY DEF XtpInit
<1>6. QED
  BY <1>1, <1>2, <1>3, <1>4, <1>5, Zenon DEF XtpTypeOK

\* The types of a front and of the flags, for short
FrontType == [link : {"down", "up", "lost"}, loginDue : BOOLEAN,
              subDue : SUBSET Instruments, streams : SUBSET Instruments,
              refused : BOOLEAN]

(* The futures half keeps its types. *)
LEMMA CtpTypes == CtpTypeOK /\ (CtpNext \/ CtpMain) => CtpTypeOK'
<1> SUFFICES ASSUME CtpTypeOK, CtpNext \/ CtpMain PROVE CtpTypeOK'
  OBVIOUS
<1> DEFINE FlagType == [DOMAIN NewFlags -> BOOLEAN]
<1>1. /\ front \in FrontType /\ ctp \in FlagType /\ event \in [Events -> BOOLEAN]
      /\ connects \in Nat /\ refusals \in Nat
  BY CtpAssumption DEF CtpTypeOK, FrontType
<1>2. DOMAIN NewFlags = {"login_accepted", "login_succeeded", "subscription_accepted",
                         "subscription_error_seen", "subscription_succeeded",
                         "has_received_first"}
  BY FlagsDomain DEF FlagNames
<1>3. NewFront \in FrontType /\ [NewFront EXCEPT !.link = "up"] \in FrontType
      /\ [NewFront EXCEPT !.link = "lost"] \in FrontType
  BY DEF NewFront, FrontType
<1>4. ASSUME NEW accepted \in BOOLEAN, OnFrontConnected(accepted) PROVE CtpTypeOK'
  <2>1. front' \in FrontType
    BY <1>3, <1>4 DEF OnFrontConnected, BeginLoginRequest, FrontType
  <2>2. ctp' \in FlagType /\ event' \in [Events -> BOOLEAN]
    BY <1>1, <1>2, <1>4 DEF OnFrontConnected, BeginLoginRequest, Events
  <2>3. connects' \in 0 .. MaxConnects /\ refusals' \in 0 .. MaxRefusals
    BY <1>1, <1>4, CtpAssumption DEF OnFrontConnected, BeginLoginRequest, Refuse, CtpTypeOK
  <2>4. UNCHANGED <<ctp_api, ctp_spi, told>> /\ ctp_cb' = "setConnected"
    BY <1>4 DEF OnFrontConnected
  <2>5. QED
    BY <2>1, <2>2, <2>3, <2>4, Zenon DEF CtpTypeOK, FrontType
<1>5. CASE FinishCallback
  <2>1. event' \in [Events -> BOOLEAN]
    BY <1>1, <1>5 DEF FinishCallback, Events
  <2>2. UNCHANGED <<front, ctp_api, ctp_spi, ctp, told, connects, refusals>> /\ ctp_cb' = "idle"
    BY <1>5 DEF FinishCallback
  <2>3. QED
    BY <2>1, <2>2, Zenon DEF CtpTypeOK
<1>6. CASE LoseFront
  BY <1>3, <1>6, Zenon DEF LoseFront, CtpTypeOK, FrontType
<1>7. CASE OnFrontDisconnected
  <2>1. front' \in FrontType /\ ctp' \in FlagType
    BY <1>1, <1>2, <1>3, <1>7 DEF OnFrontDisconnected
  <2>2. UNCHANGED <<ctp_api, ctp_spi, event, ctp_cb, told, connects, refusals>>
    BY <1>7 DEF OnFrontDisconnected
  <2>3. QED
    BY <2>1, <2>2, Zenon DEF CtpTypeOK, FrontType
<1>8. ASSUME NEW ok \in BOOLEAN, NEW accepted \in BOOLEAN, OnRspUserLogin(ok, accepted)
      PROVE  CtpTypeOK'
  <2>1. front' \in FrontType
    BY <1>1, <1>8 DEF OnRspUserLogin, BeginSubscriptionRequest, FrontType
  <2>2. ctp' \in FlagType
    BY <1>1, <1>2, <1>8 DEF OnRspUserLogin, BeginSubscriptionRequest
  <2>3. event' \in [Events -> BOOLEAN]
    BY <1>1, <1>8 DEF OnRspUserLogin, BeginSubscriptionRequest, Events
  <2>4. refusals' \in 0 .. MaxRefusals
    BY <1>1, <1>8, CtpAssumption
    DEF OnRspUserLogin, BeginSubscriptionRequest, Refuse, CtpTypeOK
  <2>5. UNCHANGED <<ctp_api, ctp_spi, told, connects>> /\ ctp_cb' = "setLogin"
    BY <1>8 DEF OnRspUserLogin
  <2>6. QED
    BY <2>1, <2>2, <2>3, <2>4, <2>5, Zenon DEF CtpTypeOK, FrontType
<1>9. ASSUME NEW i \in Instruments, NEW ok \in BOOLEAN, OnRspSubMarketData(i, ok)
      PROVE  CtpTypeOK'
  <2>1. front' \in FrontType
    BY <1>1, <1>9 DEF OnRspSubMarketData, FrontType
  <2>2. ctp' \in FlagType /\ event' \in [Events -> BOOLEAN]
    BY <1>1, <1>2, <1>9 DEF OnRspSubMarketData, Erroneous, Events
  <2>3. refusals' \in 0 .. MaxRefusals
    BY <1>1, <1>9, CtpAssumption DEF OnRspSubMarketData, Refuse, CtpTypeOK
  <2>4. UNCHANGED <<ctp_api, ctp_spi, ctp_cb, told, connects>>
    BY <1>9 DEF OnRspSubMarketData
  <2>5. QED
    BY <2>1, <2>2, <2>3, <2>4, Zenon DEF CtpTypeOK, FrontType
<1>10. CASE OnRtnDepthMarketData
  <2>1. ctp' \in FlagType /\ event' \in [Events -> BOOLEAN]
    BY <1>1, <1>2, <1>10 DEF OnRtnDepthMarketData, Events
  <2>2. UNCHANGED <<front, ctp_api, ctp_spi, told, connects, refusals>> /\ ctp_cb' = "listener"
    BY <1>10 DEF OnRtnDepthMarketData
  <2>3. QED
    BY <2>1, <2>2, Zenon DEF CtpTypeOK
<1>11. CASE CtpListenerReturns
  <2>1. /\ UNCHANGED <<front, ctp_api, ctp_spi, ctp, event, connects, refusals>>
        /\ ctp_cb' = "idle" /\ told' = TRUE
    BY <1>11 DEF CtpListenerReturns
  <2>2. QED
    BY <2>1, Zenon DEF CtpTypeOK
<1>12. CASE CtpMain
  <2>1. CASE CtpCreate
    BY <2>1, Zenon DEF CtpCreate, CtpTypeOK
  <2>2. ASSUME NEW e \in Events, CtpWait(e) PROVE CtpTypeOK'
    <3>1. event' \in [Events -> BOOLEAN]
      BY <1>1, <2>2 DEF CtpWait
    <3>2. UNCHANGED <<front, ctp_api, ctp_spi, ctp, ctp_cb, told, connects, refusals>>
      BY <2>2 DEF CtpWait
    <3>3. QED
      BY <3>1, <3>2, Zenon DEF CtpTypeOK
  <2>3. CASE CtpRelease
    <3>1. front' \in FrontType /\ ctp_api' \in {"none", "live", "released"}
      BY <1>3, <2>3 DEF CtpRelease, CtpTypeOK
    <3>2. UNCHANGED <<ctp_spi, ctp, event, ctp_cb, told, connects, refusals>>
      BY <2>3 DEF CtpRelease
    <3>3. QED
      BY <3>1, <3>2, Zenon DEF CtpTypeOK, FrontType
  <2>4. CASE CtpFreeBridge
    <3>1. ctp_spi' \in {"none", "live", "freed"}
      BY <2>4 DEF CtpFreeBridge, CtpTypeOK
    <3>2. UNCHANGED <<front, ctp_api, ctp, event, ctp_cb, told, connects, refusals>>
      BY <2>4 DEF CtpFreeBridge
    <3>3. QED
      BY <3>1, <3>2, Zenon DEF CtpTypeOK
  <2>5. QED
    BY <1>12, <2>1, <2>2, <2>3, <2>4 DEF CtpMain
<1>13. QED
  BY <1>4, <1>5, <1>6, <1>7, <1>8, <1>9, <1>10, <1>11, <1>12
  DEF CtpNext, CtpAnswers, CtpFinishes

CallType == [at : {"idle", "login", "subscribe", "succeeded", "failed"}, done : SUBSET Groups]
ServerType == [login : BOOLEAN, streams : SUBSET Groups, discDue : BOOLEAN]

(* What LoginAndSubscribe may leave in a thread's call. *)
LEMMA CallTypes ==
  ASSUME call \in [Threads -> CallType], call["sdk"].at \in {"idle", "login", "subscribe"},
         NEW t \in Threads, NEW c \in CallType,
         t = "sdk" => c.at \in {"idle", "login", "subscribe"},
         call' = [call EXCEPT ![t] = c]
  PROVE  /\ call' \in [Threads -> CallType]
         /\ call'["sdk"].at \in {"idle", "login", "subscribe"}
  BY DEF Threads

(* A call that returns leaves a result with the main thread only. *)
LEMMA ReturnsTypes ==
  ASSUME XtpTypeOK, NEW t \in Threads, NEW result \in BOOLEAN, Returns(t, result)
  PROVE  /\ call' \in [Threads -> CallType]
         /\ call'["sdk"].at \in {"idle", "login", "subscribe"}
         /\ sdk' \in {"idle", "tick", "listener", "recover"}
<1> DEFINE c == IF t = "sdk" THEN NotCalling
                ELSE Calling(IF result THEN "succeeded" ELSE "failed", {})
<1>1. c \in CallType /\ (t = "sdk" => c.at = "idle")
  BY DEF NotCalling, Calling, CallType
<1>2. call' = [call EXCEPT ![t] = c] /\ sdk' \in {sdk, "idle"}
  BY DEF Returns
<1>3. call \in [Threads -> CallType] /\ call["sdk"].at \in {"idle", "login", "subscribe"}
      /\ sdk \in {"idle", "tick", "listener", "recover"}
  BY DEF XtpTypeOK, CallType
<1> HIDE DEF c
<1>4. QED
  BY <1>1, <1>2, <1>3, CallTypes

(* A login keeps the types, in either thread. *)
LEMMA LoginTypes ==
  ASSUME XtpTypeOK, NEW t \in Threads, XtpLogin(t)
  PROVE  XtpTypeOK'
<1>1. UNCHANGED <<xtp_api, xtp_spi, started, first_received, misused, drops>>
  BY DEF XtpLogin
<1>2. xserver \in ServerType /\ call \in [Threads -> CallType] /\ denials \in Nat
      /\ call["sdk"].at \in {"idle", "login", "subscribe"}
  BY XtpAssumption DEF XtpTypeOK, ServerType, CallType
<1>3. xserver' \in ServerType
  <2>1. xserver' = xserver \/ xserver' = [xserver EXCEPT !.login = TRUE]
    BY DEF XtpLogin
  <2>2. QED
    BY <1>2, <2>1 DEF ServerType
<1>4. denials' \in 0 .. MaxDenials
  <2>1. \/ denials' = denials
        \/ denials' = IF denials < MaxDenials THEN denials + 1 ELSE denials
    BY DEF XtpLogin, Denied
  <2>2. denials \in 0 .. MaxDenials
    BY DEF XtpTypeOK
  <2>3. QED
    BY <2>1, <2>2, XtpAssumption
<1>5. /\ call' \in [Threads -> CallType]
      /\ call'["sdk"].at \in {"idle", "login", "subscribe"}
      /\ sdk' \in {"idle", "tick", "listener", "recover"}
  <2>1. CASE Returns(t, FALSE)
    BY <2>1, ReturnsTypes
  <2>2. CASE call' = [call EXCEPT ![t].at = "subscribe"] /\ UNCHANGED sdk
    <3>1. call' = [call EXCEPT ![t] = [call[t] EXCEPT !.at = "subscribe"]]
      BY <1>2, <2>2
    <3>2. [call[t] EXCEPT !.at = "subscribe"] \in CallType
          /\ [call[t] EXCEPT !.at = "subscribe"].at = "subscribe"
      BY <1>2 DEF CallType
    <3>3. sdk \in {"idle", "tick", "listener", "recover"}
      BY DEF XtpTypeOK
    <3>4. QED
      BY <1>2, <2>2, <3>1, <3>2, <3>3, CallTypes
  <2>3. QED
    BY <2>1, <2>2 DEF XtpLogin
<1>6. QED
  BY <1>1, <1>3, <1>4, <1>5, Zenon DEF XtpTypeOK, ServerType, CallType

(* So does a subscription. *)
LEMMA SubscribeTypes ==
  ASSUME XtpTypeOK, NEW t \in Threads, NEW g \in Groups, XtpSubscribe(t, g)
  PROVE  XtpTypeOK'
<1>1. UNCHANGED <<xtp_api, xtp_spi, started, first_received, misused, drops>>
  BY DEF XtpSubscribe
<1>2. xserver \in ServerType /\ call \in [Threads -> CallType] /\ denials \in Nat
      /\ call["sdk"].at \in {"idle", "login", "subscribe"}
  BY XtpAssumption DEF XtpTypeOK, ServerType, CallType
<1>3. xserver' \in ServerType
  <2>1. xserver' = xserver \/ xserver' = [xserver EXCEPT !.streams = xserver.streams \cup {g}]
    BY DEF XtpSubscribe
  <2>2. QED
    BY <1>2, <2>1 DEF ServerType
<1>4. denials' \in 0 .. MaxDenials
  <2>1. \/ denials' = denials
        \/ denials' = IF denials < MaxDenials THEN denials + 1 ELSE denials
    BY DEF XtpSubscribe, Denied
  <2>2. denials \in 0 .. MaxDenials
    BY DEF XtpTypeOK
  <2>3. QED
    BY <2>1, <2>2, XtpAssumption
<1>5. /\ call' \in [Threads -> CallType]
      /\ call'["sdk"].at \in {"idle", "login", "subscribe"}
      /\ sdk' \in {"idle", "tick", "listener", "recover"}
  <2>1. CASE Returns(t, FALSE) \/ Returns(t, TRUE)
    BY <2>1, ReturnsTypes
  <2>2. CASE call' = [call EXCEPT ![t].done = call[t].done \cup {g}] /\ UNCHANGED sdk
    <3>1. call' = [call EXCEPT ![t] = [call[t] EXCEPT !.done = call[t].done \cup {g}]]
      BY <1>2, <2>2
    <3>2. /\ [call[t] EXCEPT !.done = call[t].done \cup {g}] \in CallType
          /\ [call[t] EXCEPT !.done = call[t].done \cup {g}].at = "subscribe"
      BY <1>2 DEF CallType, XtpSubscribe
    <3>3. sdk \in {"idle", "tick", "listener", "recover"}
      BY DEF XtpTypeOK
    <3>4. QED
      BY <1>2, <2>2, <3>1, <3>2, <3>3, CallTypes
  <2>3. QED
    BY <2>1, <2>2 DEF XtpSubscribe
<1>6. QED
  BY <1>1, <1>3, <1>4, <1>5, Zenon DEF XtpTypeOK, ServerType, CallType

(* The index half keeps its types. *)
LEMMA XtpTypes == XtpTypeOK /\ (XtpNext \/ XtpMain) => XtpTypeOK'
<1> SUFFICES ASSUME XtpTypeOK, XtpNext \/ XtpMain PROVE XtpTypeOK'
  OBVIOUS
<1>1. xserver \in ServerType /\ call \in [Threads -> CallType] /\ drops \in Nat
      /\ call["sdk"].at \in {"idle", "login", "subscribe"}
  BY XtpAssumption DEF XtpTypeOK, ServerType, CallType
<1>2. CASE XtpRecoverySteps \/ XtpStartSteps
  <2>1. "sdk" \in Threads /\ "main" \in Threads
    BY DEF Threads
  <2>2. \E t \in Threads : XtpLogin(t) \/ \E g \in Groups : XtpSubscribe(t, g)
    BY <1>2, <2>1, Zenon DEF XtpRecoverySteps, XtpStartSteps
  <2>3. QED
    BY <2>2, LoginTypes, SubscribeTypes
<1>3. CASE XtpNullCall
  BY <1>3, Zenon DEF XtpNullCall, XtpTypeOK
<1>4. CASE OnDisconnected
  <2>1. xserver' \in ServerType /\ misused' \in BOOLEAN
    BY <1>1, <1>4 DEF OnDisconnected, UseBridge, ServerType
  <2>2. /\ call' \in [Threads -> CallType]
        /\ call'["sdk"].at \in {"idle", "login", "subscribe"}
        /\ sdk' \in {"idle", "tick", "listener", "recover"}
    <3>1. Calling("login", {}) \in CallType /\ Calling("login", {}).at = "login"
      BY DEF Calling, CallType
    <3>2. "sdk" \in Threads
      BY DEF Threads
    <3>3. CASE sdk' = "recover" /\ call' = [call EXCEPT !["sdk"] = Calling("login", {})]
      BY <1>1, <3>1, <3>2, <3>3, CallTypes
    <3>4. CASE UNCHANGED <<sdk, call>>
      BY <1>1, <3>4 DEF XtpTypeOK
    <3>5. QED
      BY <1>4, <3>3, <3>4 DEF OnDisconnected
  <2>3. UNCHANGED <<xtp_api, xtp_spi, started, first_received, drops, denials>>
    BY <1>4 DEF OnDisconnected
  <2>4. QED
    BY <2>1, <2>2, <2>3, Zenon DEF XtpTypeOK, ServerType, CallType
<1>5. CASE OnDepthMarketData \/ XtpTellListener \/ XtpListenerReturns
  <2>1. /\ UNCHANGED <<xserver, xtp_api, xtp_spi, started, call, drops, denials>>
        /\ first_received' \in {TRUE, first_received}
        /\ sdk' \in {"idle", "tick", "listener"}
    BY <1>5 DEF OnDepthMarketData, XtpTellListener, XtpListenerReturns
  <2>2. misused' \in BOOLEAN
    BY <1>5 DEF OnDepthMarketData, XtpTellListener, XtpListenerReturns, UseBridge, XtpTypeOK
  <2>3. QED
    BY <2>1, <2>2, Zenon DEF XtpTypeOK
<1>6. CASE XtpDrop
  <2>1. xserver' \in ServerType
    BY <1>1, <1>6 DEF XtpDrop, NewServer, ServerType
  <2>2. drops' \in 0 .. MaxDrops
    BY <1>1, <1>6, XtpAssumption DEF XtpDrop
  <2>3. UNCHANGED <<xtp_api, xtp_spi, started, first_received, sdk, call, misused, denials>>
    BY <1>6 DEF XtpDrop
  <2>4. QED
    BY <2>1, <2>2, <2>3, Zenon DEF XtpTypeOK, ServerType
<1>7. CASE XtpCreate
  BY <1>7, Zenon DEF XtpCreate, XtpTypeOK
<1>8. CASE XtpConfigure
  <2>1. PICK set \in BOOLEAN :
          call' = [call EXCEPT !["main"] = Calling(IF set THEN "login" ELSE "failed", {})]
    BY <1>8 DEF XtpConfigure
  <2>2. Calling(IF set THEN "login" ELSE "failed", {}) \in CallType /\ "main" \in Threads
    BY DEF Calling, CallType, Threads
  <2>3. /\ call' \in [Threads -> CallType]
        /\ call'["sdk"].at \in {"idle", "login", "subscribe"}
    BY <1>1, <2>1, <2>2, CallTypes
  <2>4. UNCHANGED <<xserver, xtp_api, xtp_spi, started, first_received, sdk, misused,
                    drops, denials>>
    BY <1>8 DEF XtpConfigure
  <2>5. QED
    BY <2>3, <2>4, Zenon DEF XtpTypeOK, CallType
<1>9. ASSUME NEW result \in BOOLEAN, XtpStartReturns(result) PROVE XtpTypeOK'
  <2>1. NotCalling \in CallType /\ "main" \in Threads
    BY DEF NotCalling, CallType, Threads
  <2>2. /\ call' \in [Threads -> CallType]
        /\ call'["sdk"].at \in {"idle", "login", "subscribe"}
    <3>1. call' = [call EXCEPT !["main"] = NotCalling] /\ "main" # "sdk"
      BY <1>9 DEF XtpStartReturns
    <3>2. QED
      BY <1>1, <2>1, <3>1, CallTypes
  <2>3. UNCHANGED <<xserver, xtp_api, xtp_spi, first_received, sdk, misused, drops, denials>>
        /\ started' = result
    BY <1>9 DEF XtpStartReturns
  <2>4. QED
    BY <2>2, <2>3, Zenon DEF XtpTypeOK, CallType
<1>10. CASE XtpLogout
  <2>1. xserver' \in ServerType /\ started' \in BOOLEAN
    BY <1>1, <1>10 DEF XtpLogout, ServerType, NewServer, XtpTypeOK
  <2>2. UNCHANGED <<xtp_api, xtp_spi, first_received, sdk, call, misused, drops, denials>>
    BY <1>10 DEF XtpLogout
  <2>3. QED
    BY <2>1, <2>2, Zenon DEF XtpTypeOK, ServerType
<1>11. CASE XtpFreeBridge \/ XtpForgetApi \/ XtpRelease
  <2>1. /\ xtp_api' \in {"none", "live", "releasing", "released"}
        /\ xtp_spi' \in {"none", "live", "freed"}
    BY <1>11 DEF XtpFreeBridge, XtpForgetApi, XtpRelease, XtpTypeOK
  <2>2. UNCHANGED <<xserver, started, first_received, sdk, call, misused, drops, denials>>
    BY <1>11 DEF XtpFreeBridge, XtpForgetApi, XtpRelease
  <2>3. QED
    BY <2>1, <2>2, Zenon DEF XtpTypeOK
<1>12. QED
  BY <1>2, <1>3, <1>4, <1>5, <1>6, <1>7, <1>8, <1>9, <1>10, <1>11
  DEF XtpNext, XtpThread, XtpMain

-----------------------------------------------------------------------------
(* The main thread moves one half at most, by one of its operations on it. *)
LEMMA MainMovesHalves ==
  ASSUME MainStep \/ FirstTickTimesOut \/ Signal \/ Crash
  PROVE  /\ CtpMain \/ UNCHANGED ctp_vars
         /\ XtpMain \/ UNCHANGED xtp_vars
<1> USE DEF Go, Leave
<1>1. CASE Create \/ CheckLogin \/ CheckSubscription \/ WaitForFirstIndex \/ Exit
           \/ FirstTickTimesOut \/ Signal \/ Crash
  BY <1>1
  DEF Create, CheckLogin, CheckSubscription, WaitForFirstIndex, Exit, FirstTickTimesOut,
      Signal, Crash
<1>2. CASE StartCtp
  BY <1>2 DEF StartCtp, CtpMain
<1>3. CASE WaitForConnect \/ WaitForLogin \/ WaitForSubscription \/ WaitForFirstFuture
  <2>1. UNCHANGED xtp_vars /\ \E e \in Events : CtpWait(e)
    BY <1>3, Zenon
    DEF WaitForConnect, WaitForLogin, WaitForSubscription, WaitForFirstFuture, Events
  <2>2. QED
    BY <2>1 DEF CtpMain
<1>4. CASE StartXtp
  BY <1>4 DEF StartXtp, XtpMain
<1>5. CASE ConfigureXtp \/ LogInToXtp
  BY <1>5 DEF ConfigureXtp, LogInToXtp, XtpMain
<1>6. CASE XtpStarted
  BY <1>6 DEF XtpStarted, XtpMain
<1>7. CASE TeardownStep
  <2>1. \/ (XtpLogout \/ XtpFreeBridge \/ XtpForgetApi \/ XtpRelease) /\ UNCHANGED ctp_vars
        \/ (CtpRelease \/ CtpFreeBridge) /\ UNCHANGED xtp_vars
    BY <1>7 DEF TeardownStep
  <2>2. QED
    BY <2>1 DEF XtpMain, CtpMain
<1>8. QED
  BY <1>1, <1>2, <1>3, <1>4, <1>5, <1>6, <1>7 DEF MainStep

(* Every step moves each half by one of that half's own operations or not. *)
LEMMA StepOfHalves ==
  ASSUME [Next]_vars
  PROVE  /\ CtpNext \/ CtpMain \/ UNCHANGED ctp_vars
         /\ XtpNext \/ XtpMain \/ UNCHANGED xtp_vars
  BY MainMovesHalves DEF Next, vars

TeardownSteps == {"xLogout", "xFree", "xForget", "xRelease", "cRelease", "cFree"}

MainTypeOK ==
    /\ mode \in {"none", "ctp", "xtp", "dual", "throws"}
    /\ pc \in {"begin", "cCreate", "cConnected", "cLogin", "cLoginCheck", "cSub",
               "cSubCheck", "xCreate", "xConfigure", "xLogin", "first", "firstIndex",
               "loop", "stop", "exited", "crashed"}
    /\ teardown \in Seq(TeardownSteps)

\* What is left to do when the session is stopped is one of these.
StopListsOf == {StopCtp, StopXtp, StopDual, StopCtp \o StopXtp}

(* The lists are of steps that the main thread can take. *)
LEMMA StopListsTypes == StopListsOf \subseteq Seq(TeardownSteps)
  BY DEF StopListsOf, StopCtp, StopXtp, StopDual, TeardownSteps

(* A step of the main thread keeps the types of its variables. *)
LEMMA MainTypes == MainTypeOK /\ [Next]_vars => MainTypeOK'
<1> SUFFICES ASSUME MainTypeOK, [Next]_vars PROVE MainTypeOK'
  OBVIOUS
<1> USE DEF Go, Leave
<1>1. ASSUME UNCHANGED main PROVE MainTypeOK'
  BY <1>1 DEF main, MainTypeOK
<1>2. StopOrder \in Seq(TeardownSteps) /\ StopCtp \o StopXtp \in Seq(TeardownSteps)
  BY StopListsTypes DEF StopOrder, StopListsOf
<1>3. CASE Create
  <2>1. mode' \in {"ctp", "xtp", "dual", "throws"}
    BY <1>3 DEF Create, CreateMarketDataSession
  <2>2. pc' \in {"exited", "xCreate", "cCreate"} /\ teardown' = teardown
    BY <1>3 DEF Create
  <2>3. QED
    BY <2>1, <2>2, Zenon DEF MainTypeOK
<1>4. ASSUME UNCHANGED mode,
             \/ teardown' = teardown
                /\ pc' \in {"cConnected", "cLogin", "cLoginCheck", "cSub", "cSubCheck",
                            "xCreate", "xConfigure", "xLogin", "first", "firstIndex",
                            "loop", "exited", "crashed"}
             \/ teardown' \in {StopOrder, StopCtp \o StopXtp} /\ pc' = "stop"
      PROVE  MainTypeOK'
  <2>1. teardown' \in Seq(TeardownSteps)
    BY <1>2, <1>4 DEF MainTypeOK
  <2>2. QED
    BY <1>4, <2>1, Zenon DEF MainTypeOK
<1>5. CASE StartCtp \/ WaitForConnect \/ WaitForLogin \/ CheckLogin
           \/ WaitForSubscription \/ CheckSubscription
  BY <1>4, <1>5
  DEF StartCtp, WaitForConnect, WaitForLogin, CheckLogin, WaitForSubscription,
      CheckSubscription
<1>6. CASE StartXtp \/ ConfigureXtp \/ XtpStarted
  BY <1>4, <1>6 DEF StartXtp, ConfigureXtp, XtpStarted
<1>7. CASE WaitForFirstFuture \/ WaitForFirstIndex \/ FirstTickTimesOut \/ Signal
           \/ Exit \/ Crash
  BY <1>4, <1>7
  DEF WaitForFirstFuture, WaitForFirstIndex, FirstTickTimesOut, Signal, Exit, Crash
<1>8. CASE TeardownStep
  <2>1. teardown # <<>> /\ teardown' = Tail(teardown) /\ UNCHANGED <<mode, pc>>
    BY <1>8 DEF TeardownStep
  <2>2. teardown' \in Seq(TeardownSteps)
    BY <2>1 DEF MainTypeOK
  <2>3. QED
    BY <2>1, <2>2, Zenon DEF MainTypeOK
<1>9. CASE LogInToXtp \/ UNCHANGED vars \/ (CtpNext /\ UNCHANGED <<xtp_vars, main>>)
           \/ (XtpNext /\ UNCHANGED <<ctp_vars, main>>)
  BY <1>1, <1>9 DEF LogInToXtp, vars
<1>10. QED
  BY <1>3, <1>5, <1>6, <1>7, <1>8, <1>9 DEF Next, MainStep

(* The variables of the three threads keep their types. *)
THEOREM TypesHold == Spec => []TypeOK
<1> DEFINE Types == CtpTypeOK /\ XtpTypeOK /\ MainTypeOK
<1>1. Init => Types
  <2> SUFFICES ASSUME Init PROVE Types
    OBVIOUS
  <2>1. MainTypeOK
    BY DEF Init, MainTypeOK
  <2>2. QED
    BY <2>1, CtpInitTypes, XtpInitTypes DEF Init
<1>2. Types /\ [Next]_vars => Types'
  <2> SUFFICES ASSUME Types, [Next]_vars PROVE Types'
    OBVIOUS
  <2>1. UNCHANGED ctp_vars => CtpTypeOK'
    BY DEF ctp_vars, CtpTypeOK
  <2>2. UNCHANGED xtp_vars => XtpTypeOK'
    BY DEF xtp_vars, XtpTypeOK
  <2>3. QED
    BY <2>1, <2>2, StepOfHalves, CtpTypes, XtpTypes, MainTypes
<1>3. Types => TypeOK
  BY Zenon DEF TypeOK, MainTypeOK, TeardownSteps
<1>4. QED
  BY <1>1, <1>2, <1>3, PTL DEF Spec

-----------------------------------------------------------------------------
(* Events and requests *)

\* A login response that is still to be signalled is not owed any more.
EventInv ==
    /\ EventIsOfLastRequest
    /\ ctp_cb = "setLogin" => ~front.loginDue

(* A step of the futures half keeps its events in step with its requests.      *)
LEMMA CtpEvents ==
  ASSUME CtpTypeOK, EventInv, CtpNext \/ CtpMain
  PROVE  EventInv'
<1>1. /\ front \in FrontType /\ event \in [Events -> BOOLEAN]
  BY DEF CtpTypeOK, FrontType
<1>2. /\ NewFront.loginDue = FALSE /\ NewFront.subDue = {}
      /\ NewFront \in FrontType
  BY DEF NewFront, FrontType
<1> USE DEF EventInv, EventIsOfLastRequest, Events, FrontType
<1>3. ASSUME NEW accepted \in BOOLEAN, OnFrontConnected(accepted) PROVE EventInv'
  <2>1. /\ front'.loginDue = accepted /\ front'.subDue = {}
    BY <1>2, <1>3 DEF OnFrontConnected, BeginLoginRequest
  <2>2. event'["login"] = ~accepted /\ ctp_cb' = "setConnected"
    BY <1>1, <1>3 DEF OnFrontConnected, BeginLoginRequest
  <2>3. QED
    BY <2>1, <2>2
<1>4. CASE FinishCallback
  BY <1>1, <1>4 DEF FinishCallback
<1>5. CASE LoseFront
  BY <1>1, <1>2, <1>5 DEF LoseFront
<1>6. CASE OnFrontDisconnected
  BY <1>1, <1>2, <1>6 DEF OnFrontDisconnected, CallbackMayRun
<1>7. ASSUME NEW ok \in BOOLEAN, NEW accepted \in BOOLEAN, OnRspUserLogin(ok, accepted)
      PROVE  EventInv'
  <2>1. front'.loginDue = FALSE
    BY <1>1, <1>7 DEF OnRspUserLogin, BeginSubscriptionRequest
  <2>2. event'["subscription"] => front'.subDue = {}
    BY <1>1, <1>7 DEF OnRspUserLogin, BeginSubscriptionRequest
  <2>3. QED
    BY <2>1, <2>2
<1>8. ASSUME NEW i \in Instruments, NEW ok \in BOOLEAN, OnRspSubMarketData(i, ok)
      PROVE  EventInv'
  <2>1. /\ front'.subDue = front.subDue \ {i} /\ front'.loginDue = front.loginDue
        /\ i \in front.subDue /\ ctp_cb' = ctp_cb
        /\ event'["login"] = event["login"]
        /\ event'["subscription"] = (event["subscription"] \/ front.subDue = {i})
    BY <1>1, <1>8 DEF OnRspSubMarketData
  <2>2. QED
    BY <2>1
<1>9. CASE OnRtnDepthMarketData
  BY <1>1, <1>9 DEF OnRtnDepthMarketData
<1>10. CASE CtpListenerReturns
  BY <1>10 DEF CtpListenerReturns
<1>11. CASE CtpMain
  <2>1. CASE CtpCreate \/ CtpFreeBridge
    BY <2>1 DEF CtpCreate, CtpFreeBridge
  <2>2. CASE CtpRelease
    BY <1>2, <2>2 DEF CtpRelease
  <2>3. ASSUME NEW e \in Events, CtpWait(e) PROVE EventInv'
    BY <1>1, <2>3 DEF CtpWait
  <2>4. QED
    BY <1>11, <2>1, <2>2, <2>3 DEF CtpMain
<1>12. QED
  BY <1>3, <1>4, <1>5, <1>6, <1>7, <1>8, <1>9, <1>10, <1>11
  DEF CtpNext, CtpAnswers, CtpFinishes

(* The events that MdApiSession::Start waits for belong to the latest request, *)
(* however connections are lost and made between its waits.                    *)
THEOREM EventsHold == Spec => []EventIsOfLastRequest
<1>1. Init => EventInv
  BY DEF Init, CtpInit, EventInv, EventIsOfLastRequest, Events
<1>2. TypeOK /\ EventInv /\ [Next]_vars => EventInv'
  <2> SUFFICES ASSUME TypeOK, EventInv, [Next]_vars PROVE EventInv'
    OBVIOUS
  <2>1. UNCHANGED ctp_vars => EventInv'
    BY DEF ctp_vars, EventInv, EventIsOfLastRequest
  <2>2. QED
    BY <2>1, StepOfHalves, CtpEvents DEF TypeOK
<1>3. EventInv => EventIsOfLastRequest
  BY DEF EventInv
<1>4. QED
  BY <1>1, <1>2, <1>3, TypesHold, PTL DEF Spec

-----------------------------------------------------------------------------
(* Life and death of the apis and the bridges *)

\* Before the index half is created, and after the session has been left
BeforeXtp == {"begin", "cCreate", "cConnected", "cLogin", "cLoginCheck", "cSub",
              "cSubCheck", "xCreate"}
Late == {"stop", "exited", "crashed"}

CtpLife ==
    /\ ctp_cb # "idle" => ctp_api = "live"
    /\ ctp_api = "live" => ctp_spi = "live" /\ HasCtp
    /\ pc = "begin" => ctp_api = "none"
    /\ pc = "cCreate" => HasCtp

XtpLife ==
    /\ sdk # "idle" => xtp_api \in {"live", "releasing"}
    /\ xtp_api = "live" => HasXtp
    /\ pc \in BeforeXtp => xtp_api = "none"
    /\ xtp_api = "none" => ~first_received
    /\ pc = "xCreate" => HasXtp
    /\ xtp_api = "releasing" \/ xtp_spi = "freed" \/ misused => pc \in Late

\* A step is among those left of the teardown.
Pending(step) == \E i \in 1 .. Len(teardown) : teardown[i] = step

\* An api that is alive is released before its bridge is freed (CTP), and made
\* null and then released (XTP), before the session has been stopped.
TeardownInv ==
    /\ pc \notin Late => teardown = <<>>
    /\ pc = "stop" =>
         /\ ctp_api = "live" => Pending("cRelease")
         /\ xtp_api = "live" => Pending("xForget")
         /\ xtp_api \in {"live", "releasing"} => Pending("xRelease")
    /\ \A i \in 1 .. Len(teardown) :
         /\ teardown[i] = "cFree" /\ ctp_api = "live" =>
              \E j \in 1 .. i - 1 : teardown[j] = "cRelease"
         /\ teardown[i] = "xRelease" /\ xtp_api = "live" =>
              \E j \in 1 .. i - 1 : teardown[j] = "xForget"

\* What is known of the first tick
HeardInv ==
    /\ ctp.has_received_first => told \/ ctp_cb = "listener"
    /\ event["first"] => ctp.has_received_first
    /\ pc = "firstIndex" \/ (pc = "loop" /\ HasCtp) => ctp.has_received_first

LifeInv == CtpLife /\ XtpLife /\ TeardownInv /\ HeardInv

(* What the CTP library's thread may do to the life of its half: it makes and   *)
(* unmakes nothing, and hears of a first tick only by telling the listener.     *)
LEMMA CtpThread ==
  ASSUME CtpTypeOK, CtpNext
  PROVE  /\ UNCHANGED <<ctp_api, ctp_spi>>
         /\ ctp_cb' = ctp_cb \/ ctp_cb' = "idle" \/ (ctp_cb = "idle" /\ ctp_api = "live")
         /\ \/ UNCHANGED <<told, event["first"], ctp.has_received_first>>
               /\ (ctp_cb = "listener" <=> ctp_cb' = "listener")
            \/ ctp_api = "live" /\ ctp_cb = "idle" /\ ctp_cb' = "listener"
               /\ ctp'.has_received_first = TRUE /\ told' = told
            \/ ctp_cb = "listener" /\ ctp_cb' = "idle" /\ told' = TRUE
               /\ UNCHANGED <<event, ctp>>
<1>1. ctp \in [FlagNames -> BOOLEAN] /\ event \in [Events -> BOOLEAN]
  BY FlagsDomain DEF CtpTypeOK
<1> USE DEF FlagNames, Events, CallbackMayRun
<1>2. CASE \E accepted \in BOOLEAN : OnFrontConnected(accepted)
  BY <1>1, <1>2 DEF OnFrontConnected, BeginLoginRequest
<1>3. CASE FinishCallback
  BY <1>1, <1>3 DEF FinishCallback
<1>4. CASE LoseFront
  BY <1>4 DEF LoseFront
<1>5. CASE OnFrontDisconnected
  BY <1>1, <1>5 DEF OnFrontDisconnected
<1>6. CASE \E ok, accepted \in BOOLEAN : OnRspUserLogin(ok, accepted)
  BY <1>1, <1>6 DEF OnRspUserLogin, BeginSubscriptionRequest
<1>7. CASE \E i \in Instruments, ok \in BOOLEAN : OnRspSubMarketData(i, ok)
  BY <1>1, <1>7 DEF OnRspSubMarketData
<1>8. CASE OnRtnDepthMarketData
  BY <1>1, <1>8 DEF OnRtnDepthMarketData
<1>9. CASE CtpListenerReturns
  BY <1>9 DEF CtpListenerReturns
<1>10. QED
  BY <1>2, <1>3, <1>4, <1>5, <1>6, <1>7, <1>8, <1>9 DEF CtpNext, CtpAnswers, CtpFinishes

(* The same of the XTP library's thread. *)
LEMMA XtpSdkThread ==
  ASSUME XtpTypeOK, XtpNext
  PROVE  /\ UNCHANGED <<xtp_api, xtp_spi, started>>
         /\ sdk' # "idle" => sdk # "idle" \/ xtp_api \in {"live", "releasing"}
         /\ misused' => misused \/ xtp_spi = "freed" \/ xtp_api = "releasing"
         /\ \/ UNCHANGED first_received
               /\ \/ sdk' \in {"tick", "listener"} <=> sdk \in {"tick", "listener"}
                  \/ sdk' = "idle"
            \/ xtp_api \in {"live", "releasing"} /\ first_received' = TRUE
               /\ sdk = "idle" /\ sdk' = "tick"
<1> USE DEF SdkIsFree, UseBridge
<1>1. CASE OnDisconnected
  <2>1. /\ UNCHANGED <<xtp_api, xtp_spi, started, first_received>>
        /\ sdk = "idle" /\ sdk' \in {"idle", "recover"} /\ xtp_api \in {"live", "releasing"}
        /\ misused' = (misused \/ xtp_spi = "freed")
    BY <1>1 DEF OnDisconnected
  <2>2. QED
    BY <2>1
<1>2. CASE XtpRecoverySteps
  <2>1. /\ UNCHANGED <<xtp_api, xtp_spi, started, first_received, misused>>
        /\ sdk' = sdk \/ sdk' = "idle"
    BY <1>2 DEF XtpRecoverySteps, XtpLogin, XtpSubscribe, Returns
  <2>2. QED
    BY <2>1
<1>3. CASE XtpNullCall
  BY <1>3 DEF XtpNullCall
<1>4. CASE XtpTellListener
  <2>1. /\ UNCHANGED <<xtp_api, xtp_spi, started, first_received>>
        /\ sdk = "tick" /\ sdk' = "listener"
        /\ misused' = (misused \/ xtp_spi = "freed")
    BY <1>4 DEF XtpTellListener
  <2>2. QED
    BY <2>1
<1>5. CASE XtpListenerReturns
  BY <1>5 DEF XtpListenerReturns
<1>6. CASE OnDepthMarketData
  BY <1>6 DEF OnDepthMarketData
<1>7. CASE XtpDrop
  BY <1>7 DEF XtpDrop
<1>8. QED
  BY <1>1, <1>2, <1>3, <1>4, <1>5, <1>6, <1>7 DEF XtpNext, XtpThread

(* The library threads keep the invariant. *)
LEMMA ThreadsKeepLife ==
  ASSUME TypeOK, LifeInv, pc \notin {"exited", "crashed"},
         \/ CtpNext /\ UNCHANGED <<xtp_vars, main>>
         \/ XtpNext /\ UNCHANGED <<ctp_vars, main>>
  PROVE  LifeInv'
<1> USE DEF LifeInv
<1>1. UNCHANGED <<mode, pc, teardown>>
  BY DEF main
<1>2. UNCHANGED <<ctp_api, xtp_api, ctp_spi, xtp_spi>>
  BY CtpThread, XtpSdkThread DEF TypeOK, ctp_vars, xtp_vars
<1>3. TeardownInv'
  BY <1>1, <1>2 DEF TeardownInv, Pending
<1>4. CASE CtpNext /\ UNCHANGED <<xtp_vars, main>>
  <2>1. XtpLife'
    BY <1>1, <1>4 DEF XtpLife, HasXtp, xtp_vars
  <2>2. CtpTypeOK
    BY DEF TypeOK
  <2>3. CtpLife'
    <3>1. ctp_cb' = ctp_cb \/ ctp_cb' = "idle" \/ (ctp_cb = "idle" /\ ctp_api = "live")
      BY <1>4, <2>2, CtpThread
    <3>2. QED
      BY <1>1, <1>2, <3>1 DEF CtpLife, HasCtp
  <2>4. HeardInv'
    <3>1. CASE /\ UNCHANGED <<told, event["first"], ctp.has_received_first>>
               /\ (ctp_cb = "listener" <=> ctp_cb' = "listener")
      BY <1>1, <3>1 DEF HeardInv, HasCtp
    <3>2. CASE ctp_cb' = "listener" /\ ctp'.has_received_first = TRUE /\ told' = told
      BY <1>1, <3>2 DEF HeardInv, HasCtp
    <3>3. CASE told' = TRUE /\ UNCHANGED <<event, ctp>>
      BY <1>1, <3>3 DEF HeardInv, HasCtp
    <3>4. QED
      BY <1>4, <2>2, <3>1, <3>2, <3>3, CtpThread
  <2>5. QED
    BY <1>3, <2>1, <2>3, <2>4
<1>5. CASE XtpNext /\ UNCHANGED <<ctp_vars, main>>
  <2>1. CtpLife' /\ HeardInv'
    BY <1>1, <1>5 DEF CtpLife, HeardInv, HasCtp, ctp_vars
  <2>2. XtpLife'
    <3>1. XtpTypeOK
      BY DEF TypeOK
    <3>2. /\ sdk' # "idle" => sdk # "idle" \/ xtp_api \in {"live", "releasing"}
          /\ misused' => misused \/ xtp_spi = "freed" \/ xtp_api = "releasing"
          /\ first_received' = first_received \/ xtp_api \in {"live", "releasing"}
      BY <1>5, <3>1, XtpSdkThread
    <3>3. QED
      BY <1>1, <1>2, <3>2 DEF XtpLife, HasXtp
  <2>3. QED
    BY <1>3, <2>1, <2>2
<1>6. QED
  BY <1>4, <1>5

(* A list of steps that stops the session of the mode is complete and in order. *)
LEMMA StopListsInOrder ==
  ASSUME NEW steps, \/ steps = StopOrder
                    \/ steps = StopCtp \o StopXtp /\ mode = "dual"
  PROVE  /\ HasCtp => \E i \in 1 .. Len(steps) : steps[i] = "cRelease"
         /\ HasXtp => /\ \E i \in 1 .. Len(steps) : steps[i] = "xForget"
                      /\ \E i \in 1 .. Len(steps) : steps[i] = "xRelease"
         /\ \A i \in 1 .. Len(steps) :
              /\ steps[i] = "cFree" => \E j \in 1 .. i - 1 : steps[j] = "cRelease"
              /\ steps[i] = "xRelease" => \E j \in 1 .. i - 1 : steps[j] = "xForget"
<1>1. CASE steps = StopXtp /\ mode = "xtp"
  <2>1. /\ Len(steps) = 4 /\ steps[1] = "xLogout" /\ steps[2] = "xFree"
        /\ steps[3] = "xForget" /\ steps[4] = "xRelease"
    BY <1>1 DEF StopXtp
  <2>2. QED
    BY <1>1, <2>1 DEF HasCtp, HasXtp
<1>2. CASE steps = StopCtp /\ mode \notin {"dual", "xtp"}
  <2>1. Len(steps) = 2 /\ steps[1] = "cRelease" /\ steps[2] = "cFree"
    BY <1>2 DEF StopCtp
  <2>2. QED
    BY <1>2, <2>1 DEF HasCtp, HasXtp
<1>3. CASE steps = StopDual
  <2>1. /\ Len(steps) = 6 /\ steps[1] = "xLogout" /\ steps[2] = "xFree"
        /\ steps[3] = "xForget" /\ steps[4] = "xRelease"
        /\ steps[5] = "cRelease" /\ steps[6] = "cFree"
    BY <1>3 DEF StopDual, StopXtp, StopCtp
  <2>2. QED
    BY <2>1
<1>4. CASE steps = StopCtp \o StopXtp
  <2>1. /\ Len(steps) = 6 /\ steps[1] = "cRelease" /\ steps[2] = "cFree"
        /\ steps[3] = "xLogout" /\ steps[4] = "xFree"
        /\ steps[5] = "xForget" /\ steps[6] = "xRelease"
    BY <1>4 DEF StopXtp, StopCtp
  <2>2. QED
    BY <2>1
<1>5. QED
  BY <1>1, <1>2, <1>3, <1>4 DEF StopOrder

(* The session is left, with everything left to do. *)
LEMMA LeaveKeepsLife ==
  ASSUME TypeOK, LifeInv, pc \notin Late, pc' = "stop", UNCHANGED mode,
         \/ teardown' = StopOrder
         \/ teardown' = StopCtp \o StopXtp /\ mode = "dual",
         UNCHANGED <<ctp_vars, xtp_api, xtp_spi, first_received, sdk, misused>>
  PROVE  LifeInv'
<1>1. UNCHANGED <<ctp_api, ctp_spi, ctp_cb, ctp, event, told>>
  BY DEF ctp_vars
<1>2. CtpLife'
  BY <1>1 DEF LifeInv, CtpLife, HasCtp
<1>3. XtpLife'
  BY DEF LifeInv, XtpLife, HasXtp, BeforeXtp, Late
<1>4. HeardInv'
  BY <1>1 DEF LifeInv, HeardInv
<1>5. TeardownInv'
  <2>1. (ctp_api = "live" => HasCtp) /\ (xtp_api = "live" => HasXtp)
        /\ xtp_api # "releasing"
    BY DEF LifeInv, CtpLife, XtpLife, Late
  <2>2. /\ HasCtp => \E i \in 1 .. Len(teardown') : teardown'[i] = "cRelease"
        /\ HasXtp => /\ \E i \in 1 .. Len(teardown') : teardown'[i] = "xForget"
                     /\ \E i \in 1 .. Len(teardown') : teardown'[i] = "xRelease"
        /\ \A i \in 1 .. Len(teardown') :
             /\ teardown'[i] = "cFree" => \E j \in 1 .. i - 1 : teardown'[j] = "cRelease"
             /\ teardown'[i] = "xRelease" => \E j \in 1 .. i - 1 : teardown'[j] = "xForget"
    BY StopListsInOrder
  <2>3. QED
    BY <1>1, <2>1, <2>2 DEF TeardownInv, Pending, Late
<1>6. QED
  BY <1>2, <1>3, <1>4, <1>5 DEF LifeInv

(* A step of the teardown keeps what the steps after it are for. *)
LEMMA TeardownKeepsLife ==
  ASSUME TypeOK, LifeInv, TeardownStep
  PROVE  LifeInv'
<1> DEFINE step == Head(teardown)
<1>1. /\ pc = "stop" /\ pc' = "stop" /\ UNCHANGED mode
      /\ teardown # <<>> /\ teardown' = Tail(teardown)
  BY DEF TeardownStep
<1>2. /\ Len(teardown) \in Nat \ {0} /\ Len(teardown') = Len(teardown) - 1
      /\ step = teardown[1]
      /\ \A i \in 1 .. Len(teardown') : teardown'[i] = teardown[i + 1]
  BY <1>1 DEF TypeOK
<1>3. ASSUME NEW s, s # step, Pending(s) PROVE Pending(s)'
  <2>1. PICK i \in 1 .. Len(teardown) : teardown[i] = s
    BY <1>3 DEF Pending
  <2>2. i # 1 /\ i - 1 \in 1 .. Len(teardown')
    BY <1>2, <1>3, <2>1
  <2>3. teardown'[i - 1] = s
    BY <1>2, <2>1, <2>2
  <2>4. QED
    BY <2>2, <2>3 DEF Pending
<1>4. ASSUME NEW s, NEW i \in 1 .. Len(teardown'), step # s,
             \E j \in 1 .. (i + 1) - 1 : teardown[j] = s
      PROVE  \E j \in 1 .. i - 1 : teardown'[j] = s
  <2>1. PICK j \in 1 .. (i + 1) - 1 : teardown[j] = s
    BY <1>4
  <2>2. j # 1 /\ j - 1 \in 1 .. i - 1 /\ j - 1 \in 1 .. Len(teardown')
    BY <1>2, <1>4, <2>1
  <2>3. teardown'[j - 1] = s
    BY <1>2, <2>1, <2>2
  <2>4. QED
    BY <2>2, <2>3
<1>5. \A i \in 1 .. Len(teardown') : i + 1 \in 1 .. Len(teardown)
  BY <1>2
<1>6. /\ ctp_api = "live" => Pending("cRelease")
      /\ xtp_api = "live" => Pending("xForget")
      /\ xtp_api \in {"live", "releasing"} => Pending("xRelease")
  BY <1>1 DEF LifeInv, TeardownInv
<1>7. \A i \in 1 .. Len(teardown) :
         /\ teardown[i] = "cFree" /\ ctp_api = "live" =>
              \E j \in 1 .. i - 1 : teardown[j] = "cRelease"
         /\ teardown[i] = "xRelease" /\ xtp_api = "live" =>
              \E j \in 1 .. i - 1 : teardown[j] = "xForget"
  BY DEF LifeInv, TeardownInv
<1>8. ASSUME (ctp_api' = "live" => ctp_api = "live" /\ step # "cRelease"),
             (xtp_api' = "live" => xtp_api = "live" /\ step # "xForget"),
             (xtp_api' = "releasing" => xtp_api \in {"live", "releasing"} /\ step # "xRelease"),
             (xtp_api' = "live" => step # "xRelease")
      PROVE  TeardownInv'
  <2>1. /\ ctp_api' = "live" => Pending("cRelease")'
        /\ xtp_api' = "live" => Pending("xForget")'
        /\ xtp_api' \in {"live", "releasing"} => Pending("xRelease")'
    BY <1>3, <1>6, <1>8
  <2>2. ASSUME NEW i \in 1 .. Len(teardown')
        PROVE  /\ teardown'[i] = "cFree" /\ ctp_api' = "live" =>
                    \E j \in 1 .. i - 1 : teardown'[j] = "cRelease"
               /\ teardown'[i] = "xRelease" /\ xtp_api' = "live" =>
                    \E j \in 1 .. i - 1 : teardown'[j] = "xForget"
    <3>1. teardown'[i] = teardown[i + 1] /\ i + 1 \in 1 .. Len(teardown)
      BY <1>2, <1>5
    <3>2. /\ teardown'[i] = "cFree" /\ ctp_api = "live" =>
                \E j \in 1 .. (i + 1) - 1 : teardown[j] = "cRelease"
          /\ teardown'[i] = "xRelease" /\ xtp_api = "live" =>
                \E j \in 1 .. (i + 1) - 1 : teardown[j] = "xForget"
      BY <1>7, <3>1
    <3>3. QED
      BY <1>4, <1>8, <3>2
  <2>3. QED
    BY <1>1, <2>1, <2>2 DEF TeardownInv, Late
<1>9. step = "cFree" => ctp_api # "live"
  BY <1>2, <1>7
<1>10. step = "xRelease" => xtp_api # "live"
  BY <1>2, <1>7
<1>11. ASSUME UNCHANGED <<ctp_vars, first_received, sdk, misused>>,
              xtp_api' = "live" => xtp_api = "live",
              xtp_api' = "none" => xtp_api = "none",
              sdk # "idle" => xtp_api' \in {"live", "releasing"}
       PROVE  CtpLife' /\ XtpLife' /\ HeardInv'
  <2>1. UNCHANGED <<ctp_api, ctp_spi, ctp_cb, ctp, event, told>>
    BY <1>11 DEF ctp_vars
  <2>2. CtpLife' /\ HeardInv'
    BY <1>1, <2>1 DEF LifeInv, CtpLife, HeardInv, HasCtp
  <2>3. XtpLife'
    BY <1>1, <1>11 DEF LifeInv, XtpLife, HasXtp, BeforeXtp, Late
  <2>4. QED
    BY <2>2, <2>3
<1>12. CASE step \in {"xLogout", "xFree"}
  <2>1. UNCHANGED <<ctp_vars, first_received, sdk, misused, xtp_api>>
    BY <1>12 DEF TeardownStep, XtpLogout, XtpFreeBridge
  <2>2. (sdk # "idle" => xtp_api' \in {"live", "releasing"}) /\ UNCHANGED ctp_api
    BY <2>1 DEF LifeInv, XtpLife, ctp_vars
  <2>3. QED
    BY <1>8, <1>11, <1>12, <2>1, <2>2 DEF LifeInv
<1>13. CASE step = "xForget"
  <2>1. /\ UNCHANGED <<ctp_vars, first_received, sdk, misused>>
        /\ xtp_api' = IF xtp_api = "live" THEN "releasing" ELSE xtp_api
    BY <1>13 DEF TeardownStep, XtpForgetApi
  <2>2. (sdk # "idle" => xtp_api' \in {"live", "releasing"}) /\ UNCHANGED ctp_api
    BY <2>1 DEF LifeInv, XtpLife, ctp_vars
  <2>3. QED
    BY <1>8, <1>11, <1>13, <2>1, <2>2 DEF LifeInv
<1>14. CASE step = "xRelease"
  <2>1. /\ UNCHANGED <<ctp_vars, first_received, sdk, misused>>
        /\ xtp_api' = IF xtp_api = "releasing" THEN "released" ELSE xtp_api
        /\ sdk = "idle"
    BY <1>14 DEF TeardownStep, XtpRelease
  <2>2. UNCHANGED ctp_api
    BY <2>1 DEF ctp_vars
  <2>3. QED
    BY <1>8, <1>10, <1>11, <1>14, <2>1, <2>2 DEF LifeInv
<1>15. CASE step \in {"cRelease", "cFree"}
  <2>1. /\ UNCHANGED <<xtp_vars, ctp_cb, ctp, event, told>>
        /\ ctp_api' = "live" => ctp_api = "live" /\ step # "cRelease"
        /\ ctp_api' = "live" => ctp_spi' = ctp_spi
        /\ ctp_cb # "idle" => ctp_api' = ctp_api
    BY <1>9, <1>15 DEF TeardownStep, CtpRelease, CtpFreeBridge
  <2>2. UNCHANGED <<xtp_api, xtp_spi, first_received, sdk, misused>>
    BY <2>1 DEF xtp_vars
  <2>3. CtpLife' /\ HeardInv'
    BY <1>1, <2>1 DEF LifeInv, CtpLife, HeardInv, HasCtp
  <2>4. XtpLife'
    BY <1>1, <2>2 DEF LifeInv, XtpLife, HasXtp, BeforeXtp, Late
  <2>5. TeardownInv'
    BY <1>8, <1>15, <2>1, <2>2
  <2>6. QED
    BY <2>3, <2>4, <2>5 DEF LifeInv
<1>16. QED
  BY <1>12, <1>13, <1>14, <1>15 DEF TeardownStep

(* A step of the main thread that makes no session and stops none, on the way   *)
(* from Start to the loop: it only waits for events and moves on.               *)
LEMMA GoKeepsLife ==
  ASSUME TypeOK, LifeInv, pc \notin Late, pc' \notin Late, pc' \notin {"begin", "cCreate"},
         pc' \in BeforeXtp => pc \in BeforeXtp,
         pc' = "xCreate" => HasXtp,
         pc' = "firstIndex" \/ (pc' = "loop" /\ HasCtp) => ctp.has_received_first,
         UNCHANGED <<mode, teardown, ctp_api, ctp_spi, ctp_cb, ctp, told>>,
         event'["first"] => event["first"],
         UNCHANGED <<xtp_api, xtp_spi, first_received, sdk, misused>>
  PROVE  LifeInv'
<1>1. CtpLife'
  BY DEF LifeInv, CtpLife, HasCtp
<1>2. XtpLife'
  BY DEF LifeInv, XtpLife, HasXtp, Late
<1>3. TeardownInv'
  BY DEF LifeInv, TeardownInv, Late
<1>4. HeardInv'
  BY DEF LifeInv, HeardInv, HasCtp
<1>5. QED
  BY <1>1, <1>2, <1>3, <1>4 DEF LifeInv

(* A wait leaves everything but the event it was for. *)
LEMMA WaitLeaves ==
  ASSUME CtpTypeOK, NEW e \in Events, CtpWait(e)
  PROVE  /\ UNCHANGED <<ctp_api, ctp_spi, ctp_cb, ctp, told>>
         /\ event'["first"] => event["first"]
         /\ event[e]
<1>1. event \in [Events -> BOOLEAN]
  BY DEF CtpTypeOK
<1>2. QED
  BY <1>1 DEF CtpWait, Events

(* The main thread keeps the invariant. *)
LEMMA MainKeepsLife ==
  ASSUME TypeOK, LifeInv, Alive, MainStep \/ FirstTickTimesOut \/ Signal \/ Crash
  PROVE  LifeInv'
<1> USE DEF Go
<1>1. CtpTypeOK /\ XtpTypeOK
  BY DEF TypeOK
<1>2. {"connected", "login", "subscription", "first"} = Events
  BY DEF Events
<1>3. CASE Create
  <2>1. /\ pc = "begin" /\ UNCHANGED <<teardown, ctp_vars, xtp_vars>>
        /\ \/ pc' = "exited" \/ (pc' = "xCreate" /\ mode' = "xtp")
           \/ (pc' = "cCreate" /\ mode' \in {"ctp", "dual"})
    BY <1>3 DEF Create, CreateMarketDataSession
  <2>2. /\ UNCHANGED <<ctp_api, ctp_spi, ctp_cb, ctp, event, told>>
        /\ UNCHANGED <<xtp_api, xtp_spi, first_received, sdk, misused>>
    BY <2>1 DEF ctp_vars, xtp_vars
  <2>3. ctp_api = "none" /\ xtp_api = "none" /\ teardown = <<>>
    BY <2>1 DEF LifeInv, CtpLife, XtpLife, TeardownInv, BeforeXtp, Late
  <2>4. CtpLife'
    BY <2>1, <2>2, <2>3 DEF LifeInv, CtpLife, HasCtp
  <2>5. XtpLife'
    BY <2>1, <2>2, <2>3 DEF LifeInv, XtpLife, HasXtp, Late, BeforeXtp
  <2>6. TeardownInv'
    BY <2>1, <2>2, <2>3 DEF TeardownInv
  <2>7. HeardInv'
    BY <2>1, <2>2 DEF LifeInv, HeardInv
  <2>8. QED
    BY <2>4, <2>5, <2>6, <2>7 DEF LifeInv
<1>4. CASE StartCtp
  <2>1. CASE CtpCreate /\ pc' = "cConnected" /\ UNCHANGED <<mode, teardown>>
    <3>1. /\ ctp_api' = "live" /\ ctp_spi' = "live" /\ UNCHANGED <<ctp_cb, ctp, event, told>>
          /\ UNCHANGED <<xtp_api, xtp_spi, first_received, sdk, misused>>
          /\ pc = "cCreate"
      BY <1>4, <2>1 DEF StartCtp, CtpCreate, xtp_vars
    <3>2. CtpLife'
      BY <2>1, <3>1 DEF LifeInv, CtpLife, HasCtp
    <3>3. XtpLife'
      BY <2>1, <3>1 DEF LifeInv, XtpLife, HasXtp, Late, BeforeXtp
    <3>4. TeardownInv'
      BY <2>1, <3>1 DEF LifeInv, TeardownInv, Late
    <3>5. HeardInv'
      BY <2>1, <3>1 DEF LifeInv, HeardInv
    <3>6. QED
      BY <3>2, <3>3, <3>4, <3>5 DEF LifeInv
  <2>2. CASE Leave(StopOrder) /\ UNCHANGED ctp_vars
    BY <1>4, <2>2, LeaveKeepsLife DEF StartCtp, Leave, Late, xtp_vars
  <2>3. QED
    BY <1>4, <2>1, <2>2 DEF StartCtp
<1>5. CASE WaitForConnect \/ WaitForLogin \/ WaitForSubscription
  <2>1. /\ UNCHANGED <<mode, teardown, ctp_api, ctp_spi, ctp_cb, ctp, told>>
        /\ event'["first"] => event["first"]
    BY <1>1, <1>2, <1>5, WaitLeaves DEF WaitForConnect, WaitForLogin, WaitForSubscription
  <2>2. /\ pc \in {"cConnected", "cLogin", "cSub"}
        /\ pc' \in {"cLogin", "cLoginCheck", "cSubCheck"} /\ UNCHANGED xtp_vars
    BY <1>5 DEF WaitForConnect, WaitForLogin, WaitForSubscription
  <2>3. QED
    BY <2>1, <2>2, GoKeepsLife DEF xtp_vars, Late, BeforeXtp
<1>6. CASE CheckLogin \/ CheckSubscription
  <2>1. /\ pc \in {"cLoginCheck", "cSubCheck"} /\ UNCHANGED <<ctp_vars, xtp_vars>>
        /\ \/ Leave(StopOrder)
           \/ /\ UNCHANGED <<mode, teardown>>
              /\ pc' \in {"cSub", "first"} \/ (pc' = "xCreate" /\ mode = "dual")
    BY <1>6 DEF CheckLogin, CheckSubscription
  <2>2. CASE Leave(StopOrder)
    BY <2>1, <2>2, LeaveKeepsLife DEF Leave, Late, xtp_vars
  <2>3. CASE /\ UNCHANGED <<mode, teardown>>
             /\ pc' \in {"cSub", "first"} \/ (pc' = "xCreate" /\ mode = "dual")
    BY <2>1, <2>3, GoKeepsLife DEF xtp_vars, ctp_vars, Late, BeforeXtp, HasXtp
  <2>4. QED
    BY <2>1, <2>2, <2>3
<1>7. CASE StartXtp
  <2>1. CASE XtpCreate /\ pc' = "xConfigure" /\ UNCHANGED <<mode, teardown>>
    <3>1. /\ xtp_api' = "live" /\ xtp_spi' = "live" /\ first_received' = FALSE
          /\ UNCHANGED <<sdk, misused>> /\ pc = "xCreate"
          /\ UNCHANGED <<ctp_api, ctp_spi, ctp_cb, ctp, event, told>>
      BY <1>7, <2>1 DEF StartXtp, XtpCreate, ctp_vars
    <3>2. CtpLife'
      BY <2>1, <3>1 DEF LifeInv, CtpLife, HasCtp
    <3>3. XtpLife'
      BY <2>1, <3>1 DEF LifeInv, XtpLife, HasXtp, Late, BeforeXtp
    <3>4. TeardownInv'
      BY <2>1, <3>1 DEF LifeInv, TeardownInv, Late
    <3>5. HeardInv'
      BY <2>1, <3>1 DEF LifeInv, HeardInv
    <3>6. QED
      BY <3>2, <3>3, <3>4, <3>5 DEF LifeInv
  <2>2. CASE Leave(StopOrder) /\ UNCHANGED xtp_vars
    BY <1>7, <2>2, LeaveKeepsLife DEF StartXtp, Leave, Late, xtp_vars
  <2>3. QED
    BY <1>7, <2>1, <2>2 DEF StartXtp
<1>8. CASE ConfigureXtp
  <2>1. /\ pc = "xConfigure" /\ pc' = "xLogin" /\ UNCHANGED <<mode, teardown, ctp_vars>>
        /\ UNCHANGED <<xtp_api, xtp_spi, first_received, sdk, misused>>
    BY <1>8 DEF ConfigureXtp, XtpConfigure
  <2>2. QED
    BY <2>1, GoKeepsLife DEF ctp_vars, Late, BeforeXtp
<1>9. CASE LogInToXtp
  <2>1. /\ pc = "xLogin" /\ UNCHANGED <<ctp_vars, main>>
        /\ UNCHANGED <<xtp_api, xtp_spi, first_received, sdk, misused>>
    BY <1>9 DEF LogInToXtp, XtpStartSteps, XtpLogin, XtpSubscribe, Returns
  <2>2. QED
    BY <2>1, GoKeepsLife DEF ctp_vars, main, Late, BeforeXtp
<1>10. CASE XtpStarted
  <2>1. /\ pc = "xLogin" /\ UNCHANGED ctp_vars
        /\ UNCHANGED <<xtp_api, xtp_spi, first_received, sdk, misused>>
    BY <1>10 DEF XtpStarted, XtpStartReturns
  <2>2. CASE pc' = "first" /\ UNCHANGED <<mode, teardown>>
    BY <2>1, <2>2, GoKeepsLife DEF ctp_vars, Late, BeforeXtp
  <2>3. CASE Leave(IF mode = "dual" THEN StopCtp \o StopXtp ELSE StopOrder)
    BY <2>1, <2>3, LeaveKeepsLife DEF Leave, Late
  <2>4. QED
    BY <1>10, <2>2, <2>3 DEF XtpStarted
<1>11. CASE WaitForFirstFuture
  <2>1. /\ UNCHANGED <<ctp_api, ctp_spi, ctp_cb, ctp, told>>
        /\ event'["first"] => event["first"]
        /\ event["first"]
    BY <1>1, <1>2, <1>11, WaitLeaves DEF WaitForFirstFuture
  <2>2. /\ pc = "first" /\ pc' \in {"firstIndex", "loop"}
        /\ UNCHANGED <<mode, teardown, xtp_vars>>
    BY <1>11 DEF WaitForFirstFuture
  <2>3. ctp.has_received_first
    BY <2>1 DEF LifeInv, HeardInv
  <2>4. QED
    BY <2>1, <2>2, <2>3, GoKeepsLife DEF xtp_vars, Late, BeforeXtp
<1>12. CASE WaitForFirstIndex
  <2>1. /\ (pc = "firstIndex" \/ (pc = "first" /\ ~HasCtp)) /\ pc' = "loop"
        /\ UNCHANGED <<mode, teardown, ctp_vars, xtp_vars>>
    BY <1>12 DEF WaitForFirstIndex, HasCtp
  <2>2. HasCtp => ctp.has_received_first
    BY <2>1 DEF LifeInv, HeardInv
  <2>3. QED
    BY <2>1, <2>2, GoKeepsLife DEF ctp_vars, xtp_vars, Late, BeforeXtp
<1>13. CASE FirstTickTimesOut \/ Signal
  BY <1>13, LeaveKeepsLife DEF FirstTickTimesOut, Signal, Leave, Late, xtp_vars
<1>14. CASE TeardownStep
  BY <1>14, TeardownKeepsLife
<1>15. CASE Exit \/ Crash
  <2>1. /\ pc' \in {"exited", "crashed"} /\ UNCHANGED <<mode, teardown>>
        /\ UNCHANGED <<ctp_api, ctp_spi, ctp_cb, ctp, event, told>>
        /\ UNCHANGED <<xtp_api, xtp_spi, first_received, sdk, misused>>
    BY <1>15 DEF Exit, Crash, ctp_vars, xtp_vars
  <2>2. CtpLife'
    BY <2>1 DEF LifeInv, CtpLife, HasCtp
  <2>3. XtpLife'
    BY <2>1 DEF LifeInv, XtpLife, HasXtp, Late, BeforeXtp
  <2>4. TeardownInv'
    BY <2>1 DEF LifeInv, TeardownInv, Late
  <2>5. HeardInv'
    BY <2>1 DEF LifeInv, HeardInv
  <2>6. QED
    BY <2>2, <2>3, <2>4, <2>5 DEF LifeInv
<1>16. QED
  BY <1>3, <1>4, <1>5, <1>6, <1>7, <1>8, <1>9, <1>10, <1>11, <1>12, <1>13, <1>14, <1>15
  DEF MainStep

(* The invariant of the sessions' life holds throughout. *)
LEMMA LifeHolds == Spec => []LifeInv
<1>1. Init => LifeInv
  BY DEF Init, CtpInit, XtpInit, NewFlags, Events, LifeInv, CtpLife, XtpLife,
         TeardownInv, HeardInv, Late
<1>2. TypeOK /\ LifeInv /\ [Next]_vars => LifeInv'
  <2> SUFFICES ASSUME TypeOK, LifeInv, [Next]_vars PROVE LifeInv'
    OBVIOUS
  <2>1. CASE UNCHANGED vars
    BY <2>1 DEF vars, ctp_vars, xtp_vars, main, LifeInv, CtpLife, XtpLife, TeardownInv,
                HeardInv, Pending, HasCtp, HasXtp
  <2>2. CASE Next
    BY <2>2, MainKeepsLife, ThreadsKeepLife DEF Next, Alive
  <2>3. QED
    BY <2>1, <2>2
<1>3. QED
  BY <1>1, <1>2, TypesHold, PTL DEF Spec

(* The CTP library never calls a bridge that has been destroyed, and the XTP    *)
(* library calls a freed bridge or a null api only while the session is being   *)
(* stopped (MdApiSession and XtpMarketDataSession, their destructors and Stop). *)
THEOREM BridgesLive == Spec => []BridgeIsAlive
<1>1. LifeInv => BridgeIsAlive
  BY DEF LifeInv, CtpLife, XtpLife, BridgeIsAlive, Late
<1>2. QED
  BY <1>1, LifeHolds, PTL

(* The loop of main.cpp begins when the listener has been told of a future's    *)
(* tick or is being told of the first.                                          *)
THEOREM FirstTickHolds == Spec => []FirstTickKnown
<1>1. LifeInv => FirstTickKnown
  BY DEF LifeInv, HeardInv, FirstTickKnown
<1>2. QED
  BY <1>1, LifeHolds, PTL

-----------------------------------------------------------------------------
(* The contract: the session as main.cpp sees it *)

\* The expressions that Contract substitutes for delivering and heard
Delivering ==
    {c \in {"ctp", "xtp"} : IF c = "ctp" THEN ctp_cb = "listener"
                             ELSE sdk \in {"tick", "listener"}}
Heard == ctp.has_received_first \/ first_received

Active == Phase \in {"starting", "running", "stopping"}

(* What is seen of a session changes with these three only. *)
LEMMA Stutters ==
  ASSUME Phase' = Phase, Delivering' = Delivering, Heard' = Heard
  PROVE  UNCHANGED Contract!vars
  BY DEF Contract!vars, Delivering, Heard

(* The threads that are not delivering change nothing in what is delivered. *)
LEMMA SameDelivery ==
  ASSUME ctp_cb' = "listener" <=> ctp_cb = "listener",
         sdk' \in {"tick", "listener"} <=> sdk \in {"tick", "listener"}
  PROVE  Delivering' = Delivering
  BY DEF Delivering

(* Leaving the session is the beginning of its stop. *)
LEMMA LeaveIsBeginStop ==
  ASSUME Phase \in {"starting", "running"}, pc' = "stop",
         Delivering' = Delivering, Heard' = Heard
  PROVE  Contract!Next
<1>1. Phase' = "stopping"
  BY DEF Phase
<1>2. Contract!BeginStop
  BY <1>1 DEF Contract!BeginStop, Delivering, Heard
<1>3. QED
  BY <1>2 DEF Contract!Next

(* Ticks of futures: a delivery begins, ends, or nothing is seen. *)
LEMMA CtpThreadKeepsContract ==
  ASSUME TypeOK, LifeInv, Alive, CtpNext, UNCHANGED <<xtp_vars, main>>
  PROVE  [Contract!Next]_Contract!vars
<1>1. UNCHANGED <<pc, sdk, first_received>> /\ Phase' = Phase
  BY DEF main, xtp_vars, Phase
<1>2. ctp \in [FlagNames -> BOOLEAN] /\ CtpTypeOK /\ first_received \in BOOLEAN
  BY FlagsDomain DEF TypeOK, CtpTypeOK, XtpTypeOK
<1>3. CASE /\ UNCHANGED <<told, event["first"], ctp.has_received_first>>
           /\ (ctp_cb = "listener" <=> ctp_cb' = "listener")
  <2>1. Heard' = Heard
    BY <1>1, <1>3 DEF Heard
  <2>2. Delivering' = Delivering
    BY <1>1, <1>3, SameDelivery
  <2>3. QED
    BY <1>1, <2>1, <2>2, Stutters
<1>4. CASE /\ ctp_api = "live" /\ ctp_cb = "idle" /\ ctp_cb' = "listener"
           /\ ctp'.has_received_first = TRUE
  <2>1. Active
    BY <1>4 DEF LifeInv, CtpLife, Alive, Phase, Active
  <2>2. "ctp" \notin Delivering /\ Delivering' = Delivering \cup {"ctp"}
    BY <1>1, <1>4 DEF Delivering
  <2>3. Heard' = TRUE
    BY <1>4 DEF Heard
  <2>4. Contract!Deliver("ctp")
    BY <1>1, <2>1, <2>2, <2>3 DEF Contract!Deliver, Delivering, Heard, Active
  <2>5. QED
    BY <2>4 DEF Contract!Next
<1>5. CASE ctp_cb = "listener" /\ ctp_cb' = "idle" /\ UNCHANGED <<event, ctp>>
  <2>1. Heard' = Heard
    BY <1>1, <1>5 DEF Heard
  <2>2. "ctp" \in Delivering /\ Delivering' = Delivering \ {"ctp"}
    BY <1>1, <1>5 DEF Delivering
  <2>3. Contract!Return("ctp")
    BY <1>1, <2>1, <2>2 DEF Contract!Return, Delivering, Heard
  <2>4. QED
    BY <2>3 DEF Contract!Next
<1>6. QED
  BY <1>2, <1>3, <1>4, <1>5, CtpThread

(* Ticks of indices likewise. *)
LEMMA XtpThreadKeepsContract ==
  ASSUME TypeOK, LifeInv, Alive, XtpNext, UNCHANGED <<ctp_vars, main>>
  PROVE  [Contract!Next]_Contract!vars
<1>1. UNCHANGED <<pc, ctp_cb, ctp>> /\ Phase' = Phase
  BY DEF main, ctp_vars, Phase
<1>2. XtpTypeOK
  BY DEF TypeOK
<1>3. CASE /\ UNCHANGED first_received
           /\ sdk' \in {"tick", "listener"} <=> sdk \in {"tick", "listener"}
  <2>1. Heard' = Heard
    BY <1>1, <1>3 DEF Heard
  <2>2. Delivering' = Delivering
    BY <1>1, <1>3, SameDelivery
  <2>3. QED
    BY <1>1, <2>1, <2>2, Stutters
<1>4. CASE xtp_api \in {"live", "releasing"} /\ first_received' = TRUE
           /\ sdk = "idle" /\ sdk' = "tick"
  <2>1. Active
    BY <1>4 DEF LifeInv, XtpLife, BeforeXtp, Alive, Phase, Active
  <2>2. "xtp" \notin Delivering /\ Delivering' = Delivering \cup {"xtp"}
    BY <1>1, <1>4 DEF Delivering
  <2>3. Heard' = TRUE
    BY <1>4 DEF Heard
  <2>4. Contract!Deliver("xtp")
    BY <1>1, <2>1, <2>2, <2>3 DEF Contract!Deliver, Delivering, Heard, Active
  <2>5. QED
    BY <2>4 DEF Contract!Next
<1>5. CASE UNCHANGED first_received /\ sdk \in {"tick", "listener"} /\ sdk' = "idle"
  <2>1. Heard' = Heard
    BY <1>1, <1>5 DEF Heard
  <2>2. "xtp" \in Delivering /\ Delivering' = Delivering \ {"xtp"}
    BY <1>1, <1>5 DEF Delivering
  <2>3. Contract!Return("xtp")
    BY <1>1, <2>1, <2>2 DEF Contract!Return, Delivering, Heard
  <2>4. QED
    BY <2>3 DEF Contract!Next
<1>6. QED
  BY <1>2, <1>3, <1>4, <1>5, XtpSdkThread

(* A step of the main thread starts, enters, leaves or ends the session, or     *)
(* nothing is seen of it.                                                       *)
LEMMA MainKeepsContract ==
  ASSUME TypeOK, LifeInv, Alive, MainStep \/ FirstTickTimesOut \/ Signal \/ Crash
  PROVE  [Contract!Next]_Contract!vars
<1> USE DEF Go
<1>1. CtpTypeOK /\ XtpTypeOK
  BY DEF TypeOK
<1>2. {"connected", "login", "subscription", "first"} = Events
  BY DEF Events
<1>3. /\ ctp_cb' = ctp_cb
      /\ sdk' \in {"tick", "listener"} <=> sdk \in {"tick", "listener"}
      /\ ctp' = ctp /\ first_received' = first_received
  <2>1. CASE Create \/ CheckLogin \/ CheckSubscription \/ WaitForFirstIndex \/ Exit
             \/ FirstTickTimesOut \/ Signal \/ Crash
    BY <2>1 DEF Create, CheckLogin, CheckSubscription, WaitForFirstIndex, Exit,
                FirstTickTimesOut, Signal, Crash, ctp_vars, xtp_vars
  <2>2. CASE StartCtp
    BY <2>2 DEF StartCtp, CtpCreate, ctp_vars, xtp_vars
  <2>3. CASE WaitForConnect \/ WaitForLogin \/ WaitForSubscription \/ WaitForFirstFuture
    BY <2>3 DEF WaitForConnect, WaitForLogin, WaitForSubscription, WaitForFirstFuture,
                CtpWait, xtp_vars
  <2>4. CASE StartXtp
    <3>1. CASE XtpCreate
      <4>1. pc = "xCreate" /\ ~first_received
        BY <2>4 DEF StartXtp, LifeInv, XtpLife, BeforeXtp
      <4>2. first_received' = FALSE /\ UNCHANGED <<sdk, ctp_cb, ctp>>
        BY <2>4, <3>1 DEF StartXtp, XtpCreate, ctp_vars
      <4>3. QED
        BY <1>1, <4>1, <4>2 DEF XtpTypeOK
    <3>2. QED
      BY <2>4, <3>1 DEF StartXtp, ctp_vars, xtp_vars
  <2>5. CASE ConfigureXtp \/ LogInToXtp \/ XtpStarted
    BY <2>5 DEF ConfigureXtp, XtpConfigure, LogInToXtp, XtpStartSteps, XtpLogin,
                XtpSubscribe, Returns, XtpStarted, XtpStartReturns, ctp_vars
  <2>6. CASE TeardownStep
    BY <2>6 DEF TeardownStep, XtpLogout, XtpFreeBridge, XtpForgetApi, XtpRelease,
                CtpRelease, CtpFreeBridge, ctp_vars, xtp_vars
  <2>7. QED
    BY <2>1, <2>2, <2>3, <2>4, <2>5, <2>6 DEF MainStep
<1>4. Delivering' = Delivering
  BY <1>3, SameDelivery
<1>5. Heard' = Heard
  BY <1>3 DEF Heard
<1>6. CASE Create
  <2>1. Phase = "new" /\ Phase' \in {"starting", "stopped"}
    BY <1>6 DEF Create, Phase
  <2>2. Contract!Start \/ Contract!Refuse
    BY <1>4, <1>5, <2>1 DEF Contract!Start, Contract!Refuse, Delivering, Heard
  <2>3. QED
    BY <2>2 DEF Contract!Next
<1>7. CASE pc' = "stop" /\ Phase \in {"starting", "running"}
  BY <1>4, <1>5, <1>7, LeaveIsBeginStop
<1>8. CASE Phase' = Phase
  BY <1>4, <1>5, <1>8, Stutters
<1>9. CASE Phase = "starting" /\ pc' = "loop" /\ Heard
  <2>1. Phase' = "running"
    BY <1>9 DEF Phase
  <2>2. Contract!Enter
    BY <1>4, <1>5, <1>9, <2>1 DEF Contract!Enter, Delivering, Heard
  <2>3. QED
    BY <2>2 DEF Contract!Next
<1>10. CASE StartCtp \/ CheckLogin \/ CheckSubscription \/ StartXtp \/ XtpStarted
            \/ FirstTickTimesOut \/ Signal
  <2>1. /\ Phase \in {"starting", "running"}
        /\ pc' = "stop" \/ Phase' = Phase
    BY <1>10 DEF StartCtp, CheckLogin, CheckSubscription, StartXtp, XtpStarted,
                 FirstTickTimesOut, Signal, Leave, Phase
  <2>2. QED
    BY <1>7, <1>8, <2>1
<1>11. CASE WaitForConnect \/ WaitForLogin \/ WaitForSubscription \/ ConfigureXtp
            \/ LogInToXtp \/ TeardownStep
  <2>1. Phase' = Phase
    BY <1>11 DEF WaitForConnect, WaitForLogin, WaitForSubscription, ConfigureXtp,
                 LogInToXtp, TeardownStep, main, Phase
  <2>2. QED
    BY <1>8, <2>1
<1>12. CASE WaitForFirstFuture
  <2>1. event["first"]
    BY <1>1, <1>2, <1>12, WaitLeaves DEF WaitForFirstFuture
  <2>2. Heard
    BY <2>1 DEF LifeInv, HeardInv, Heard
  <2>3. Phase = "starting" /\ (pc' = "loop" \/ Phase' = Phase)
    BY <1>12 DEF WaitForFirstFuture, Phase
  <2>4. QED
    BY <1>8, <1>9, <2>2, <2>3
<1>13. CASE WaitForFirstIndex
  <2>1. Heard
    BY <1>13 DEF WaitForFirstIndex, LifeInv, HeardInv, Heard
  <2>2. Phase = "starting" /\ pc' = "loop"
    BY <1>13 DEF WaitForFirstIndex, Phase
  <2>3. QED
    BY <1>9, <2>1, <2>2
<1>14. CASE Exit
  <2>1. pc = "stop" /\ teardown = <<>> /\ pc' = "exited"
    BY <1>14 DEF Exit
  <2>2. ~Pending("cRelease") /\ ~Pending("xRelease")
    BY <2>1 DEF Pending
  <2>3. ctp_cb = "idle" /\ sdk = "idle"
    BY <2>1, <2>2 DEF LifeInv, CtpLife, XtpLife, TeardownInv
  <2>4. Delivering = {} /\ Phase = "stopping" /\ Phase' = "stopped"
    BY <2>1, <2>3 DEF Delivering, Phase
  <2>5. Contract!EndStop
    BY <1>4, <1>5, <2>4 DEF Contract!EndStop, Delivering, Heard
  <2>6. QED
    BY <2>5 DEF Contract!Next
<1>15. CASE Crash
  <2>1. pc = "stop" /\ pc' = "crashed"
    BY <1>15 DEF Crash, LifeInv, XtpLife, Late, Alive
  <2>2. Phase = "stopping" /\ Phase' = "crashed"
    BY <2>1 DEF Phase
  <2>3. Contract!Crash
    BY <1>4, <1>5, <2>2 DEF Contract!Crash, Delivering, Heard
  <2>4. QED
    BY <2>3 DEF Contract!Next
<1>16. QED
  BY <1>6, <1>10, <1>11, <1>12, <1>13, <1>14, <1>15 DEF MainStep

(* The CTP, XTP and dual sessions keep what main.cpp relies on: it enters its   *)
(* loop when market data has arrived, nothing is delivered to the listener      *)
(* after Stop, and the process dies of a session only while stopping it.        *)
THEOREM ContractIsKept == Spec => KeepsContract
<1>1. Init => Contract!Init
  <2> SUFFICES ASSUME Init PROVE Contract!Init
    OBVIOUS
  <2>1. Phase = "new" /\ Delivering = {}
    BY DEF Init, CtpInit, XtpInit, Phase, Delivering
  <2>2. Heard = FALSE
    BY DEF Init, CtpInit, XtpInit, NewFlags, Heard
  <2>3. QED
    BY <2>1, <2>2 DEF Contract!Init, Delivering, Heard
<1>2. TypeOK /\ LifeInv /\ [Next]_vars => [Contract!Next]_Contract!vars
  <2> SUFFICES ASSUME TypeOK, LifeInv, [Next]_vars PROVE [Contract!Next]_Contract!vars
    OBVIOUS
  <2>1. CASE UNCHANGED vars
    <3>1. Phase' = Phase /\ Delivering' = Delivering /\ Heard' = Heard
      BY <2>1 DEF vars, ctp_vars, xtp_vars, main, Phase, Delivering, Heard
    <3>2. QED
      BY <3>1, Stutters
  <2>2. CASE Next
    BY <2>2, MainKeepsContract, CtpThreadKeepsContract, XtpThreadKeepsContract DEF Next
  <2>3. QED
    BY <2>1, <2>2
<1>3. QED
  BY <1>1, <1>2, TypesHold, LifeHolds, PTL DEF Spec, KeepsContract, Contract!Spec
=============================================================================
