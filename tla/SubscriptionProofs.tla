------------------------- MODULE SubscriptionProofs -------------------------
(***************************************************************************)
(* What is subscribed when the sessions' Start returns, and until they are *)
(* stopped, for every set of instruments, every list of indices and every  *)
(* number of connections, refusals, disconnections and denials.            *)
(***************************************************************************)
EXTENDS DualSessionProofs

-----------------------------------------------------------------------------
(* The futures half: what the flags of the bridge say of the front *)

\* The api lives while Start runs.
StartPhase ==
    /\ pc = "cCreate" => ctp_api = "none"
    /\ StartingCtp => ctp_api = "live"

\* A subscription that has succeeded is one of every instrument on the present
\* connection, or OnFrontDisconnected of that connection is still to come;
\* while responses are owed, an instrument is subscribed, owed or in error.
SubscriptionInv ==
    /\ ctp_api = "none" => front.link = "down"
    /\ front.loginDue \/ front.subDue # {} => front.link = "up"
    /\ ctp_api # "released" =>
         /\ ctp.subscription_succeeded =>
               front.link = "lost" \/ (front.link = "up" /\ front.streams = Instruments)
         /\ front.subDue # {} =>
               /\ ~ctp.subscription_succeeded
               /\ \/ ctp.subscription_error_seen
                  \/ front.streams \cup front.subDue = Instruments

\* What the main thread does to the futures half: it creates the api once.
CtpMainInPhase ==
    \/ CtpCreate /\ ctp_api = "none"
    \/ CtpRelease \/ CtpFreeBridge
    \/ \E e \in Events : CtpWait(e)

(* Each callback and each step of the main thread keeps flags and front in   *)
(* agreement; the flags of a bridge whose api is released are not read.      *)
LEMMA CtpKeepsSubscription ==
  ASSUME CtpTypeOK, SubscriptionInv,
         CtpNext \/ CtpMainInPhase \/ UNCHANGED ctp_vars
  PROVE  SubscriptionInv'
<1>1. /\ front \in FrontType /\ ctp \in [FlagNames -> BOOLEAN]
  BY FlagsDomain DEF CtpTypeOK, FrontType
<1>2. /\ NewFront.link = "down" /\ NewFront.subDue = {} /\ NewFront.streams = {}
      /\ NewFront.loginDue = FALSE
      /\ [NewFront EXCEPT !.link = "lost"].link = "lost"
      /\ [NewFront EXCEPT !.link = "lost"].subDue = {}
      /\ [NewFront EXCEPT !.link = "lost"].loginDue = FALSE
  BY DEF NewFront
<1>3. ASSUME UNCHANGED <<front, ctp_api, ctp.subscription_succeeded,
                         ctp.subscription_error_seen>>
      PROVE  SubscriptionInv'
  BY <1>3 DEF SubscriptionInv
<1>4. ASSUME NEW accepted \in BOOLEAN, OnFrontConnected(accepted)
      PROVE  SubscriptionInv'
  <2>1. front.link = "down" /\ ctp_api = "live" /\ ctp_api' = "live"
    BY <1>4 DEF OnFrontConnected, CallbackMayRun
  <2>2. ctp'.subscription_succeeded = ctp.subscription_succeeded
    BY <1>1, <1>4 DEF OnFrontConnected, BeginLoginRequest, FlagNames
  <2>3. front'.subDue = {} /\ front'.link = "up"
    BY <1>2, <1>4 DEF OnFrontConnected, BeginLoginRequest, NewFront
  <2>4. QED
    BY <2>1, <2>2, <2>3 DEF SubscriptionInv
<1>5. CASE FinishCallback \/ CtpListenerReturns
  BY <1>3, <1>5 DEF FinishCallback, CtpListenerReturns
<1>6. CASE LoseFront
  <2>1. /\ front'.link = "lost" /\ front'.subDue = {} /\ front'.loginDue = FALSE
        /\ UNCHANGED <<ctp, ctp_api>>
    BY <1>2, <1>6 DEF LoseFront
  <2>2. front.link = "up"
    BY <1>6 DEF LoseFront
  <2>3. QED
    BY <2>1, <2>2 DEF SubscriptionInv
<1>7. CASE OnFrontDisconnected
  <2>1. /\ front'.subDue = {} /\ front'.loginDue = FALSE
        /\ ctp_api = "live" /\ ctp_api' = ctp_api
    BY <1>2, <1>7 DEF OnFrontDisconnected, CallbackMayRun
  <2>2. ~ctp'.subscription_succeeded
    BY <1>1, <1>7 DEF OnFrontDisconnected, FlagNames
  <2>3. QED
    BY <2>1, <2>2 DEF SubscriptionInv
<1>8. ASSUME NEW ok \in BOOLEAN, NEW accepted \in BOOLEAN, OnRspUserLogin(ok, accepted)
      PROVE  SubscriptionInv'
  <2>1. ctp_api = "live" /\ ctp_api' = ctp_api /\ front.link = "up"
    BY <1>8 DEF SubscriptionInv, OnRspUserLogin, CallbackMayRun
  <2>2. CASE BeginSubscriptionRequest(accepted)
    <3>1. ~ctp'.subscription_succeeded
      BY <1>1, <2>2 DEF BeginSubscriptionRequest, FlagNames
    <3>2. /\ front'.subDue \in {{}, Instruments}
          /\ front'.streams \subseteq Instruments
          /\ front'.link = front.link
      BY <1>1, <2>2 DEF BeginSubscriptionRequest, FrontType
    <3>3. QED
      BY <2>1, <3>1, <3>2 DEF SubscriptionInv
  <2>3. CASE /\ ctp' = [ctp EXCEPT !.login_succeeded = FALSE]
             /\ front' = [front EXCEPT !.loginDue = FALSE, !.refused = TRUE]
    <3>1. UNCHANGED <<front.link, front.subDue, front.streams>>
      BY <1>1, <2>3 DEF FrontType
    <3>2. UNCHANGED <<ctp.subscription_succeeded, ctp.subscription_error_seen>>
      BY <1>1, <2>3 DEF FlagNames
    <3>3. QED
      BY <2>1, <3>1, <3>2 DEF SubscriptionInv
  <2>4. QED
    BY <1>8, <2>2, <2>3 DEF OnRspUserLogin
<1>9. ASSUME NEW i \in Instruments, NEW ok \in BOOLEAN, OnRspSubMarketData(i, ok)
      PROVE  SubscriptionInv'
  <2>1. /\ ctp_api = "live" /\ ctp_api' = ctp_api /\ i \in front.subDue
    BY <1>9 DEF OnRspSubMarketData, CallbackMayRun
  <2>2. /\ front'.link = front.link /\ front'.subDue = front.subDue \ {i}
        /\ front'.loginDue = front.loginDue
        /\ front'.streams = IF ok THEN front.streams \cup {i} ELSE front.streams
    BY <1>1, <1>9 DEF OnRspSubMarketData, FrontType
  <2>3. /\ ctp'.subscription_error_seen = (ctp.subscription_error_seen \/ ~ok)
        /\ ctp'.subscription_succeeded =
              IF front.subDue = {i} THEN ~(ctp.subscription_error_seen \/ ~ok)
              ELSE ctp.subscription_succeeded
    BY <1>1, <1>9 DEF OnRspSubMarketData, Erroneous, FlagNames
  <2>4. /\ ~ctp.subscription_succeeded
        /\ \/ ctp.subscription_error_seen
           \/ front.streams \cup front.subDue = Instruments
    BY <2>1 DEF SubscriptionInv
  <2>5. ~ctp'.subscription_error_seen =>
           front'.streams \cup front'.subDue = Instruments
    BY <2>1, <2>2, <2>3, <2>4
  <2>6. front.link = "up"
    BY <2>1 DEF SubscriptionInv
  <2>7. CASE front.subDue = {i}
    BY <2>1, <2>2, <2>3, <2>5, <2>6, <2>7 DEF SubscriptionInv
  <2>8. CASE front.subDue # {i}
    BY <2>1, <2>2, <2>3, <2>4, <2>5, <2>6, <2>8 DEF SubscriptionInv
  <2>9. QED
    BY <2>7, <2>8
<1>10. CASE OnRtnDepthMarketData
  <2>1. UNCHANGED <<front, ctp_api, ctp.subscription_succeeded,
                    ctp.subscription_error_seen>>
    BY <1>1, <1>10 DEF OnRtnDepthMarketData, FlagNames
  <2>2. QED
    BY <1>3, <2>1
<1>11. CASE CtpMainInPhase
  <2>1. CASE CtpCreate /\ ctp_api = "none"
    BY <2>1 DEF CtpCreate, SubscriptionInv
  <2>2. CASE CtpFreeBridge \/ \E e \in Events : CtpWait(e)
    BY <1>3, <2>2 DEF CtpFreeBridge, CtpWait
  <2>3. CASE CtpRelease
    <3>1. /\ front'.link = "down" /\ front'.subDue = {} /\ ctp' = ctp
          /\ front'.loginDue = FALSE
          /\ (ctp_api' # "released" => ctp_api = "none")
      BY <1>2, <2>3 DEF CtpRelease, CtpTypeOK
    <3>2. QED
      BY <3>1 DEF SubscriptionInv
  <2>4. QED
    BY <1>11, <2>1, <2>2, <2>3 DEF CtpMainInPhase
<1>12. CASE UNCHANGED ctp_vars
  BY <1>3, <1>12 DEF ctp_vars
<1>13. QED
  BY <1>4, <1>5, <1>6, <1>7, <1>8, <1>9, <1>10, <1>11, <1>12
  DEF CtpNext, CtpAnswers, CtpFinishes

(* The main thread creates the api once, and waits only while it lives.     *)
LEMMA MainInPhase ==
  ASSUME TypeOK, LifeInv, StartPhase, MainStep \/ FirstTickTimesOut \/ Signal \/ Crash
  PROVE  StartPhase' /\ (CtpMainInPhase \/ UNCHANGED ctp_vars)
<1> USE DEF Go, StartPhase, StartingCtp
<1>1. CtpTypeOK /\ {"connected", "login", "subscription", "first"} = Events
  BY DEF TypeOK, Events
<1>2. CASE Create
  <2>1. ctp_api = "none" /\ UNCHANGED ctp_vars
    BY <1>2 DEF Create, LifeInv, CtpLife
  <2>2. pc' \in {"exited", "xCreate", "cCreate"}
    BY <1>2 DEF Create
  <2>3. QED
    BY <2>1, <2>2 DEF ctp_vars
<1>3. CASE StartCtp
  <2>1. CASE CtpCreate /\ pc' = "cConnected"
    BY <1>3, <2>1 DEF StartCtp, CtpCreate, CtpMainInPhase
  <2>2. CASE Leave(StopOrder) /\ UNCHANGED ctp_vars
    BY <2>2 DEF Leave
  <2>3. QED
    BY <1>3, <2>1, <2>2 DEF StartCtp
<1>4. CASE WaitForConnect \/ WaitForLogin \/ WaitForSubscription \/ WaitForFirstFuture
  <2>1. \E e \in Events : CtpWait(e)
    BY <1>4, Zenon
    DEF WaitForConnect, WaitForLogin, WaitForSubscription, WaitForFirstFuture, Events
  <2>2. ctp_api' = ctp_api
    BY <1>1, <2>1, WaitLeaves
  <2>3. \/ pc \in {"cConnected", "cLogin", "cSub"} /\ pc' # "cCreate"
        \/ pc' \in {"firstIndex", "loop"}
    BY <1>4 DEF WaitForConnect, WaitForLogin, WaitForSubscription, WaitForFirstFuture
  <2>4. QED
    BY <2>1, <2>2, <2>3 DEF CtpMainInPhase
<1>5. CASE CheckLogin \/ CheckSubscription
  <2>1. /\ pc \in {"cLoginCheck", "cSubCheck"} /\ UNCHANGED ctp_vars
        /\ pc' \in {"cSub", "first", "xCreate", "stop"}
    BY <1>5 DEF CheckLogin, CheckSubscription, Leave
  <2>2. QED
    BY <2>1 DEF ctp_vars
<1>6. CASE StartXtp \/ ConfigureXtp \/ XtpStarted \/ WaitForFirstIndex \/ Exit
           \/ FirstTickTimesOut \/ Signal \/ Crash
  BY <1>6 DEF StartXtp, ConfigureXtp, XtpStarted, WaitForFirstIndex, Exit,
     FirstTickTimesOut, Signal, Crash, Leave
<1>7. CASE LogInToXtp
  BY <1>7 DEF LogInToXtp, main, ctp_vars
<1>8. CASE TeardownStep
  <2>1. \/ UNCHANGED ctp_vars
        \/ CtpRelease \/ CtpFreeBridge
    BY <1>8 DEF TeardownStep
  <2>2. pc' = "stop"
    BY <1>8 DEF TeardownStep
  <2>3. QED
    BY <2>1, <2>2 DEF CtpMainInPhase
<1>9. QED
  BY <1>2, <1>3, <1>4, <1>5, <1>6, <1>7, <1>8 DEF MainStep

(* The agreement of flags and front at every moment.                        *)
LEMMA SubscriptionHolds == Spec => [](StartPhase /\ SubscriptionInv)
<1>1. Init => StartPhase /\ SubscriptionInv
  BY DEF Init, CtpInit, NewFront, NewFlags, StartPhase, StartingCtp, SubscriptionInv
<1>2. TypeOK /\ LifeInv /\ StartPhase /\ SubscriptionInv /\ [Next]_vars
         => StartPhase' /\ SubscriptionInv'
  <2> SUFFICES ASSUME TypeOK, LifeInv, StartPhase, SubscriptionInv, [Next]_vars
               PROVE  /\ StartPhase'
                      /\ CtpNext \/ CtpMainInPhase \/ UNCHANGED ctp_vars
    BY CtpKeepsSubscription DEF TypeOK
  <2>1. ASSUME UNCHANGED <<main, ctp_api>> PROVE StartPhase'
    BY <2>1 DEF StartPhase, StartingCtp, main
  <2>2. CASE CtpNext /\ UNCHANGED <<xtp_vars, main>>
    BY <2>1, <2>2, CtpThread DEF TypeOK
  <2>3. CASE UNCHANGED <<ctp_vars, main>>
    BY <2>1, <2>3 DEF ctp_vars
  <2>4. CASE MainStep \/ FirstTickTimesOut \/ Signal \/ Crash
    BY <2>4, MainInPhase
  <2>5. QED
    BY <2>2, <2>3, <2>4 DEF Next, vars
<1>3. QED
  BY <1>1, <1>2, TypesHold, LifeHolds, PTL DEF Spec

(* When MdApiSession::Start returns true, every instrument is subscribed on  *)
(* the present connection, or that connection is gone and its                *)
(* OnFrontDisconnected still to come: no error of an earlier response or of  *)
(* an earlier connection is forgotten.                                       *)
THEOREM StartSubscribes == Spec => StartMeansSubscribed
<1> DEFINE Returned == pc = "cSubCheck" /\ pc' \in {"xCreate", "first"}
<1>1. StartPhase /\ SubscriptionInv /\ [Next]_vars
         => [Returned => front.streams = Instruments \/ front.link = "lost"]_vars
  <2> SUFFICES ASSUME StartPhase, SubscriptionInv, Next, Returned
               PROVE  front.streams = Instruments \/ front.link = "lost"
    OBVIOUS
  <2>1. CheckSubscription
    BY DEF Next, MainStep, Create, StartCtp, WaitForConnect, WaitForLogin, CheckLogin,
       WaitForSubscription, StartXtp, ConfigureXtp, LogInToXtp, XtpStarted,
       WaitForFirstFuture, WaitForFirstIndex, TeardownStep, Exit, FirstTickTimesOut,
       Signal, Crash, Go, main
  <2>2. ctp.subscription_succeeded /\ ctp_api = "live"
    BY <2>1 DEF CheckSubscription, SubscriptionIsGood, Leave, StartPhase, StartingCtp
  <2>3. QED
    BY <2>2 DEF SubscriptionInv
<1>2. QED
  BY <1>1, SubscriptionHolds, PTL DEF Spec, StartMeansSubscribed

-----------------------------------------------------------------------------
(* The index half: who subscribes, and what is left of it *)

\* No thread has logged in yet.
Quiet == ~xserver.login /\ ~xserver.discDue /\ call["sdk"].at = "idle"

\* Every exchange is subscribed, or there is a reason why not.
Kept ==
    \/ xserver.streams = Groups
    \/ xserver.discDue \/ sdk = "recover"
    \/ denials > 0

\* What thread t has subscribed so far is still there.
Progress(t) == xserver.login /\ call[t].done \subseteq xserver.streams

\* The main thread in LoginAndSubscribe: it is the first to log in; after a
\* disconnection the library's thread takes over.
MainCall ==
    /\ call["main"].at = "login" => Quiet /\ call["main"].done = {}
    /\ call["main"].at = "subscribe" => Kept \/ Progress("main")
    /\ call["main"].at = "succeeded" => Kept

\* The library's thread: it logs in on a connection that nobody else uses, and
\* only a further disconnection, which is reported, or Stop undo what it does.
SdkCall ==
    /\ call["sdk"].at = "login" =>
         call["sdk"].done = {} /\ ~xserver.login /\ ~xserver.discDue
    /\ started /\ call["sdk"].at = "subscribe" => xserver.discDue \/ Progress("sdk")

\* Where the main thread is meanwhile
IndexPhase ==
    /\ pc \in BeforeXtp \cup {"xConfigure"} => Quiet
    /\ pc = "xConfigure" => started /\ HasXtp
    /\ call["main"].at # "idle" => pc = "xLogin" /\ started
    /\ pc \in {"first", "firstIndex", "loop"} /\ HasXtp => started

IndexInv ==
    /\ xserver.discDue => ~xserver.login
    /\ MainCall /\ SdkCall /\ IndexPhase /\ IndexIsKept

(* What a call that returns leaves behind.                                  *)
LEMMA ReturnsLeaves ==
  ASSUME XtpTypeOK, NEW t \in Threads, NEW result \in BOOLEAN, Returns(t, result)
  PROVE  /\ t = "sdk" => /\ call'["sdk"].at = "idle" /\ sdk' = "idle"
                         /\ call'["main"] = call["main"]
         /\ t = "main" => /\ call'["sdk"] = call["sdk"] /\ sdk' = sdk
                          /\ call'["main"].at = IF result THEN "succeeded" ELSE "failed"
<1>1. call \in [Threads -> CallType]
  BY DEF XtpTypeOK, CallType
<1>2. QED
  BY <1>1 DEF Returns, NotCalling, Calling, Threads

\* A step of thread t in LoginAndSubscribe: nothing that was subscribed is lost,
\* and when the call returns, there is nothing left to do or a reason for it.
CallStep(t) ==
    /\ UNCHANGED <<mode, pc, started>>
    /\ xserver'.discDue = xserver.discDue
    /\ xserver.login => xserver'.login
    /\ ~xserver.login /\ xserver'.login => call[t].at = "login"
    /\ xserver.streams \subseteq xserver'.streams /\ xserver'.streams \subseteq Groups
    /\ denials > 0 => denials' > 0
    /\ t = "main" => /\ call'["sdk"] = call["sdk"] /\ sdk' = sdk
                     /\ call'["main"].at \in {"subscribe", "succeeded", "failed"}
    /\ t = "sdk" => /\ call'["main"] = call["main"]
                    /\ \/ call'["sdk"].at = "subscribe" /\ sdk' = sdk
                       \/ call'["sdk"].at = "idle" /\ sdk' = "idle"
    /\ started => /\ call'[t].at = "subscribe" =>
                        \/ Progress(t)'
                        \/ IF t = "main" THEN Kept' ELSE xserver'.discDue
                  /\ call'[t].at \in {"idle", "succeeded"} => Kept'

(* The two threads do not spoil each other's work.                          *)
LEMMA CallKeepsIndex ==
  ASSUME XtpTypeOK, IndexInv, NEW t \in Threads, call[t].at # "idle", CallStep(t)
  PROVE  IndexInv'
<1>1. t \in {"main", "sdk"}
  BY DEF Threads
<1>2. /\ UNCHANGED <<mode, pc, started>>
      /\ xserver'.discDue = xserver.discDue
      /\ xserver.login => xserver'.login
      /\ xserver.streams \subseteq xserver'.streams /\ xserver'.streams \subseteq Groups
      /\ denials > 0 => denials' > 0
  BY DEF CallStep
<1>3. /\ call["main"].at = "login" => t = "main" /\ Quiet
      /\ call["main"].at # "idle" => pc = "xLogin" /\ started
      /\ pc \notin BeforeXtp \cup {"xConfigure"}
  BY <1>1 DEF IndexInv, MainCall, IndexPhase, Quiet, BeforeXtp
<1>4. xserver'.discDue => ~xserver'.login
  BY <1>1, <1>2, <1>3 DEF CallStep, IndexInv, SdkCall, Quiet
<1>5. Kept /\ started => Kept'
  BY <1>1, <1>2 DEF CallStep, Kept
<1>6. MainCall'
  <2>1. CASE t = "main"
    BY <1>2, <1>3, <2>1 DEF CallStep, MainCall
  <2>2. CASE t = "sdk"
    BY <1>2, <1>3, <1>5, <2>2 DEF CallStep, IndexInv, MainCall, Progress
  <2>3. QED
    BY <1>1, <2>1, <2>2
<1>7. SdkCall'
  <2>1. CASE t = "main"
    BY <1>2, <1>3, <2>1 DEF CallStep, IndexInv, SdkCall, Progress, Quiet
  <2>2. CASE t = "sdk"
    BY <1>2, <2>2 DEF CallStep, SdkCall
  <2>3. QED
    BY <1>1, <2>1, <2>2
<1>8. IndexPhase'
  BY <1>1, <1>2, <1>3 DEF CallStep, IndexInv, IndexPhase, HasXtp
<1>9. IndexIsKept'
  BY <1>2, <1>5 DEF IndexInv, IndexPhase, IndexIsKept, Kept, HasXtp
<1>10. QED
  BY <1>4, <1>6, <1>7, <1>8, <1>9 DEF IndexInv

(* A login is the first on its connection: only the server turns it down.   *)
LEMMA LoginIsCallStep ==
  ASSUME XtpTypeOK, IndexInv, NEW t \in Threads, XtpLogin(t), UNCHANGED <<mode, pc>>
  PROVE  CallStep(t)
<1>1. /\ xserver \in ServerType /\ call \in [Threads -> CallType] /\ denials \in Nat
      /\ MaxDenials \in Nat /\ t \in {"main", "sdk"}
  BY XtpAssumption DEF XtpTypeOK, ServerType, CallType, Threads
<1>2. /\ UNCHANGED <<started, mode, pc>> /\ call[t].at = "login"
      /\ call[t].done = {} /\ ~xserver.login /\ ~xserver.discDue
  BY <1>1 DEF XtpLogin, IndexInv, MainCall, SdkCall, Quiet
<1>3. CASE Returns(t, FALSE) /\ UNCHANGED xserver /\ Denied(xserver.login)
  <2>1. denials' > 0
    BY <1>1, <1>2, <1>3 DEF Denied
  <2>2. QED
    BY <1>1, <1>2, <1>3, <2>1, ReturnsLeaves DEF CallStep, Kept, ServerType
<1>4. ASSUME xserver' = [xserver EXCEPT !.login = TRUE], UNCHANGED denials
      PROVE  CallStep(t)
  <2>1. /\ xserver'.login /\ xserver'.discDue = xserver.discDue
        /\ xserver'.streams = xserver.streams /\ xserver.streams \subseteq Groups
    BY <1>1, <1>4 DEF ServerType
  <2>2. CASE Groups # {} /\ call' = [call EXCEPT ![t].at = "subscribe"] /\ UNCHANGED sdk
    <3>1. call'[t].at = "subscribe" /\ call'[t].done = {}
      BY <1>1, <1>2, <2>2 DEF CallType
    <3>2. \A u \in Threads : u # t => call'[u] = call[u]
      BY <1>1, <2>2
    <3>3. QED
      BY <1>1, <1>2, <1>4, <2>1, <2>2, <3>1, <3>2 DEF CallStep, Progress, Threads
  <2>3. CASE Groups = {} /\ Returns(t, FALSE)
    BY <1>1, <1>2, <1>4, <2>1, <2>3, ReturnsLeaves DEF CallStep, Kept
  <2>4. QED
    BY <1>2, <1>4, <2>1, <2>2, <2>3 DEF XtpLogin
<1>5. QED
  BY <1>3, <1>4 DEF XtpLogin

(* A subscription: the last one completes the exchanges, and a failed one    *)
(* has been turned down by the server or came after a disconnection.        *)
LEMMA SubscribeIsCallStep ==
  ASSUME XtpTypeOK, IndexInv, NEW t \in Threads, NEW g \in Groups, XtpSubscribe(t, g),
         UNCHANGED <<mode, pc>>
  PROVE  CallStep(t)
<1>1. /\ xserver \in ServerType /\ call \in [Threads -> CallType] /\ denials \in Nat
      /\ MaxDenials \in Nat /\ t \in {"main", "sdk"}
  BY XtpAssumption DEF XtpTypeOK, ServerType, CallType, Threads
<1> DEFINE done == call[t].done \cup {g}
<1>2. UNCHANGED <<started, mode, pc>> /\ call[t].at = "subscribe"
  BY DEF XtpSubscribe
<1>3. started =>
         \/ Progress(t)
         \/ IF t = "main" THEN Kept ELSE xserver.discDue
  BY <1>1, <1>2 DEF IndexInv, MainCall, SdkCall
<1>4. CASE ~xserver.login /\ Returns(t, FALSE) /\ UNCHANGED <<xserver, denials>>
  BY <1>1, <1>2, <1>3, <1>4, ReturnsLeaves DEF CallStep, Kept, Progress, ServerType
<1>5. CASE Denied(FALSE) /\ Returns(t, FALSE) /\ UNCHANGED xserver
  <2>1. denials' > 0
    BY <1>1, <1>5 DEF Denied
  <2>2. QED
    BY <1>1, <1>2, <1>5, <2>1, ReturnsLeaves DEF CallStep, Kept, ServerType
<1>6. ASSUME xserver.login, xserver' = [xserver EXCEPT !.streams = @ \cup {g}],
             UNCHANGED denials,
             \/ done # Groups /\ call' = [call EXCEPT ![t].done = done] /\ UNCHANGED sdk
             \/ done = Groups /\ Returns(t, TRUE)
      PROVE  CallStep(t)
  <2>1. /\ xserver'.login = xserver.login /\ xserver'.discDue = xserver.discDue
        /\ xserver'.streams = xserver.streams \cup {g}
        /\ xserver.streams \subseteq Groups /\ xserver'.streams \subseteq Groups
    BY <1>1, <1>6 DEF ServerType
  <2>2. started =>
           \/ xserver'.login /\ done \subseteq xserver'.streams
           \/ IF t = "main" THEN Kept ELSE xserver'.discDue
    BY <1>3, <1>6, <2>1 DEF Progress
  <2>3. CASE done # Groups /\ call' = [call EXCEPT ![t].done = done] /\ UNCHANGED sdk
    <3>1. call'[t].at = "subscribe" /\ call'[t].done = done
      BY <1>1, <1>2, <2>3 DEF CallType
    <3>2. \A u \in Threads : u # t => call'[u] = call[u]
      BY <1>1, <2>3
    <3>3. t = "main" /\ Kept => Kept'
      BY <1>6, <2>1, <2>3 DEF Kept
    <3>4. QED
      BY <1>1, <1>2, <1>6, <2>1, <2>2, <2>3, <3>1, <3>2, <3>3
      DEF CallStep, Progress, Threads
  <2>4. CASE done = Groups /\ Returns(t, TRUE)
    <3>1. started => Kept'
      BY <1>1, <1>6, <2>1, <2>2, <2>4, ReturnsLeaves DEF Kept
    <3>2. QED
      BY <1>1, <1>2, <1>6, <2>1, <2>4, <3>1, ReturnsLeaves DEF CallStep
  <2>5. QED
    BY <1>6, <2>3, <2>4
<1>7. QED
  BY <1>4, <1>5, <1>6 DEF XtpSubscribe

(* The library's thread keeps the invariant.                                *)
LEMMA SdkKeepsIndex ==
  ASSUME XtpTypeOK, IndexInv, XtpNext, UNCHANGED main
  PROVE  IndexInv'
<1>1. /\ xserver \in ServerType /\ call \in [Threads -> CallType]
      /\ UNCHANGED <<mode, pc>>
  BY DEF XtpTypeOK, ServerType, CallType, main
<1>2. CASE OnDisconnected
  <2>1. /\ xserver.discDue /\ ~xserver.login /\ ~Quiet
        /\ xserver'.login = xserver.login /\ xserver'.streams = xserver.streams
        /\ xserver'.discDue = FALSE
        /\ UNCHANGED <<started, denials>>
    BY <1>1, <1>2 DEF OnDisconnected, IndexInv, Quiet, ServerType
  <2>2. CASE /\ started /\ sdk' = "recover"
             /\ call' = [call EXCEPT !["sdk"] = Calling("login", {})]
    <3>1. /\ call'["main"] = call["main"]
          /\ call'["sdk"].at = "login" /\ call'["sdk"].done = {}
      BY <1>1, <2>2 DEF Calling, Threads
    <3>2. Kept' /\ call'["main"].at # "login"
      BY <2>1, <2>2, <3>1 DEF Kept, IndexInv, MainCall
    <3>3. QED
      BY <1>1, <2>1, <2>2, <3>1, <3>2 DEF IndexInv, MainCall, SdkCall, IndexPhase,
         IndexIsKept, Kept, HasXtp
  <2>3. CASE ~started /\ UNCHANGED <<sdk, call>>
    BY <1>1, <2>1, <2>3 DEF IndexInv, MainCall, SdkCall, IndexPhase, IndexIsKept, HasXtp
  <2>4. QED
    BY <1>2, <2>2, <2>3 DEF OnDisconnected
<1>3. CASE XtpLogin("sdk")
  <2>1. "sdk" \in Threads /\ call["sdk"].at # "idle"
    BY <1>3 DEF XtpLogin, Threads
  <2>2. QED
    BY <1>1, <1>3, <2>1, LoginIsCallStep, CallKeepsIndex
<1>4. ASSUME NEW g \in Groups, XtpSubscribe("sdk", g) PROVE IndexInv'
  <2>1. "sdk" \in Threads /\ call["sdk"].at # "idle"
    BY <1>4 DEF XtpSubscribe, Threads
  <2>2. QED
    BY <1>1, <1>4, <2>1, SubscribeIsCallStep, CallKeepsIndex
<1>5. CASE XtpNullCall \/ XtpTellListener \/ XtpListenerReturns \/ OnDepthMarketData
  <2>1. /\ UNCHANGED <<xserver, call, denials, started>>
        /\ sdk = "recover" => sdk' = "recover"
    BY <1>5 DEF XtpNullCall, XtpTellListener, XtpListenerReturns, OnDepthMarketData,
       SdkIsFree
  <2>2. QED
    BY <1>1, <2>1 DEF IndexInv, MainCall, SdkCall, IndexPhase, IndexIsKept, Kept, Quiet,
       Progress, HasXtp
<1>6. CASE XtpDrop
  <2>1. /\ xserver.login /\ ~Quiet /\ xserver'.discDue /\ ~xserver'.login
        /\ UNCHANGED <<call, started, sdk, denials>>
    BY <1>1, <1>6 DEF XtpDrop, NewServer, Quiet
  <2>2. QED
    BY <1>1, <2>1 DEF IndexInv, MainCall, SdkCall, IndexPhase, IndexIsKept, Kept, HasXtp
<1>7. QED
  BY <1>2, <1>3, <1>4, <1>5, <1>6 DEF XtpNext, XtpThread, XtpRecoverySteps

(* The main thread keeps it on the way to the loop and out of it.           *)
LEMMA MainKeepsIndex ==
  ASSUME TypeOK, LifeInv, StartPhase, IndexInv, Alive,
         MainStep \/ FirstTickTimesOut \/ Signal \/ Crash
  PROVE  IndexInv'
<1> USE DEF Go, Leave
<1>1. /\ xserver \in ServerType /\ call \in [Threads -> CallType] /\ XtpTypeOK
      /\ "main" \in Threads
  BY DEF TypeOK, XtpTypeOK, ServerType, CallType, Threads
<1>2. ASSUME UNCHANGED <<xserver, call, sdk, denials, started>>,
             pc # "xLogin" \/ call["main"].at = "idle",
             pc' \in BeforeXtp => pc \in BeforeXtp, pc' # "xConfigure",
             pc' \in {"first", "firstIndex", "loop"} =>
                UNCHANGED mode /\ (pc \in {"first", "firstIndex"} \/ ~HasXtp)
      PROVE  IndexInv'
  BY <1>2 DEF IndexInv, MainCall, SdkCall, IndexPhase, IndexIsKept, Kept, Quiet,
     Progress, HasXtp
<1>3. CASE Create \/ StartCtp \/ WaitForConnect \/ WaitForLogin \/ WaitForSubscription
           \/ CheckLogin
  <2>1. /\ UNCHANGED xtp_vars /\ pc \in BeforeXtp
        /\ pc' \in {"exited", "xCreate", "cCreate", "cConnected", "cLogin", "cLoginCheck",
                    "cSub", "cSubCheck", "stop"}
    BY <1>3 DEF Create, StartCtp, WaitForConnect, WaitForLogin, WaitForSubscription,
       CheckLogin, BeforeXtp
  <2>2. QED
    BY <1>2, <2>1 DEF xtp_vars, BeforeXtp
<1>4. CASE CheckSubscription
  <2>1. /\ UNCHANGED xtp_vars /\ pc = "cSubCheck"
        /\ pc' \in {"xCreate", "stop"} \/ (pc' = "first" /\ mode # "dual" /\ UNCHANGED mode)
    BY <1>4 DEF CheckSubscription
  <2>2. HasCtp
    BY <2>1 DEF StartPhase, StartingCtp, LifeInv, CtpLife
  <2>3. QED
    BY <1>2, <2>1, <2>2 DEF xtp_vars, BeforeXtp, HasCtp, HasXtp
<1>5. CASE WaitForFirstFuture \/ WaitForFirstIndex \/ FirstTickTimesOut \/ Signal \/ Exit
  <2>1. /\ UNCHANGED xtp_vars /\ pc # "xLogin"
        /\ \/ pc' \in {"stop", "exited"}
           \/ pc \in {"first", "firstIndex"} /\ pc' \in {"firstIndex", "loop"}
              /\ UNCHANGED mode
    BY <1>5 DEF WaitForFirstFuture, WaitForFirstIndex, FirstTickTimesOut, Signal, Exit
  <2>2. QED
    BY <1>2, <2>1 DEF xtp_vars, BeforeXtp
<1>6. CASE Crash
  <2>1. pc \in Late /\ pc' = "crashed" /\ UNCHANGED xtp_vars
    BY <1>6 DEF Crash, LifeInv, XtpLife
  <2>2. QED
    BY <1>2, <2>1 DEF xtp_vars, BeforeXtp, Late
<1>7. CASE StartXtp
  <2>1. CASE XtpCreate /\ pc' = "xConfigure" /\ UNCHANGED mode
    <3>1. pc = "xCreate" /\ HasXtp /\ Quiet /\ call["main"].at = "idle"
      BY <1>7 DEF StartXtp, LifeInv, XtpLife, IndexInv, IndexPhase, BeforeXtp
    <3>2. UNCHANGED <<xserver, call, sdk, denials>> /\ started'
      BY <2>1 DEF XtpCreate
    <3>3. QED
      BY <2>1, <3>1, <3>2 DEF IndexInv, MainCall, SdkCall, IndexPhase, IndexIsKept,
         Quiet, HasXtp
  <2>2. CASE pc' = "stop" /\ UNCHANGED xtp_vars
    BY <1>2, <1>7, <2>2 DEF StartXtp, xtp_vars, BeforeXtp
  <2>3. QED
    BY <1>7, <2>1, <2>2 DEF StartXtp
<1>8. CASE ConfigureXtp
  <2>1. /\ pc = "xConfigure" /\ pc' = "xLogin" /\ Quiet /\ started
        /\ UNCHANGED <<xserver, sdk, denials, started, mode>>
    BY <1>8 DEF ConfigureXtp, XtpConfigure, IndexInv, IndexPhase
  <2>2. /\ call'["sdk"] = call["sdk"] /\ call'["main"].done = {}
        /\ call'["main"].at \in {"login", "failed"}
    BY <1>1, <1>8 DEF ConfigureXtp, XtpConfigure, Calling, Threads
  <2>3. QED
    BY <2>1, <2>2 DEF IndexInv, MainCall, SdkCall, IndexPhase, IndexIsKept, Quiet,
       BeforeXtp
<1>9. CASE LogInToXtp
  <2>1. UNCHANGED <<mode, pc>>
    BY <1>9 DEF LogInToXtp, main
  <2>2. CASE XtpLogin("main")
    <3>1. call["main"].at # "idle"
      BY <2>2 DEF XtpLogin
    <3>2. QED
      BY <1>1, <2>1, <2>2, <3>1, LoginIsCallStep, CallKeepsIndex
  <2>3. ASSUME NEW g \in Groups, XtpSubscribe("main", g) PROVE IndexInv'
    <3>1. call["main"].at # "idle"
      BY <2>3 DEF XtpSubscribe
    <3>2. QED
      BY <1>1, <2>1, <2>3, <3>1, SubscribeIsCallStep, CallKeepsIndex
  <2>4. QED
    BY <1>9, <2>2, <2>3 DEF LogInToXtp, XtpStartSteps
<1>10. CASE XtpStarted
  <2>1. /\ pc = "xLogin" /\ UNCHANGED <<xserver, sdk, denials>>
        /\ \/ pc' = "stop" /\ started' = FALSE
           \/ pc' = "first" /\ call["main"].at = "succeeded" /\ started' = TRUE
    BY <1>10 DEF XtpStarted, XtpStartReturns
  <2>2. call'["sdk"] = call["sdk"] /\ call'["main"].at = "idle"
    BY <1>1, <1>10 DEF XtpStarted, XtpStartReturns, NotCalling, Threads
  <2>3. call["main"].at = "succeeded" => Kept /\ started
    BY DEF IndexInv, MainCall, IndexPhase
  <2>4. QED
    BY <2>1, <2>2, <2>3 DEF IndexInv, MainCall, SdkCall, IndexPhase, IndexIsKept, Kept,
       Progress, BeforeXtp
<1>11. CASE TeardownStep
  <2>1. pc = "stop" /\ pc' = "stop"
    BY <1>11 DEF TeardownStep
  <2>2. CASE XtpLogout
    <3>1. /\ xserver'.login = FALSE /\ xserver'.discDue = xserver.discDue
          /\ started' = FALSE /\ UNCHANGED <<call, sdk, denials>>
      BY <1>1, <2>2 DEF XtpLogout, ServerType
    <3>2. QED
      BY <2>1, <3>1 DEF IndexInv, MainCall, SdkCall, IndexPhase, IndexIsKept, BeforeXtp
  <2>3. CASE \/ XtpFreeBridge \/ XtpForgetApi \/ XtpRelease
             \/ UNCHANGED xtp_vars
    <3>1. UNCHANGED <<xserver, call, sdk, denials, started>>
      BY <2>3 DEF XtpFreeBridge, XtpForgetApi, XtpRelease, xtp_vars
    <3>2. QED
      BY <1>2, <2>1, <3>1 DEF BeforeXtp
  <2>4. QED
    BY <1>11, <2>2, <2>3 DEF TeardownStep
<1>12. QED
  BY <1>3, <1>4, <1>5, <1>6, <1>7, <1>8, <1>9, <1>10, <1>11 DEF MainStep

(* Once Start of an index session has returned true and until it is stopped, *)
(* every exchange is subscribed, or a disconnection is being dealt with, or  *)
(* the server has turned something down: however the main thread and the     *)
(* library's thread overtake each other in LoginAndSubscribe.               *)
THEOREM IndexStays == Spec => []IndexIsKept
<1>1. Init => IndexInv
  BY DEF Init, XtpInit, NewServer, NotCalling, Threads, IndexInv, MainCall, SdkCall,
     IndexPhase, IndexIsKept, Quiet
<1>2. TypeOK /\ LifeInv /\ StartPhase /\ IndexInv /\ [Next]_vars => IndexInv'
  <2> SUFFICES ASSUME TypeOK, LifeInv, StartPhase, IndexInv, [Next]_vars PROVE IndexInv'
    OBVIOUS
  <2>1. CASE UNCHANGED <<xtp_vars, main>>
    BY <2>1 DEF xtp_vars, main, IndexInv, MainCall, SdkCall, IndexPhase, IndexIsKept,
       Kept, Quiet, Progress, HasXtp
  <2>2. CASE Alive /\ (MainStep \/ FirstTickTimesOut \/ Signal \/ Crash)
    BY <2>2, MainKeepsIndex
  <2>3. CASE XtpNext /\ UNCHANGED <<ctp_vars, main>>
    BY <2>3, SdkKeepsIndex DEF TypeOK
  <2>4. QED
    BY <2>1, <2>2, <2>3 DEF Next, vars
<1>3. IndexInv => IndexIsKept
  BY DEF IndexInv
<1>4. QED
  BY <1>1, <1>2, <1>3, TypesHold, LifeHolds, SubscriptionHolds, PTL DEF Spec
=============================================================================
