---------------------------- MODULE DualSession ----------------------------
(***************************************************************************)
(* The life of the market-data session: the factory, the CTP, XTP and dual *)
(* sessions behind IMarketDataSession, and main.cpp, which starts one,     *)
(* waits for the first tick, loops and stops it.  Three threads: main, the *)
(* CTP library's and the XTP library's.                                    *)
(***************************************************************************)
EXTENDS CtpSession, XtpSession, Sequences

VARIABLES
    mode,      \* which session the factory has made
    pc,        \* next step of the main thread
    teardown   \* the steps left of stopping and destroying the session

main == <<mode, pc, teardown>>
vars == <<ctp_vars, xtp_vars, main>>

Configs == [ctp : BOOLEAN, xtp : BOOLEAN, provider : {"ctp", "xtp"}, valid : BOOLEAN]

\* CreateMarketDataSession.  ValidateXtpConfig throws on a missing field; the
\* default branch of the switch is not reachable.
CreateMarketDataSession(config) ==
    LET usesCtp == config.ctp \/ (~config.xtp /\ config.provider = "ctp")
        usesXtp == config.xtp \/ (~config.ctp /\ config.provider = "xtp")
    IN  CASE usesXtp /\ ~config.valid -> "throws"
          [] usesCtp /\ usesXtp -> "dual"
          [] usesXtp -> "xtp"
          [] OTHER -> "ctp"

HasCtp == mode \in {"ctp", "dual"}
HasXtp == mode \in {"xtp", "dual"}
StartingCtp == pc \in {"cConnected", "cLogin", "cLoginCheck", "cSub", "cSubCheck"}

Init ==
    /\ CtpInit /\ XtpInit
    /\ mode = "none" /\ pc = "begin" /\ teardown = <<>>

Alive == pc \notin {"exited", "crashed"}

-----------------------------------------------------------------------------
(* Stopping.  A destructor of a session that has been stopped, or not been   *)
(* started, does nothing more.                                               *)

StopXtp == <<"xLogout", "xFree", "xForget", "xRelease">>

\* Mutant of StopCtp: the bridge is freed before the api is released.
FreeThenRelease == <<"cFree", "cRelease">>

StopCtp == <<"cRelease", "cFree">>

\* Mutant of StopDual: the futures session is left to the end of the process.
StopIndexOnly == StopXtp

\* DualMarketDataSession::Stop, and the order of its members' destructors
StopDual == StopXtp \o StopCtp

StopOrder == CASE mode = "dual" -> StopDual
               [] mode = "xtp" -> StopXtp
               [] OTHER -> StopCtp

Leave(steps) == pc' = "stop" /\ teardown' = steps /\ UNCHANGED mode
Go(next) == pc' = next /\ UNCHANGED <<mode, teardown>>

TeardownStep ==
    /\ pc = "stop" /\ teardown # <<>>
    /\ LET step == Head(teardown)
       IN  \/ step = "xLogout" /\ XtpLogout /\ UNCHANGED ctp_vars
           \/ step = "xFree" /\ XtpFreeBridge /\ UNCHANGED ctp_vars
           \/ step = "xForget" /\ XtpForgetApi /\ UNCHANGED ctp_vars
           \/ step = "xRelease" /\ XtpRelease /\ UNCHANGED ctp_vars
           \/ step = "cRelease" /\ CtpRelease /\ UNCHANGED xtp_vars
           \/ step = "cFree" /\ CtpFreeBridge /\ UNCHANGED xtp_vars
    /\ teardown' = Tail(teardown)
    /\ UNCHANGED <<mode, pc>>

Exit ==
    /\ pc = "stop" /\ teardown = <<>>
    /\ Go("exited") /\ UNCHANGED <<ctp_vars, xtp_vars>>

-----------------------------------------------------------------------------
(* Starting *)

Create ==
    /\ pc = "begin"
    /\ \E config \in Configs :
         /\ mode' = CreateMarketDataSession(config)
         /\ pc' = CASE mode' = "throws" -> "exited"
                    [] mode' = "xtp" -> "xCreate"
                    [] OTHER -> "cCreate"
    /\ UNCHANGED <<teardown, ctp_vars, xtp_vars>>

\* MdApiSession::Start up to its first wait; a null api is an exception.
StartCtp ==
    /\ pc = "cCreate"
    /\ \/ CtpCreate /\ Go("cConnected")
       \/ Leave(StopOrder) /\ UNCHANGED ctp_vars
    /\ UNCHANGED xtp_vars

WaitForConnect == pc = "cConnected" /\ CtpWait("connected") /\ Go("cLogin") /\ UNCHANGED xtp_vars
WaitForLogin == pc = "cLogin" /\ CtpWait("login") /\ Go("cLoginCheck") /\ UNCHANGED xtp_vars
WaitForSubscription ==
    pc = "cSub" /\ CtpWait("subscription") /\ Go("cSubCheck") /\ UNCHANGED xtp_vars

\* The flags are read after the wait; a new connection may have begun by then.
CheckLogin ==
    /\ pc = "cLoginCheck"
    /\ IF LoginIsGood THEN Go("cSub") ELSE Leave(StopOrder)
    /\ UNCHANGED <<ctp_vars, xtp_vars>>

CheckSubscription ==
    /\ pc = "cSubCheck"
    /\ \/ SubscriptionIsGood /\ Go(IF mode = "dual" THEN "xCreate" ELSE "first")
       \/ ~SubscriptionIsGood /\ Leave(StopOrder)
    /\ UNCHANGED <<ctp_vars, xtp_vars>>

\* XtpMarketDataSession::Start; the adapter throws when there is no api.
StartXtp ==
    /\ pc = "xCreate"
    /\ \/ XtpCreate /\ Go("xConfigure")
       \/ Leave(StopOrder) /\ UNCHANGED xtp_vars
    /\ UNCHANGED ctp_vars

ConfigureXtp ==
    pc = "xConfigure" /\ XtpConfigure /\ Go("xLogin") /\ UNCHANGED ctp_vars

LogInToXtp == pc = "xLogin" /\ XtpStartSteps /\ UNCHANGED <<ctp_vars, main>>

\* A dual session whose index half does not start stops its futures half
\* first; the destructor does the rest.
XtpStarted ==
    /\ pc = "xLogin"
    /\ \/ XtpStartReturns(TRUE) /\ Go("first")
       \/ /\ XtpStartReturns(FALSE)
          /\ Leave(IF mode = "dual" THEN StopCtp \o StopXtp ELSE StopOrder)
    /\ UNCHANGED ctp_vars

-----------------------------------------------------------------------------
(* The first tick and the loop *)

\* Mutant of WaitForFirstFuture: a timeout is as good as a tick.
WaitForNothing ==
    /\ pc = "first" /\ HasCtp
    /\ Go(IF mode = "dual" THEN "firstIndex" ELSE "loop")
    /\ UNCHANGED <<ctp_vars, xtp_vars>>

\* MdApiSession::WaitForFirstMarketData returns true.
WaitForFirstFuture ==
    /\ pc = "first" /\ HasCtp
    /\ CtpWait("first")
    /\ Go(IF mode = "dual" THEN "firstIndex" ELSE "loop")
    /\ UNCHANGED xtp_vars

\* The wait for the index times out or not; a dual session starts either way.
WaitForFirstIndex ==
    /\ \/ pc = "firstIndex"
       \/ pc = "first" /\ mode = "xtp" /\ first_received
    /\ Go("loop") /\ UNCHANGED <<ctp_vars, xtp_vars>>

FirstTickTimesOut ==
    /\ pc = "first"
    /\ IF HasCtp THEN ~event["first"] ELSE ~first_received
    /\ Leave(StopOrder) /\ UNCHANGED <<ctp_vars, xtp_vars>>

\* g_keepRunning is cleared; session->Stop().
Signal == pc = "loop" /\ Leave(StopOrder) /\ UNCHANGED <<ctp_vars, xtp_vars>>

\* A call through a null pointer ends the process; the use of a freed bridge may.
Crash == misused /\ Go("crashed") /\ UNCHANGED <<ctp_vars, xtp_vars>>

MainStep ==
    \/ Create \/ StartCtp \/ WaitForConnect \/ WaitForLogin \/ CheckLogin
    \/ WaitForSubscription \/ CheckSubscription
    \/ StartXtp \/ ConfigureXtp \/ LogInToXtp \/ XtpStarted
    \/ WaitForFirstFuture \/ WaitForFirstIndex \/ TeardownStep \/ Exit

Next ==
    /\ Alive
    /\ \/ MainStep \/ FirstTickTimesOut \/ Signal \/ Crash
       \/ CtpNext /\ UNCHANGED <<xtp_vars, main>>
       \/ XtpNext /\ UNCHANGED <<ctp_vars, main>>

Spec == Init /\ [][Next]_vars

\* The main thread and the CTP library's thread run; that thread takes what the
\* front sends in its order, so that a stream of ticks does not keep a response
\* from being delivered (hence strong fairness).  Nothing is assumed of ticks,
\* of timeouts, of the signal, or of the loss of a connection.
FairSpec ==
    /\ Spec
    /\ WF_vars(MainStep /\ Alive)
    /\ SF_vars(CtpAnswers /\ UNCHANGED <<xtp_vars, main>> /\ Alive)
    /\ WF_vars(CtpFinishes /\ UNCHANGED <<xtp_vars, main>> /\ Alive)

-----------------------------------------------------------------------------
(* Properties *)

TypeOK ==
    /\ CtpTypeOK /\ XtpTypeOK
    /\ mode \in {"none", "ctp", "xtp", "dual", "throws"}
    /\ pc \in {"begin", "cCreate", "cConnected", "cLogin", "cLoginCheck", "cSub",
               "cSubCheck", "xCreate", "xConfigure", "xLogin", "first", "firstIndex",
               "loop", "stop", "exited", "crashed"}
    /\ teardown \in Seq({"xLogout", "xFree", "xForget", "xRelease", "cRelease", "cFree"})

\* When MdApiSession::Start returns true, every instrument is subscribed on the
\* present connection, or that connection is gone and its OnFrontDisconnected
\* still to come: no error of an earlier response or of an earlier connection is
\* forgotten.
StartMeansSubscribed ==
    [][pc = "cSubCheck" /\ pc' \in {"xCreate", "first"}
         => front.streams = Instruments \/ front.link = "lost"]_vars

\* The events that Start waits for belong to the latest request: a signal left
\* over from an earlier connection never answers for a request of a new one.
EventIsOfLastRequest ==
    /\ event["login"] => ~front.loginDue
    /\ event["subscription"] => front.subDue = {}

\* The CTP library never calls a bridge that has been destroyed, and the XTP
\* library, if ever, only while the session is being stopped.
BridgeIsAlive ==
    /\ ctp_cb # "idle" => ctp_spi = "live"
    /\ misused => pc \in {"stop", "exited", "crashed"}

\* When the loop of a session with futures begins, the listener has been told
\* of a future's tick or is being told of the first.
FirstTickKnown == pc = "loop" /\ HasCtp => told \/ ctp_cb = "listener"

\* Once Start of an index session has returned true and until it is stopped,
\* every exchange is subscribed, or a disconnection is being dealt with, or the
\* server has turned something down.
IndexIsKept ==
    pc \in {"first", "firstIndex", "loop"} /\ HasXtp
      => \/ xserver.streams = Groups
         \/ xserver.discDue \/ sdk = "recover"
         \/ denials > 0

Phase ==
    CASE pc = "begin" -> "new"
      [] pc = "loop" -> "running"
      [] pc = "stop" -> "stopping"
      [] pc = "exited" -> "stopped"
      [] pc = "crashed" -> "crashed"
      [] OTHER -> "starting"

Contract == INSTANCE SessionContract
            WITH Channels <- {"ctp", "xtp"},
                 phase <- Phase,
                 delivering <- {c \in {"ctp", "xtp"} :
                                  IF c = "ctp" THEN ctp_cb = "listener"
                                  ELSE sdk \in {"tick", "listener"}},
                 heard <- ctp.has_received_first \/ first_received

\* The sessions keep the contract that main.cpp relies on.
KeepsContract == Contract!Spec

\* A connection to the front, the first or a later one, leads to the
\* subscription of every instrument, unless it is lost, the front turns
\* something down, or the session is stopped.
FuturesComeBack ==
    front.link = "up" ~> \/ front.streams = Instruments
                         \/ front.link # "up" \/ front.refused
                         \/ ctp_api # "live" \/ pc = "crashed"

\* MdApiSession::Start, which waits without a timeout, ends, unless the front
\* is not connected or has turned something down on the present connection.
StartEnds == StartingCtp ~> ~StartingCtp \/ front.link # "up" \/ front.refused
=============================================================================
